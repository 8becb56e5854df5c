-------------------------- MODULE InterruptsProofs --------------------------
(***************************************************************************)
(* Proofs about Interrupts, for every set of exceptions that occur and     *)
(* every depth of the stack; and about Keyboard, whose handler they let    *)
(* run as one step, for every size of the ring and of the line and every   *)
(* set of keys.                                                            *)
(***************************************************************************)
EXTENDS Interrupts, Keyboard, SequenceTheorems, FiniteSetTheorems, TLAPS

-----------------------------------------------------------------------------
(* Interrupts: the inductive invariant *)

BootStages == {"kmain", "mask", "idt_init", "syscall_init", "sti"}

(* The stages of the keyboard stub: those with the saved registers on the  *)
(* stack, and those before the end of interrupt command.                   *)
Saved == {"keyboard_handler", "eoi", "restore"}
DeviceStages == Saved \cup {"keyboard", "iret"}
InService == {"keyboard", "keyboard_handler", "eoi"}

Words ==
  [w : {"eflags", "cs", "eip", "error", "regs"},
   v : {"on", "off", "code", "main", "wrapper", "c", "program"}]

(* A return address is in the program, in a wrapper or in a C function;    *)
(* the last two have words below the frame to return to.                   *)
Addresses(s) ==
  \A k \in 1 .. Len(s) : s[k].w = "eip" => s[k].v = "main" \/ (s[k].v \in {"wrapper", "c"} /\ k >= 4)

(* The length of the stack without the saved registers. *)
Height == IF eip \in Saved THEN Len(stack) - 1 ELSE Len(stack)

(* The table after set-up. *)
Gates == [Table EXCEPT ![SYSCALL_INT_NUM] = [entry |-> "c", gate |-> "trap"]]

Typed ==
  /\ stack \in Seq(Words) /\ Addresses(stack) /\ Height <= MAX_STACK
  /\ pic \in [base : {8, 32}, irr : SUBSET IRQS, isr : SUBSET IRQS, mask : SUBSET IRQS]
  /\ flag \in {"on", "off"} /\ direct \in {"no", "trap", "int"}
  /\ eip \in Stages \ {"timer", "timer_handler", "crash"}
  /\ timer_count = 0

(* How far set-up has come. *)
SetUp ==
  /\ eip \in BootStages => stack = <<>> /\ flag = "off" /\ direct = "no"
  /\ eip \notin {"kmain", "mask"} => pic.base = 32 /\ pic.mask = IRQS \ {KEYBOARD}
  /\ eip = "mask" => pic.base = 32
  /\ eip = "syscall_init" => idt = Table
  /\ eip \notin BootStages \/ eip = "sti" => idt = Gates

(* The keyboard stub runs with interrupts off and has under it the frame   *)
(* of a program that had them on, and its saved registers.                 *)
Serving ==
  /\ pic.isr = IF eip \in InService THEN {KEYBOARD} ELSE {}
  /\ regs = IF eip \in {"eoi", "restore"} THEN "handler" ELSE "program"
  /\ eip \in DeviceStages =>
       /\ flag = "off" /\ direct # "int" /\ Height >= 3
       /\ stack[Height].w = "eip" /\ stack[Height - 1] = Word("cs", "code")
       /\ stack[Height - 2] = Word("eflags", "on")
       /\ direct = "no" => Height = 3 /\ stack[3].v = "main"
  /\ eip \in Saved => stack[Len(stack)] = Word("regs", "program")

(* After a C function was entered straight from a gate the stack is in     *)
(* disorder, but never too short for what is taken off it.                 *)
Disorder ==
  /\ eip \in {"wrapper", "c"} => stack # <<>>
  /\ eip \in {"wrapper", "c", "lost"} => direct # "no"
  /\ eip \in {"main", "halt"} /\ direct = "no" => stack = <<>> /\ flag = "on"
  /\ direct = "int" => flag = "off"

IrqInv == Typed /\ SetUp /\ Serving /\ Disorder

-----------------------------------------------------------------------------
(* The stack *)

LEMMA Joined ==
  ASSUME NEW s \in Seq(Words), NEW u \in Seq(Words)
  PROVE  /\ s \o u \in Seq(Words)
         /\ Len(s \o u) = Len(s) + Len(u)
         /\ \A k \in 1 .. Len(s) + Len(u) :
              (s \o u)[k] = IF k <= Len(s) THEN s[k] ELSE u[k - Len(s)]
BY ConcatProperties

ErrorCodes == {<<>>, <<Word("error", "code")>>}

Frame(a, r, e) == <<Word("eflags", a), Word("cs", "code"), Word("eip", r)>> \o e

(* t is s with a frame and an error code, if any, on top. *)
Pushed(t, s, a, r, e) ==
  /\ t \in Seq(Words) /\ Addresses(t) /\ Len(t) = Len(s) + 3 + Len(e)
  /\ t[Len(s) + 1] = Word("eflags", a)
  /\ t[Len(s) + 2] = Word("cs", "code")
  /\ t[Len(s) + 3] = Word("eip", r)

LEMMA FramePushed ==
  ASSUME NEW s \in Seq(Words), Addresses(s),
         NEW a \in {"on", "off"}, NEW r \in {"main", "wrapper", "c"},
         r # "main" => Len(s) >= 1,
         NEW e \in ErrorCodes
  PROVE  Pushed(s \o Frame(a, r, e), s, a, r, e)
<1> DEFINE b == <<Word("eflags", a), Word("cs", "code"), Word("eip", r)>>
           f == b \o e
           t == s \o f
<1>1. /\ Word("eflags", a) \in Words /\ Word("cs", "code") \in Words
      /\ Word("eip", r) \in Words /\ Word("error", "code") \in Words
  BY DEF Word, Words
<1>2. b \in Seq(Words) /\ Len(b) = 3 /\ e \in Seq(Words) /\ (Len(e) = 0 \/ Len(e) = 1)
  <2>1. b \in Seq(Words) /\ Len(b) = 3
    BY <1>1
  <2>2. CASE e = <<>>
    BY <2>1, <2>2
  <2>3. CASE e = <<Word("error", "code")>>
    BY <1>1, <2>1, <2>3
  <2> QED
    BY <2>2, <2>3 DEF ErrorCodes
<1>3. b[1] = Word("eflags", a) /\ b[2] = Word("cs", "code") /\ b[3] = Word("eip", r)
  OBVIOUS
<1>4. Len(e) = 1 => e[1] = Word("error", "code")
  BY DEF ErrorCodes
<1>0. Len(s) \in Nat /\ Len(e) \in Nat
  BY <1>2, LenProperties
<1> HIDE DEF b
<1>5. /\ f \in Seq(Words) /\ Len(f) = 3 + Len(e)
      /\ f[1] = Word("eflags", a) /\ f[2] = Word("cs", "code") /\ f[3] = Word("eip", r)
      /\ Len(e) = 1 => f[4] = Word("error", "code")
  <2>1. /\ f \in Seq(Words) /\ Len(f) = 3 + Len(e)
        /\ \A k \in 1 .. 3 + Len(e) : f[k] = IF k <= 3 THEN b[k] ELSE e[k - 3]
    <3>1. /\ f \in Seq(Words) /\ Len(f) = Len(b) + Len(e)
          /\ \A k \in 1 .. Len(b) + Len(e) : f[k] = IF k <= Len(b) THEN b[k] ELSE e[k - Len(b)]
      BY <1>2, Joined
    <3> HIDE DEF f
    <3> QED
      BY <1>2, <3>1
  <2> HIDE DEF f
  <2>2. f[1] = b[1] /\ f[2] = b[2] /\ f[3] = b[3] /\ (Len(e) = 1 => f[4] = e[1])
    BY <1>2, <2>1
  <2> QED
    BY <1>3, <1>4, <2>1, <2>2
<1> HIDE DEF f
<1>6. /\ t \in Seq(Words) /\ Len(t) = Len(s) + 3 + Len(e)
      /\ \A k \in 1 .. Len(t) : t[k] = IF k <= Len(s) THEN s[k] ELSE f[k - Len(s)]
  <2>1. /\ t \in Seq(Words) /\ Len(t) = Len(s) + Len(f)
        /\ \A k \in 1 .. Len(s) + Len(f) : t[k] = IF k <= Len(s) THEN s[k] ELSE f[k - Len(s)]
    BY <1>5, Joined
  <2> HIDE DEF t
  <2>2. Len(s) + Len(f) = Len(s) + 3 + Len(e)
    BY <1>0, <1>5
  <2> QED
    BY <2>1, <2>2
<1> HIDE DEF t
<1>7. /\ t[Len(s) + 1] = Word("eflags", a) /\ t[Len(s) + 2] = Word("cs", "code")
      /\ t[Len(s) + 3] = Word("eip", r)
  BY <1>0, <1>5, <1>6
<1>9. Len(t) \in Nat /\ Len(t) <= Len(s) + 4 /\ (Len(t) = Len(s) + 4 => Len(e) = 1)
  <2>1. Len(t) = Len(s) + 3 + Len(e) /\ (Len(e) = 0 \/ Len(e) = 1)
    BY <1>2, <1>6
  <2>2. \A x, y, z \in Nat : z = x + 3 + y /\ (y = 0 \/ y = 1) => z <= x + 4 /\ (z = x + 4 => y = 1)
    OBVIOUS
  <2>3. Len(t) \in Nat
    BY <1>6, LenProperties
  <2> QED
    BY <1>0, <2>1, <2>2, <2>3
<1>8. ASSUME NEW k \in 1 .. Len(t), t[k].w = "eip"
      PROVE  t[k].v = "main" \/ (t[k].v \in {"wrapper", "c"} /\ k >= 4)
  <2>1. CASE k <= Len(s)
    BY <1>6, <1>8, <2>1 DEF Addresses
  <2>2. CASE k > Len(s)
    <3>1. /\ \/ k - Len(s) = 1 \/ k - Len(s) = 2 \/ k - Len(s) = 3 \/ k - Len(s) = 4
          /\ k - Len(s) = 4 => Len(e) = 1
      <4>2. k \in Int /\ k <= Len(t)
        BY <1>9
      <4> QED
        BY <1>0, <1>9, <2>2, <4>2
    <3>2. t[k] = f[k - Len(s)]
      BY <1>6, <2>2
    <3>3. k - Len(s) = 3 /\ t[k] = Word("eip", r)
      BY <1>5, <1>8, <3>1, <3>2 DEF Word
    <3> QED
      BY <3>3 DEF Word
  <2> QED
    BY <2>1, <2>2
<1> QED
  <2>1. s \o Frame(a, r, e) = t
    BY DEF Frame, t, f, b
  <2>2. Pushed(t, s, a, r, e)
    BY <1>6, <1>7, <1>8 DEF Addresses, Pushed
  <2> QED
    BY <2>1, <2>2

(* Words taken off a stack. *)
LEMMA Popped ==
  ASSUME NEW s \in Seq(Words), Addresses(s), NEW n \in 0 .. Len(s)
  PROVE  LET t == SubSeq(s, 1, n)
         IN  /\ t \in Seq(Words) /\ Addresses(t) /\ Len(t) = n
             /\ \A k \in 1 .. n : t[k] = s[k]
<1> DEFINE t == SubSeq(s, 1, n)
<1>1. t \in Seq(Words) /\ Len(t) = n /\ \A k \in 1 .. n : t[k] = s[k]
  BY SubSeqProperties
<1> HIDE DEF t
<1>2. Addresses(t)
  BY <1>1 DEF Addresses
<1> QED
  BY <1>1, <1>2 DEF t

(* The word on top, and the stack without it. *)
LEMMA TopOff ==
  ASSUME NEW s \in Seq(Words), Addresses(s), s # <<>>
  PROVE  /\ Len(s) >= 1 /\ Last(s) = s[Len(s)] /\ Last(s) \in Words
         /\ Front(s) \in Seq(Words) /\ Addresses(Front(s)) /\ Len(Front(s)) = Len(s) - 1
         /\ \A k \in 1 .. Len(s) - 1 : Front(s)[k] = s[k]
<1>1. Len(s) \in Nat /\ Len(s) >= 1
  BY EmptySeq
<1>2. Front(s) = SubSeq(s, 1, Len(s) - 1) /\ Last(s) = s[Len(s)]
  BY DEF Front, Last
<1>3. s[Len(s)] \in Words
  BY <1>1, ElementOfSeq
<1>4. Len(s) - 1 \in 0 .. Len(s)
  BY <1>1
<1> HIDE DEF Addresses
<1> QED
  BY <1>1, <1>2, <1>3, <1>4, Popped

-----------------------------------------------------------------------------
(* Set-up *)

(* The gates that are used lead to a stub or to a C function. *)
LEMMA GateFacts ==
  /\ Gates[INT_KEYBOARD] = [entry |-> "keyboard", gate |-> "int"]
  /\ \A v \in Exceptions \cup {SYSCALL_INT_NUM} :
       Gates[v].entry = "c" /\ Gates[v].gate \in {"int", "trap"} /\ Gates[v] # NoGate
<1> DEFINE C == [entry |-> "c", gate |-> "trap"]
<1>1. /\ SYSCALL_INT_NUM \in Vectors /\ INT_KEYBOARD \in Vectors
      /\ INT_KEYBOARD # SYSCALL_INT_NUM /\ INT_KEYBOARD # INT_TIMER
      /\ INT_KEYBOARD \notin Exceptions
      /\ Exceptions \subseteq Vectors /\ SYSCALL_INT_NUM \notin Exceptions
  BY DEF SYSCALL_INT_NUM, INT_KEYBOARD, INT_TIMER, Vectors, Exceptions
<1>2. /\ Table[INT_KEYBOARD] = [entry |-> "keyboard", gate |-> "int"]
      /\ \A v \in Exceptions : Table[v] = [entry |-> "c", gate |-> IF v \in Traps THEN "trap" ELSE "int"]
  <2>1. Table[INT_KEYBOARD] = [entry |-> "keyboard", gate |-> "int"]
    BY <1>1 DEF Table
  <2>2. ASSUME NEW v \in Exceptions
        PROVE  Table[v] = [entry |-> "c", gate |-> IF v \in Traps THEN "trap" ELSE "int"]
    <3>1. v \in Vectors /\ v # INT_TIMER /\ v # INT_KEYBOARD /\ v # SYSCALL_INT_NUM
      BY <1>1 DEF INT_TIMER, Exceptions
    <3> QED
      BY <3>1 DEF Table
  <2> QED
    BY <2>1, <2>2
<1>3. /\ Gates[SYSCALL_INT_NUM] = C
      /\ \A v \in Vectors \ {SYSCALL_INT_NUM} : Gates[v] = Table[v]
  BY <1>1 DEF Gates, Table
<1> QED
  <2>1. Gates[INT_KEYBOARD] = [entry |-> "keyboard", gate |-> "int"]
    BY <1>1, <1>2, <1>3
  <2>2. ASSUME NEW v \in Exceptions
        PROVE  Gates[v] = [entry |-> "c", gate |-> IF v \in Traps THEN "trap" ELSE "int"]
    BY <1>1, <1>2, <1>3
  <2>3. ASSUME NEW v \in Exceptions \cup {SYSCALL_INT_NUM}
        PROVE  Gates[v].entry = "c" /\ Gates[v].gate \in {"int", "trap"} /\ Gates[v] # NoGate
    <3>1. NoGate.entry = "none"
      BY DEF NoGate
    <3>2. CASE v \in Exceptions
      <4>1. \E x \in {"int", "trap"} : Gates[v] = [entry |-> "c", gate |-> x]
        BY <2>2, <3>2
      <4> QED
        BY <3>1, <4>1
    <3>3. CASE v = SYSCALL_INT_NUM
      BY <1>3, <3>1, <3>3
    <3> QED
      BY <3>2, <3>3
  <2> QED
    BY <2>1, <2>3

LEMMA InitIrqInv == IrqInit => IrqInv
<1> SUFFICES ASSUME IrqInit PROVE IrqInv
  OBVIOUS
<1>1. Typed
  BY EmptySeq, InterruptsAssumption DEF IrqInit, Typed, Addresses, Height, Saved, Stages, IRQS
<1> QED
  BY <1>1 DEF IrqInit, IrqInv, SetUp, Serving, Disorder, BootStages, DeviceStages, Saved, InService

LEMMA BootKeeps ==
  ASSUME IrqInv, Boot
  PROVE  IrqInv'
<1>1. /\ eip \in BootStages /\ stack = <<>> /\ UNCHANGED <<stack, regs, timer_count, direct>>
      /\ eip' \in {"mask", "idt_init", "syscall_init", "sti", "main"}
      /\ regs = "program" /\ pic.isr = {}
  BY DEF Boot, PicReset, PicMask, idt_init, syscall_init, Sti, IrqInv, SetUp, Serving,
         BootStages, InService
<1>2. pic' \in [base : {8, 32}, irr : SUBSET IRQS, isr : SUBSET IRQS, mask : SUBSET IRQS]
      /\ pic'.isr = {}
  BY <1>1 DEF Boot, PicReset, PicMask, idt_init, syscall_init, Sti, IrqInv, Typed
<1>3. Typed'
  BY <1>1, <1>2, EmptySeq, InterruptsAssumption
     DEF Boot, PicReset, PicMask, idt_init, syscall_init, Sti, IrqInv, Typed, Addresses, Height,
         Saved, Stages
<1>4. SetUp'
  BY <1>1 DEF Boot, PicReset, PicMask, idt_init, syscall_init, Sti, IrqInv, Typed, SetUp,
              BootStages, Gates
<1>5. Serving' /\ Disorder'
  BY <1>1, <1>2 DEF Boot, PicReset, PicMask, idt_init, syscall_init, Sti, IrqInv, SetUp, Serving,
              Disorder, DeviceStages, Saved, InService, BootStages
<1> QED
  BY <1>3, <1>4, <1>5 DEF IrqInv

-----------------------------------------------------------------------------
(* The machine *)

(* Only the keyboard is ever offered once set-up is done. *)
LEMMA DeliverKeeps ==
  ASSUME IrqInv, Deliver
  PROVE  IrqInv'
<1> DEFINE r == IF eip = "halt" THEN "main" ELSE eip
<1>1. /\ flag = "on" /\ eip \notin {"lost", "crash"} /\ Offered # {}
      /\ Len(stack) + 3 <= MAX_STACK
      /\ UNCHANGED <<idt, obf, regs, timer_count, early>>
  BY DEF Deliver
<1>2. /\ eip \in {"main", "halt", "wrapper", "c"} /\ direct # "int" /\ idt = Gates
      /\ pic.base = 32 /\ pic.mask = IRQS \ {KEYBOARD} /\ pic.isr = {} /\ regs = "program"
  <2>1. eip \in {"main", "halt", "wrapper", "c"} /\ direct # "int"
    BY <1>1 DEF IrqInv, Typed, SetUp, Serving, Disorder, Stages, BootStages, DeviceStages, Saved
  <2> QED
    BY <2>1 DEF IrqInv, SetUp, Serving, BootStages, InService
<1>3. Offered = {KEYBOARD}
  <2>1. Offered \subseteq {KEYBOARD}
    BY <1>2 DEF Offered, IrqInv, Typed
  <2> QED
    BY <1>1, <2>1
<1>4. Min(Offered) = KEYBOARD
  BY <1>3 DEF Min, KEYBOARD
<1>5. /\ pic' = [pic EXCEPT !.irr = @ \ {KEYBOARD}, !.isr = @ \cup {KEYBOARD}]
      /\ EnterGate(INT_KEYBOARD, r, stack)
  <2>1. pic.base + KEYBOARD = INT_KEYBOARD
    BY <1>2 DEF KEYBOARD, INT_KEYBOARD
  <2> QED
    BY <1>4, <2>1 DEF Deliver
<1>6. eip' = "keyboard" /\ stack' = stack \o Frame("on", r, <<>>) /\ flag' = "off" /\ direct' = direct
  <2>1. INT_KEYBOARD \notin WithError
    BY DEF INT_KEYBOARD, WithError
  <2>2. idt[INT_KEYBOARD].entry = "keyboard" /\ idt[INT_KEYBOARD].gate = "int"
        /\ idt[INT_KEYBOARD] # NoGate
    BY <1>2, GateFacts DEF NoGate
  <2> QED
    BY <1>1, <1>5, <2>1, <2>2 DEF EnterGate, Frame
<1>7. /\ pic' \in [base : {8, 32}, irr : SUBSET IRQS, isr : SUBSET IRQS, mask : SUBSET IRQS]
      /\ pic'.base = 32 /\ pic'.mask = IRQS \ {KEYBOARD} /\ pic'.isr = {KEYBOARD}
  <2>1. KEYBOARD \in IRQS
    BY DEF KEYBOARD, IRQS
  <2>2. pic \in [base : {8, 32}, irr : SUBSET IRQS, isr : SUBSET IRQS, mask : SUBSET IRQS]
    BY DEF IrqInv, Typed
  <2> QED
    BY <1>2, <1>5, <2>1, <2>2
<1>8. /\ stack' \in Seq(Words) /\ Addresses(stack') /\ Len(stack') = Len(stack) + 3
      /\ stack'[Len(stack) + 1] = Word("eflags", "on")
      /\ stack'[Len(stack) + 2] = Word("cs", "code")
      /\ stack'[Len(stack) + 3] = Word("eip", r)
  <2>1. stack \in Seq(Words) /\ Addresses(stack)
    BY DEF IrqInv, Typed
  <2>2. r \in {"main", "wrapper", "c"} /\ (r # "main" => Len(stack) >= 1)
    BY <1>2, <2>1, EmptySeq DEF IrqInv, Disorder
  <2>3. <<>> \in ErrorCodes /\ Len(<<>>) = 0
    BY DEF ErrorCodes
  <2>4. Len(stack) \in Nat
    BY <2>1, LenProperties
  <2> HIDE DEF r
  <2> QED
    <3>1. Pushed(stack \o Frame("on", r, <<>>), stack, "on", r, <<>>)
      BY <2>1, <2>2, <2>3, FramePushed
    <3>2. Pushed(stack', stack, "on", r, <<>>)
      BY <1>6, <3>1
    <3> QED
      BY <2>3, <2>4, <3>2 DEF Pushed
<1>9. Len(stack) \in Nat /\ (direct = "no" => Len(stack) = 0 /\ r = "main")
  BY <1>2, LenProperties DEF IrqInv, Typed, Disorder
<1>10. Typed'
  BY <1>1, <1>6, <1>7, <1>8 DEF IrqInv, Typed, Height, Saved, Stages
<1>11. Serving'
  <2>1. Height' = Len(stack) + 3
    BY <1>6, <1>8 DEF Height, Saved
  <2>2. Height' >= 3 /\ Height' - 2 = Len(stack) + 1
    BY <1>9, <2>1
  <2>3. /\ stack'[Height'] = Word("eip", r) /\ stack'[Height' - 1] = Word("cs", "code")
        /\ stack'[Height' - 2] = Word("eflags", "on")
    BY <1>8, <2>1, <2>2
  <2>4. direct' = "no" => Height' = 3 /\ stack'[3].v = "main"
    <3>1. Word("eip", r).v = r
      BY DEF Word
    <3> HIDE DEF r
    <3>2. direct = "no" => Height' = 3 /\ r = "main"
      BY <1>9, <2>1
    <3> QED
      BY <1>6, <2>3, <3>1, <3>2
  <2>5. stack'[Height'].w = "eip"
    BY <2>3 DEF Word
  <2> QED
    BY <1>1, <1>2, <1>6, <1>7, <2>2, <2>3, <2>4, <2>5 DEF Serving, InService, DeviceStages, Saved
<1>12. SetUp' /\ Disorder'
  BY <1>1, <1>2, <1>6, <1>7 DEF IrqInv, SetUp, Disorder, BootStages
<1> QED
  BY <1>10, <1>11, <1>12 DEF IrqInv

(* The requests of the devices. *)
LEMMA RequestKeeps ==
  ASSUME IrqInv, Tick \/ Byte
  PROVE  IrqInv'
<1>1. UNCHANGED <<idt, flag, stack, regs, eip, timer_count, direct, early>>
  BY DEF Tick, Byte
<1>2. \E i \in IRQS : pic' = [pic EXCEPT !.irr = @ \cup {i}]
  BY DEF Tick, Byte, IRQS, KEYBOARD
<1>3. /\ pic' \in [base : {8, 32}, irr : SUBSET IRQS, isr : SUBSET IRQS, mask : SUBSET IRQS]
      /\ pic'.base = pic.base /\ pic'.mask = pic.mask /\ pic'.isr = pic.isr
  BY <1>2 DEF IrqInv, Typed
<1>4. Height' = Height
  BY <1>1 DEF Height
<1> QED
  BY <1>1, <1>3, <1>4 DEF IrqInv, Typed, SetUp, Serving, Disorder

-----------------------------------------------------------------------------
(* The keyboard stub *)

LEMMA SaveKeeps ==
  ASSUME IrqInv, Save
  PROVE  IrqInv'
<1>1. /\ eip = "keyboard" /\ eip' = "keyboard_handler" /\ flag' = "off"
      /\ stack' = Append(stack, Word("regs", "program"))
      /\ UNCHANGED <<idt, pic, obf, regs, timer_count, direct, early>>
  BY DEF Save, IrqInv, Typed, Serving
<1>2. stack \in Seq(Words) /\ Len(stack) \in Nat /\ Addresses(stack) /\ Word("regs", "program") \in Words
  BY LenProperties DEF IrqInv, Typed, Word, Words
<1>3. /\ stack' \in Seq(Words) /\ Len(stack') = Len(stack) + 1
      /\ stack'[Len(stack) + 1] = Word("regs", "program")
      /\ \A k \in 1 .. Len(stack) : stack'[k] = stack[k]
  BY <1>1, <1>2, AppendProperties
<1>4. Addresses(stack')
  <2> SUFFICES ASSUME NEW k \in 1 .. Len(stack) + 1, stack'[k].w = "eip"
               PROVE  stack'[k].v = "main" \/ (stack'[k].v \in {"wrapper", "c"} /\ k >= 4)
    BY <1>3 DEF Addresses
  <2>1. k # Len(stack) + 1
    BY <1>3 DEF Word
  <2>2. k \in 1 .. Len(stack)
    BY <1>2, <2>1
  <2> QED
    BY <1>2, <1>3, <2>2 DEF Addresses
<1>5. Height = Len(stack) /\ Height' = Len(stack)
  BY <1>1, <1>2, <1>3 DEF Height, Saved
<1>6. Typed'
  BY <1>1, <1>3, <1>4, <1>5 DEF IrqInv, Typed, Stages
<1>7. Serving'
  <2>1. /\ direct # "int" /\ Height >= 3
        /\ stack[Height].w = "eip" /\ stack[Height - 1] = Word("cs", "code")
        /\ stack[Height - 2] = Word("eflags", "on")
        /\ direct = "no" => Height = 3 /\ stack[3].v = "main"
        /\ pic.isr = {KEYBOARD} /\ regs = "program"
    BY <1>1 DEF IrqInv, Serving, DeviceStages, InService
  <2>2. Height \in 1 .. Len(stack) /\ Height - 2 \in 1 .. Len(stack)
    BY <1>2, <1>5, <2>1
  <2>3. /\ stack'[Height'] = stack[Height] /\ stack'[Height' - 1] = stack[Height - 1]
        /\ stack'[Height' - 2] = stack[Height - 2]
    BY <1>3, <1>5, <2>2
  <2>4. direct' = "no" => Height' = 3 /\ stack'[3].v = "main"
    BY <1>1, <1>5, <2>1, <2>3
  <2>5. stack'[Len(stack')] = Word("regs", "program")
    BY <1>3
  <2> QED
    BY <1>1, <1>5, <2>1, <2>3, <2>4, <2>5 DEF Serving, InService, DeviceStages, Saved
<1>8. SetUp' /\ Disorder'
  BY <1>1 DEF IrqInv, SetUp, Disorder, BootStages
<1> QED
  BY <1>6, <1>7, <1>8 DEF IrqInv

(* The C handler and the end of interrupt command. *)
LEMMA HandleKeeps ==
  ASSUME IrqInv, Handle \/ EndOfInterrupt
  PROVE  IrqInv'
<1>1. /\ \/ eip = "keyboard_handler" /\ eip' = "eoi" /\ pic' = pic
         \/ eip = "eoi" /\ eip' = "restore" /\ pic' = [pic EXCEPT !.isr = @ \ {Min(@)}]
      /\ regs' = "handler"
      /\ UNCHANGED <<idt, flag, stack, timer_count, direct>>
  BY DEF Handle, EndOfInterrupt, IrqInv, Typed, Serving
<1>2. pic.isr = {KEYBOARD}
  BY <1>1 DEF IrqInv, Serving, InService
<1>3. Min(pic.isr) = KEYBOARD
  BY <1>2 DEF Min, KEYBOARD
<1>4. /\ pic' \in [base : {8, 32}, irr : SUBSET IRQS, isr : SUBSET IRQS, mask : SUBSET IRQS]
      /\ pic'.base = pic.base /\ pic'.mask = pic.mask
      /\ pic'.isr = IF eip' = "eoi" THEN {KEYBOARD} ELSE {}
  <2>1. pic \in [base : {8, 32}, irr : SUBSET IRQS, isr : SUBSET IRQS, mask : SUBSET IRQS]
    BY DEF IrqInv, Typed
  <2> QED
    BY <1>1, <1>2, <1>3, <2>1
<1>5. Height' = Height
  BY <1>1 DEF Height, Saved
<1>6. Typed' /\ SetUp' /\ Disorder'
  BY <1>1, <1>4, <1>5 DEF IrqInv, Typed, SetUp, Disorder, BootStages, Stages
<1>7. Serving'
  BY <1>1, <1>4, <1>5 DEF IrqInv, Serving, InService, DeviceStages, Saved
<1> QED
  BY <1>6, <1>7 DEF IrqInv

LEMMA RestoreKeeps ==
  ASSUME IrqInv, Restore
  PROVE  IrqInv'
<1>1. /\ eip = "restore" /\ eip' = "iret"
      /\ regs' = Last(stack).v /\ stack' = Front(stack)
      /\ UNCHANGED <<idt, pic, obf, flag, timer_count, direct, early>>
  BY DEF Restore
<1>2. /\ stack \in Seq(Words) /\ Addresses(stack) /\ Len(stack) \in Nat
      /\ Height = Len(stack) - 1 /\ Height >= 3
      /\ stack[Len(stack)] = Word("regs", "program")
  BY <1>1, LenProperties DEF IrqInv, Typed, Serving, DeviceStages, Saved, Height
<1>3. stack # <<>>
  BY <1>2
<1>4. /\ Last(stack) = Word("regs", "program")
      /\ stack' \in Seq(Words) /\ Addresses(stack') /\ Len(stack') = Len(stack) - 1
      /\ \A k \in 1 .. Len(stack) - 1 : stack'[k] = stack[k]
  BY <1>1, <1>2, <1>3, TopOff
<1>5. regs' = "program" /\ Height' = Height
  BY <1>1, <1>2, <1>4 DEF Word, Height, Saved
<1>6. Typed' /\ SetUp' /\ Disorder'
  BY <1>1, <1>4, <1>5 DEF IrqInv, Typed, SetUp, Disorder, BootStages, Stages
<1>7. Serving'
  <2>1. /\ flag = "off" /\ direct # "int"
        /\ stack[Height].w = "eip" /\ stack[Height - 1] = Word("cs", "code")
        /\ stack[Height - 2] = Word("eflags", "on")
        /\ direct = "no" => Height = 3 /\ stack[3].v = "main"
        /\ pic.isr = {}
    BY <1>1 DEF IrqInv, Serving, DeviceStages, Saved, InService
  <2>2. Height \in 1 .. Len(stack) - 1 /\ Height - 2 \in 1 .. Len(stack) - 1
    BY <1>2
  <2>3. /\ stack'[Height'] = stack[Height] /\ stack'[Height' - 1] = stack[Height - 1]
        /\ stack'[Height' - 2] = stack[Height - 2]
    BY <1>4, <1>5, <2>2
  <2>4. direct' = "no" => Height' = 3 /\ stack'[3].v = "main"
    BY <1>1, <1>5, <2>1, <2>3
  <2> QED
    BY <1>1, <1>2, <1>5, <2>1, <2>3, <2>4 DEF Serving, InService, DeviceStages, Saved
<1> QED
  BY <1>6, <1>7 DEF IrqInv

LEMMA IretKeeps ==
  ASSUME IrqInv, Iret
  PROVE  IrqInv'
<1> DEFINE n == Len(stack)
<1>1. /\ eip = "iret"
      /\ stack \in Seq(Words) /\ Addresses(stack) /\ n \in Nat /\ n >= 3 /\ n <= MAX_STACK
      /\ stack[n].w = "eip" /\ stack[n - 2] = Word("eflags", "on")
      /\ direct # "int" /\ (direct = "no" => n = 3 /\ stack[3].v = "main")
      /\ pic.isr = {} /\ regs = "program"
  BY LenProperties DEF Iret, IrqInv, Typed, Serving, DeviceStages, Saved, Height, InService
<1>2. /\ eip' = stack[n].v /\ flag' = "on" /\ stack' = SubSeq(stack, 1, n - 3)
      /\ UNCHANGED <<idt, pic, obf, regs, timer_count, direct, early>>
  BY <1>1 DEF Iret, Last, Word
<1>3. eip' = "main" \/ (eip' \in {"wrapper", "c"} /\ n >= 4)
  BY <1>1, <1>2 DEF Addresses
<1>4. n - 3 \in 0 .. n
  BY <1>1
<1>5. stack' \in Seq(Words) /\ Addresses(stack') /\ Len(stack') = n - 3
  BY <1>1, <1>2, <1>4, Popped
<1>6. /\ eip' \in {"wrapper", "c"} => stack' # <<>> /\ direct # "no"
      /\ direct = "no" => stack' = <<>>
  <2>1. n - 3 = 0 => stack' = <<>>
    BY <1>5, EmptySeq
  <2>2. n >= 4 => stack' # <<>>
    <3> SUFFICES ASSUME n >= 4, stack' = <<>> PROVE FALSE
      OBVIOUS
    <3>1. Len(stack') = 0
      BY EmptySeq
    <3>2. n \in Nat /\ 0 = n - 3
      BY <1>1, <1>5, <3>1
    <3> HIDE DEF n
    <3> QED
      BY <3>2
  <2>3. direct = "no" => n = 3
    BY <1>1
  <2> HIDE DEF n
  <2> QED
    BY <1>1, <1>3, <2>1, <2>2, <2>3
<1>7. Typed'
  BY <1>1, <1>2, <1>3, <1>5, InterruptsAssumption DEF IrqInv, Typed, Height, Saved, Stages
<1>8. SetUp'
  BY <1>1, <1>2, <1>3 DEF IrqInv, SetUp, BootStages
<1>9. Serving' /\ Disorder'
  BY <1>1, <1>2, <1>3, <1>6 DEF Serving, Disorder, DeviceStages, Saved, InService
<1> QED
  BY <1>7, <1>8, <1>9 DEF IrqInv

-----------------------------------------------------------------------------
(* C functions at the end of a gate *)

LEMMA RetKeeps ==
  ASSUME IrqInv, Ret
  PROVE  IrqInv'
<1> DEFINE n == Len(stack)
<1>1. /\ eip \in {"c", "wrapper"} /\ stack # <<>> /\ direct # "no"
      /\ stack \in Seq(Words) /\ Addresses(stack) /\ n <= MAX_STACK
      /\ pic.isr = {} /\ regs = "program"
  BY DEF Ret, IrqInv, Typed, Serving, Disorder, Saved, Height, InService
<1>2. /\ n \in Nat /\ n >= 1 /\ Last(stack) = stack[n]
      /\ Front(stack) \in Seq(Words) /\ Addresses(Front(stack)) /\ Len(Front(stack)) = n - 1
  BY <1>1, TopOff, LenProperties
<1>3. /\ eip' = IF stack[n].w = "eip" THEN stack[n].v ELSE "lost"
      /\ stack' = Front(stack)
      /\ UNCHANGED <<idt, pic, obf, flag, regs, timer_count, direct, early>>
  BY <1>2 DEF Ret
<1>4. eip' \in {"main", "lost"} \/ (eip' \in {"wrapper", "c"} /\ n >= 4)
  BY <1>1, <1>2, <1>3 DEF Addresses
<1>5. eip' \in {"wrapper", "c"} => stack' # <<>>
  BY <1>2, <1>3, <1>4, EmptySeq
<1>6. Typed'
  <2>1. Height' = n - 1 /\ n - 1 <= MAX_STACK
    BY <1>1, <1>2, <1>3, <1>4, InterruptsAssumption DEF Height, Saved
  <2>2. stack' \in Seq(Words) /\ Addresses(stack') /\ eip' \in Stages \ {"timer", "timer_handler", "crash"}
    BY <1>2, <1>3, <1>4 DEF Stages
  <2> QED
    BY <1>3, <2>1, <2>2 DEF IrqInv, Typed
<1>7. SetUp'
  BY <1>1, <1>3, <1>4 DEF IrqInv, SetUp, BootStages
<1>8. Serving' /\ Disorder'
  BY <1>1, <1>3, <1>4, <1>5 DEF IrqInv, Serving, Disorder, DeviceStages, Saved, InService
<1> QED
  BY <1>6, <1>7, <1>8 DEF IrqInv

(* An exception or a system call in the program enters a C function. *)
LEMMA EnterKeeps ==
  ASSUME IrqInv, eip = "main", NEW v \in Exceptions \cup {SYSCALL_INT_NUM},
         NEW r \in {"main", "wrapper"},
         NEW s \in Seq(Words), Addresses(s), r # "main" => Len(s) >= 1,
         Len(s) + 3 + (IF v \in WithError THEN 1 ELSE 0) <= MAX_STACK,
         EnterGate(v, r, s), UNCHANGED <<idt, pic, obf, regs, timer_count, early>>
  PROVE  IrqInv'
<1> DEFINE e == IF v \in WithError THEN <<Word("error", "code")>> ELSE <<>>
<1>1. idt = Gates /\ pic.isr = {} /\ regs = "program"
  BY DEF IrqInv, SetUp, Serving, BootStages, InService
<1>2. idt[v].entry = "c" /\ idt[v].gate \in {"int", "trap"} /\ idt[v] # NoGate
  BY <1>1, GateFacts
<1>3. /\ eip' = "c" /\ stack' = s \o Frame(flag, r, e)
      /\ flag' = IF idt[v].gate = "int" THEN "off" ELSE flag
      /\ direct' = IF direct = "int" THEN direct ELSE idt[v].gate
  BY <1>2 DEF EnterGate, Frame
<1>4. e \in ErrorCodes /\ Len(e) = IF v \in WithError THEN 1 ELSE 0
  BY DEF ErrorCodes
<1>5. flag \in {"on", "off"} /\ direct \in {"no", "trap", "int"} /\ (direct = "int" => flag = "off")
  BY DEF IrqInv, Typed, Disorder
<1>6. /\ flag' \in {"on", "off"} /\ direct' \in {"trap", "int"}
      /\ direct' = "int" => flag' = "off"
  BY <1>2, <1>3, <1>5
<1> HIDE DEF e
<1>7. stack' \in Seq(Words) /\ Addresses(stack') /\ Len(stack') = Len(s) + 3 + Len(e)
  <2>1. r \in {"main", "wrapper", "c"}
    OBVIOUS
  <2>2. Pushed(s \o Frame(flag, r, e), s, flag, r, e)
    BY <1>4, <1>5, <2>1, FramePushed
  <2>3. Pushed(stack', s, flag, r, e)
    BY <1>3, <2>2
  <2> QED
    BY <2>3 DEF Pushed
<1>8. Len(stack') <= MAX_STACK /\ stack' # <<>>
  <2>1. Len(s) \in Nat
    BY LenProperties
  <2>2. Len(stack') <= MAX_STACK /\ Len(stack') # 0
    BY <1>4, <1>7, <2>1
  <2> QED
    BY <2>2, EmptySeq
<1>9. Typed'
  BY <1>3, <1>6, <1>7, <1>8 DEF IrqInv, Typed, Height, Saved, Stages
<1>10. SetUp'
  BY <1>3 DEF IrqInv, SetUp, BootStages
<1>11. Serving' /\ Disorder'
  BY <1>1, <1>3, <1>6, <1>8 DEF Serving, Disorder, DeviceStages, Saved, InService
<1> QED
  BY <1>9, <1>10, <1>11 DEF IrqInv

LEMMA FaultKeeps ==
  ASSUME IrqInv, NEW v \in Faults, Fault(v)
  PROVE  IrqInv'
<1>1. v \in Exceptions
  BY InterruptsAssumption
<1>2. stack \in Seq(Words) /\ Addresses(stack) /\ Len(stack) \in Nat
  BY LenProperties DEF IrqInv, Typed
<1>3. /\ eip = "main" /\ Len(stack) + 4 <= MAX_STACK /\ EnterGate(v, "main", stack)
      /\ UNCHANGED <<idt, pic, obf, regs, timer_count, early>>
  BY DEF Fault
<1>4. Len(stack) + 3 + (IF v \in WithError THEN 1 ELSE 0) <= MAX_STACK
  BY <1>2, <1>3, InterruptsAssumption
<1> QED
  BY <1>1, <1>2, <1>3, <1>4, EnterKeeps

LEMMA Int80Keeps ==
  ASSUME IrqInv, Int80
  PROVE  IrqInv'
<1> DEFINE s == Append(stack, Word("eip", "main"))
<1>1. stack \in Seq(Words) /\ Addresses(stack) /\ Len(stack) \in Nat /\ Word("eip", "main") \in Words
  BY LenProperties DEF IrqInv, Typed, Word, Words
<1>2. /\ s \in Seq(Words) /\ Len(s) = Len(stack) + 1 /\ s[Len(stack) + 1] = Word("eip", "main")
      /\ \A k \in 1 .. Len(stack) : s[k] = stack[k]
  BY <1>1, AppendProperties
<1>3. /\ eip = "main" /\ Len(stack) + 4 <= MAX_STACK
      /\ EnterGate(SYSCALL_INT_NUM, "wrapper", s)
      /\ UNCHANGED <<idt, pic, obf, regs, timer_count, early>>
  BY DEF Int80
<1> HIDE DEF s
<1>4. Addresses(s)
  <2> SUFFICES ASSUME NEW k \in 1 .. Len(stack) + 1, s[k].w = "eip"
               PROVE  s[k].v = "main" \/ (s[k].v \in {"wrapper", "c"} /\ k >= 4)
    BY <1>2 DEF Addresses
  <2>1. CASE k = Len(stack) + 1
    BY <1>2, <2>1 DEF Word
  <2>2. CASE k # Len(stack) + 1
    <3>1. k \in 1 .. Len(stack)
      BY <1>1, <2>2
    <3> QED
      BY <1>1, <1>2, <3>1 DEF Addresses
  <2> QED
    BY <2>1, <2>2
<1>5. SYSCALL_INT_NUM \notin WithError
  BY DEF SYSCALL_INT_NUM, WithError
<1>6. Len(s) >= 1 /\ Len(s) + 3 + (IF SYSCALL_INT_NUM \in WithError THEN 1 ELSE 0) <= MAX_STACK
  BY <1>1, <1>2, <1>3, <1>5, InterruptsAssumption
<1> QED
  BY <1>2, <1>3, <1>4, <1>6, EnterKeeps

LEMMA NextKeepsIrq == IrqInv /\ [IrqNext]_irqVars => IrqInv'
<1> SUFFICES ASSUME IrqInv, [IrqNext]_irqVars PROVE IrqInv'
  OBVIOUS
<1>1. CASE Idle \/ UNCHANGED irqVars
  <2>1. /\ UNCHANGED <<idt, pic, flag, stack, regs, timer_count, direct>>
        /\ eip' = eip \/ (eip = "main" /\ eip' = "halt")
    BY <1>1 DEF Idle, irqVars
  <2>2. Height' = Height
    BY <2>1 DEF Height, Saved
  <2>3. CASE eip' = eip
    BY <2>1, <2>2, <2>3 DEF IrqInv, Typed, SetUp, Serving, Disorder
  <2>4. CASE eip = "main" /\ eip' = "halt"
    BY <2>1, <2>2, <2>4 DEF IrqInv, Typed, SetUp, Serving, Disorder, Stages, BootStages,
                            DeviceStages, Saved, InService
  <2> QED
    BY <2>1, <2>3, <2>4
<1>2. CASE Handlers
  BY <1>2, SaveKeeps, HandleKeeps, RestoreKeeps, IretKeeps, RetKeeps DEF Handlers
<1> QED
  BY <1>1, <1>2, BootKeeps, DeliverKeeps, RequestKeeps, FaultKeeps, Int80Keeps DEF IrqNext

-----------------------------------------------------------------------------
(* The invariant holds in every state of every run, wherever interrupts,   *)
(* exceptions and system calls come.                                       *)
THEOREM InterruptsInvariant == IrqSpec => []IrqInv
BY InitIrqInv, NextKeepsIrq, PTL DEF IrqSpec

(* The order in which kmain makes table, controller and flag live leaves   *)
(* no vector without a gate, and the CPU never returns to a word that is   *)
(* not an address unless a C function was entered straight from a gate.    *)
THEOREM InterruptsTypeCorrect == IrqSpec => []IrqTypeOK
<1>1. IrqInv => IrqTypeOK
  <2> SUFFICES ASSUME IrqInv PROVE IrqTypeOK
    OBVIOUS
  <2>1. Len(stack) \in Nat /\ Height <= MAX_STACK
    BY LenProperties DEF IrqInv, Typed
  <2>2. Len(stack) <= MAX_STACK + 1
    BY <2>1, InterruptsAssumption DEF Height
  <2>3. pic.irr \subseteq IRQS /\ pic.isr \subseteq IRQS
    BY DEF IrqInv, Typed
  <2> QED
    BY <2>2, <2>3 DEF IrqInv, Typed, Disorder, IrqTypeOK
<1> QED
  BY <1>1, InterruptsInvariant, PTL

(* A device interrupt leaves no trace, handlers are never interrupted, the *)
(* timer never interrupts, and an exception by an interrupt gate leaves    *)
(* interrupts off for good.                                                *)
THEOREM InterruptsNoTrace == IrqSpec => []NoTrace
<1>1. IrqInv => NoTrace
  <2> SUFFICES ASSUME IrqInv PROVE NoTrace
    OBVIOUS
  <2>1. eip \in {"main", "halt"} /\ direct = "no" =>
          stack = <<>> /\ regs = "program" /\ flag = "on" /\ pic.isr = {}
    BY DEF IrqInv, Serving, Disorder, InService
  <2>2. HandlerAlone
    <3> SUFFICES ASSUME direct = "no" PROVE Frames <= 1
      BY DEF HandlerAlone
    <3> DEFINE F == {k \in 1 .. Len(stack) : stack[k].w = "eip"}
    <3>0. stack \in Seq(Words)
      BY DEF IrqInv, Typed
    <3>1. Len(stack) \in Nat
      BY <3>0, LenProperties
    <3>2. Len(stack) = 0 \/ (eip \in DeviceStages /\ Height = 3)
      BY <3>0, EmptySeq DEF IrqInv, Typed, SetUp, Serving, Disorder, Stages, BootStages, DeviceStages, Saved
    <3>3. eip \in Saved => stack[Len(stack)].w = "regs"
      BY DEF IrqInv, Serving, Word
    <3>4. F \subseteq {3}
      <4>1. CASE Len(stack) = 0
        BY <4>1
      <4>2. CASE eip \in DeviceStages /\ Height = 3
        <5>1. stack[Height - 1] = Word("cs", "code") /\ stack[Height - 2] = Word("eflags", "on")
          BY <4>2 DEF IrqInv, Serving
        <5>2. stack[1].w = "eflags" /\ stack[2].w = "cs"
          BY <4>2, <5>1 DEF Word
        <5>3. Len(stack) = 3 \/ (Len(stack) = 4 /\ eip \in Saved)
          <6> HIDE DEF F
          <6> QED
            BY <3>1, <4>2 DEF Height
        <5>4. \A k \in 1 .. Len(stack) : k = 1 \/ k = 2 \/ k = 3 \/ (k = 4 /\ stack[k].w = "regs")
          BY <3>3, <5>3
        <5> QED
          BY <5>2, <5>4
      <4> QED
        BY <3>2, <4>1, <4>2
    <3>5. F = {} \/ F = {3}
      BY <3>4
    <3>6. Cardinality(F) <= 1
      <4>1. Cardinality({}) = 0 /\ Cardinality({3}) = 1
        BY FS_EmptySet, FS_Singleton
      <4> HIDE DEF F
      <4> QED
        BY <3>5, <4>1
    <3> QED
      BY <3>6 DEF Frames
  <2> QED
    BY <2>1, <2>2 DEF IrqInv, Typed, Disorder, NoTrace
<1> QED
  BY <1>1, InterruptsInvariant, PTL

-----------------------------------------------------------------------------
(* The keyboard: the inductive invariant *)

N == INPUT_BUFFER_SIZE
Slots == 0 .. N - 1

(* The i-th slot from o on. *)
Slot(o, i) == (o + i - 1) % N

(* The characters in the ring and the slot of the oldest, which a call of  *)
(* keyboard_get_char that is not done may have taken off one of the two.   *)
Waiting == IF InGet /\ "store" \notin todo THEN buffer_count + 1 ELSE buffer_count
Oldest == IF InGet /\ "take" \notin todo THEN (buffer_head + N - 1) % N ELSE buffer_head

Fifo ==
  /\ Waiting \in 0 .. N
  /\ buffer_tail = (Oldest + Waiting) % N
  /\ unread = [i \in 1 .. Waiting |-> input_buffer[Slot(Oldest, i)]]
  /\ InGet /\ "store" \in todo => seen = buffer_count

(* The count that was loaded stays positive and is never above the count   *)
(* in the ring until it is stored, because the handler only adds; this is  *)
(* what keeps the count in range when a key comes in between.              *)
IInv ==
  /\ TypeOK
  /\ line \in Seq(Chars \cup {NUL}) /\ unread \in Seq(Chars \cup {NUL})
  /\ pc # "exec" => Len(line) < MAX_COMMAND_LENGTH - 1
  /\ InGet => todo # {}
  /\ InGet /\ "store" \in todo => 1 <= seen /\ seen <= buffer_count
  /\ ~raced => Fifo

-----------------------------------------------------------------------------
(* Indexes of the ring *)

(* An index of the ring advanced by at most its size. *)
LEMMA Wraps ==
  ASSUME NEW x \in 0 .. 2 * N - 1
  PROVE  x % N = IF x < N THEN x ELSE x - N
<1>1. N \in Nat /\ N > 0
  BY KeyboardAssumption DEF N
<1>2. CASE x < N
  BY <1>1, <1>2
<1>3. CASE ~(x < N)
  BY <1>1, <1>3
<1> QED
  BY <1>2, <1>3

(* The slot after o is the first of those the next character starts from. *)
LEMMA SlotAfter ==
  ASSUME NEW o \in Slots
  PROVE  /\ (o + 1) % N \in Slots
         /\ \A i \in 1 .. N - 1 : Slot((o + 1) % N, i) = Slot(o, i + 1)
         /\ \A w \in 1 .. N : (o + w) % N = (((o + 1) % N) + (w - 1)) % N
         /\ (((o + 1) % N) + N - 1) % N = o
<1> USE KeyboardAssumption DEF N, Slots
<1>1. (o + 1) % N = IF o + 1 < N THEN o + 1 ELSE 0
  BY Wraps
<1>2. \A i \in 1 .. N - 1 : Slot((o + 1) % N, i) = Slot(o, i + 1)
  <2> SUFFICES ASSUME NEW i \in 1 .. N - 1
               PROVE  (((o + 1) % N) + i - 1) % N = (o + (i + 1) - 1) % N
    BY DEF Slot
  <2>1. (o + i) % N = IF o + i < N THEN o + i ELSE o + i - N
    BY Wraps
  <2>2. (o + i) % N = (o + (i + 1) - 1) % N
    OBVIOUS
  <2>3. CASE o + 1 < N
    BY <1>1, <2>2, <2>3
  <2>4. CASE ~(o + 1 < N)
    <3>1. o = N - 1 /\ (o + 1) % N = 0
      BY <1>1, <2>4
    <3>2. (o + i) % N = i - 1
      BY <2>1, <3>1
    <3>3. (i - 1) % N = i - 1
      BY Wraps
    <3> QED
      BY <2>2, <3>1, <3>2, <3>3
  <2> QED
    BY <2>3, <2>4
<1>3. \A w \in 1 .. N : (o + w) % N = (((o + 1) % N) + (w - 1)) % N
  <2> SUFFICES ASSUME NEW w \in 1 .. N
               PROVE  (o + w) % N = (((o + 1) % N) + (w - 1)) % N
    OBVIOUS
  <2>1. (o + w) % N = IF o + w < N THEN o + w ELSE o + w - N
    BY Wraps
  <2>2. CASE o + 1 < N
    <3>1. ((o + 1) % N) + (w - 1) = o + w
      BY <1>1, <2>2
    <3> QED
      BY <3>1
  <2>3. CASE ~(o + 1 < N)
    <3>1. o = N - 1 /\ (o + 1) % N = 0
      BY <1>1, <2>3
    <3>2. (w - 1) % N = w - 1
      BY Wraps
    <3> QED
      BY <2>1, <3>1, <3>2
  <2> QED
    BY <2>2, <2>3
<1>4. (((o + 1) % N) + N - 1) % N = o
  <2>1. CASE o + 1 < N
    <3>1. ((o + 1) % N) + N - 1 = o + N
      BY <1>1, <2>1
    <3>2. (o + N) % N = o
      BY Wraps
    <3> QED
      BY <3>1, <3>2
  <2>2. CASE ~(o + 1 < N)
    <3>1. ((o + 1) % N) + N - 1 = N - 1 /\ o = N - 1
      BY <1>1, <2>2
    <3>2. (N - 1) % N = N - 1
      BY Wraps
    <3> QED
      BY <3>1, <3>2
  <2> QED
    BY <2>1, <2>2
<1> QED
  BY <1>1, <1>2, <1>3, <1>4

(* The slot before h. *)
LEMMA SlotBefore ==
  ASSUME NEW h \in Slots
  PROVE  (h + N - 1) % N \in Slots /\ (((h + N - 1) % N) + 1) % N = h
<1> USE KeyboardAssumption DEF N, Slots
<1> DEFINE o == (h + N - 1) % N
<1>1. o = IF h = 0 THEN N - 1 ELSE h - 1
  <2>1. (h + N - 1) % N = IF h + N - 1 < N THEN h + N - 1 ELSE h + N - 1 - N
    BY Wraps
  <2> QED
    BY <2>1
<1> HIDE DEF o
<1>2. (o + 1) % N = IF o + 1 < N THEN o + 1 ELSE o + 1 - N
  BY <1>1, Wraps
<1>3. o \in Slots /\ (o + 1) % N = h
  BY <1>1, <1>2
<1> QED
  BY <1>3 DEF o

(* The slot behind w taken ones is the next, and is none of them. *)
LEMMA SlotBehind ==
  ASSUME NEW o \in Slots, NEW w \in 0 .. N - 1
  PROVE  /\ Slot(o, w + 1) = (o + w) % N
         /\ (o + w) % N \in Slots
         /\ \A i \in 1 .. w : Slot(o, i) \in Slots /\ Slot(o, i) # (o + w) % N
         /\ (((o + w) % N) + 1) % N = (o + (w + 1)) % N
<1> USE KeyboardAssumption DEF N, Slots
<1>1. (o + w) % N = IF o + w < N THEN o + w ELSE o + w - N
  BY Wraps
<1>2. Slot(o, w + 1) = (o + w) % N
  <2>1. o + (w + 1) - 1 = o + w
    OBVIOUS
  <2> QED
    BY <2>1 DEF Slot
<1>3. ASSUME NEW i \in 1 .. w PROVE Slot(o, i) \in Slots /\ Slot(o, i) # (o + w) % N
  <2>1. (o + i - 1) % N = IF o + i - 1 < N THEN o + i - 1 ELSE o + i - 1 - N
    BY Wraps
  <2> QED
    BY <1>1, <2>1 DEF Slot
<1>4. (((o + w) % N) + 1) % N = (o + (w + 1)) % N
  <2>1. (o + (w + 1)) % N = IF o + w + 1 < N THEN o + w + 1 ELSE o + w + 1 - N
    BY Wraps
  <2>2. CASE o + w < N
    <3>1. ((o + w) % N) + 1 = o + (w + 1)
      BY <1>1, <2>2
    <3> QED
      BY <3>1
  <2>3. CASE ~(o + w < N)
    <3>1. ((o + w) % N) + 1 = o + w - N + 1 /\ o + w - N + 1 \in 0 .. N - 1
      BY <1>1, <2>3
    <3>2. (o + w - N + 1) % N = o + w - N + 1
      BY <3>1, Wraps
    <3> QED
      BY <2>1, <2>3, <3>1, <3>2
  <2> QED
    BY <2>2, <2>3
<1> QED
  BY <1>1, <1>2, <1>3, <1>4

LEMMA CharsTyped ==
  ASSUME NEW key PROVE scancode_to_char(key) \in Chars \cup {NUL}
<1> DEFINE map == IF keyboard_state.shift THEN shift_map ELSE scancode_map
           c == IF key \in Specials \/ key \notin DOMAIN map THEN NUL ELSE map[key]
<1>1. /\ DOMAIN scancode_map = {"a", "b", "1"}
      /\ \A k \in {"a", "b", "1"} : scancode_map[k] \in Chars
  BY DEF scancode_map, Chars
<1>2. /\ DOMAIN shift_map = {"a", "b", "1"}
      /\ \A k \in {"a", "b", "1"} : shift_map[k] \in Chars
  BY DEF shift_map, Chars
<1>3. c \in Chars \cup {NUL}
  BY <1>1, <1>2
<1>4. \A k \in DOMAIN upper : upper[k] \in Chars
  BY DEF upper, Chars
<1>5. \A k \in DOMAIN lower : lower[k] \in Chars
  BY DEF lower, Chars
<1> QED
  BY <1>3, <1>4, <1>5 DEF scancode_to_char

-----------------------------------------------------------------------------
(* The interrupt side *)

(* The first slots of the ring read as a sequence. *)
Contents(buffer, o, w) == [i \in 1 .. w |-> buffer[Slot(o, i)]]

(* Put adds one character behind the others, in the ring and in unread     *)
(* alike, or leaves both; the count stays in range either way.             *)
LEMMA PutKeeps ==
  ASSUME IInv, NEW c \in Chars \cup {NUL}, Put(c)
  PROVE  /\ input_buffer' \in [Slots -> Chars \cup {NUL}]
         /\ buffer_head' = buffer_head
         /\ buffer_tail' \in Slots
         /\ buffer_count' \in 0 .. N /\ buffer_count <= buffer_count'
         /\ unread' \in Seq(Chars \cup {NUL})
         /\ ~InGet /\ ~raced =>
              /\ buffer_tail' = (buffer_head + buffer_count') % N
              /\ unread' = Contents(input_buffer', buffer_head, buffer_count')
<1> USE KeyboardAssumption DEF N, Slots
<1>1. /\ input_buffer \in [Slots -> Chars \cup {NUL}]
      /\ buffer_head \in Slots /\ buffer_tail \in Slots /\ buffer_count \in 0 .. N
  BY DEF IInv, TypeOK
<1>2. (buffer_tail + 1) % N \in Slots
  BY <1>1, SlotAfter
<1>3. buffer_head' = buffer_head
  BY DEF Put
<1>4. /\ input_buffer' \in [Slots -> Chars \cup {NUL}]
      /\ buffer_tail' \in Slots
      /\ buffer_count' \in 0 .. N /\ buffer_count <= buffer_count'
  <2>1. CASE buffer_count < N
    BY <1>1, <1>2, <2>1 DEF Put
  <2>2. CASE ~(buffer_count < N)
    BY <1>1, <2>2 DEF Put
  <2> QED
    BY <2>1, <2>2
<1>5. ASSUME ~InGet, ~raced
      PROVE  /\ buffer_tail' = (buffer_head + buffer_count') % N
             /\ unread' = Contents(input_buffer', buffer_head, buffer_count')
  <2>1. /\ buffer_tail = (buffer_head + buffer_count) % N
        /\ unread = Contents(input_buffer, buffer_head, buffer_count)
    BY <1>5 DEF IInv, Fifo, Waiting, Oldest, Contents
  <2>2. Len(unread) = buffer_count
    BY <1>1, <2>1 DEF Contents
  <2>3. CASE buffer_count < N
    <3>1. /\ input_buffer' = [input_buffer EXCEPT ![buffer_tail] = c]
          /\ buffer_tail' = (buffer_tail + 1) % N
          /\ buffer_count' = buffer_count + 1
          /\ unread' = Append(unread, c)
      BY <2>2, <2>3 DEF Put
    <3>2. /\ Slot(buffer_head, buffer_count + 1) = buffer_tail
          /\ \A i \in 1 .. buffer_count :
               Slot(buffer_head, i) \in Slots /\ Slot(buffer_head, i) # buffer_tail
          /\ (buffer_tail + 1) % N = (buffer_head + (buffer_count + 1)) % N
      <4>1. buffer_count \in 0 .. N - 1
        BY <1>1, <2>3
      <4> HIDE DEF N, Slots
      <4> QED
        BY <1>1, <2>1, <4>1, SlotBehind
    <3>3. Append(unread, c) = [i \in 1 .. buffer_count + 1 |->
                                IF i = buffer_count + 1 THEN c ELSE unread[i]]
      <4>1. unread \in Seq(Chars \cup {NUL})
        BY DEF IInv
      <4>2. /\ Append(unread, c) \in Seq(Chars \cup {NUL})
            /\ Len(Append(unread, c)) = buffer_count + 1
            /\ \A i \in 1 .. buffer_count : Append(unread, c)[i] = unread[i]
            /\ Append(unread, c)[buffer_count + 1] = c
        BY <2>2, <4>1, AppendProperties
      <4>3. \A i \in 1 .. buffer_count + 1 :
              Append(unread, c)[i] = IF i = buffer_count + 1 THEN c ELSE unread[i]
        BY <1>1, <4>2
      <4>4. Append(unread, c) = [i \in 1 .. buffer_count + 1 |-> Append(unread, c)[i]]
        BY <4>2, LenProperties
      <4> QED
        BY <4>3, <4>4
    <3>4. \A i \in 1 .. buffer_count : input_buffer'[Slot(buffer_head, i)] = unread[i]
      BY <1>1, <2>1, <3>1, <3>2 DEF Contents
    <3>5. input_buffer'[Slot(buffer_head, buffer_count + 1)] = c
      BY <1>1, <3>1, <3>2
    <3>6. unread' = Contents(input_buffer', buffer_head, buffer_count + 1)
      BY <1>1, <3>1, <3>3, <3>4, <3>5 DEF Contents
    <3> QED
      BY <3>1, <3>2, <3>6
  <2>4. CASE ~(buffer_count < N)
    BY <1>1, <2>1, <2>2, <2>4 DEF Put
  <2> QED
    BY <2>3, <2>4
<1>6. unread' \in Seq(Chars \cup {NUL})
  BY DEF Put, IInv
<1> QED
  BY <1>3, <1>4, <1>5, <1>6

LEMMA InterruptKeeps ==
  ASSUME IInv, NEW key \in Keys, NEW released \in BOOLEAN, keyboard_interrupt(key, released)
  PROVE  IInv'
<1> DEFINE Flags == [shift : BOOLEAN, ctrl : BOOLEAN, alt : BOOLEAN, caps : BOOLEAN]
<1>1. /\ keyboard_state' \in Flags
      /\ \/ UNCHANGED <<ring, unread>>
         \/ \E c \in Chars \cup {NUL} : Put(c)
  <2>0. keyboard_state \in Flags
    BY DEF IInv, TypeOK
  <2>1. CASE key \in Shifts \cup {"ctrl", "alt", "caps"}
    <3>1. Modifier(key, released) /\ UNCHANGED <<ring, unread>>
      BY <2>1 DEF keyboard_interrupt, process_scancode
    <3> QED
      BY <2>0, <2>1, <3>1 DEF Modifier
  <2>2. CASE key \notin Shifts \cup {"ctrl", "alt", "caps"}
    <3> DEFINE c == CASE key = "enter" -> "nl"
                      [] key = "backspace" -> "bs"
                      [] OTHER -> scancode_to_char(key)
    <3>1. keyboard_state' = keyboard_state
          /\ (UNCHANGED <<ring, unread>> \/ Put(c))
      BY <2>2 DEF keyboard_interrupt, process_scancode
    <3>2. c \in Chars \cup {NUL}
      BY CharsTyped DEF Chars
    <3> HIDE DEF c
    <3> QED
      BY <2>0, <3>1, <3>2
  <2> QED
    BY <2>1, <2>2
<1>2. /\ held' \subseteq Keys
      /\ pc' = IF pc = "asleep" THEN "check" ELSE pc
      /\ raced' = (raced \/ InGet)
      /\ UNCHANGED <<seen, todo, ch, line>>
  BY DEF keyboard_interrupt, IInv, TypeOK
<1>3. /\ input_buffer' \in [Slots -> Chars \cup {NUL}]
      /\ buffer_head' = buffer_head
      /\ buffer_tail' \in Slots
      /\ buffer_count' \in 0 .. N /\ buffer_count <= buffer_count'
      /\ unread' \in Seq(Chars \cup {NUL})
      /\ ~InGet /\ ~raced =>
           /\ buffer_tail' = (buffer_head + buffer_count') % N
           /\ unread' = Contents(input_buffer', buffer_head, buffer_count')
  <2>1. CASE UNCHANGED <<ring, unread>>
    <3>1. UNCHANGED <<input_buffer, buffer_head, buffer_tail, buffer_count, unread>>
      BY <2>1 DEF ring
    <3>2. /\ input_buffer \in [Slots -> Chars \cup {NUL}]
          /\ buffer_tail \in Slots
          /\ buffer_count \in 0 .. N /\ buffer_count <= buffer_count
          /\ unread \in Seq(Chars \cup {NUL})
      BY KeyboardAssumption DEF IInv, TypeOK, N, Slots
    <3>3. ~InGet /\ ~raced =>
            /\ buffer_tail = (buffer_head + buffer_count) % N
            /\ unread = Contents(input_buffer, buffer_head, buffer_count)
      BY DEF IInv, Fifo, Waiting, Oldest, Contents
    <3> QED
      BY <3>1, <3>2, <3>3 DEF Contents
  <2>2. CASE \E c \in Chars \cup {NUL} : Put(c)
    BY <2>2, PutKeeps
  <2> QED
    BY <1>1, <2>1, <2>2
<1>4. TypeOK'
  BY <1>1, <1>2, <1>3 DEF IInv, TypeOK, N, Slots
<1>5. InGet' <=> InGet
  BY <1>2 DEF InGet
<1>6. InGet' /\ "store" \in todo' => 1 <= seen' /\ seen' <= buffer_count'
  BY <1>2, <1>3, <1>5, KeyboardAssumption DEF IInv, TypeOK, N
<1>7. ~raced' => Fifo'
  BY <1>2, <1>3, <1>5 DEF Fifo, Waiting, Oldest, Contents
<1> QED
  BY <1>2, <1>3, <1>4, <1>5, <1>6, <1>7 DEF IInv

-----------------------------------------------------------------------------
(* The reader *)

(* Where the ring is as it was and no call of keyboard_get_char is going   *)
(* on before or after, the queue is as it was.                             *)
LEMMA OutsideGet ==
  ASSUME ~raced => Fifo, ~InGet, ~InGet', UNCHANGED <<ring, unread, raced>>
  PROVE  ~raced' => Fifo'
BY DEF Fifo, Waiting, Oldest, ring

LEMMA CheckInputKeeps ==
  ASSUME IInv, CheckInput \/ Hlt
  PROVE  IInv'
<1>1. /\ pc \in {"check", "halt"} /\ pc' \in {"load", "halt", "asleep"}
      /\ UNCHANGED <<ring, keyboard_state, held, seen, todo, ch, line, unread, raced>>
  BY DEF CheckInput, Hlt
<1>2. ~InGet /\ ~InGet'
  BY <1>1 DEF InGet
<1>3. TypeOK'
  BY <1>1 DEF IInv, TypeOK, ring
<1>4. ~raced' => Fifo'
  BY <1>1, <1>2, OutsideGet DEF IInv
<1> QED
  BY <1>1, <1>2, <1>3, <1>4 DEF IInv

LEMMA LoadCountKeeps ==
  ASSUME IInv, LoadCount
  PROVE  IInv'
<1>1. /\ pc = "load" /\ seen' = buffer_count
      /\ UNCHANGED <<ring, keyboard_state, held, line, unread, raced>>
  BY DEF LoadCount
<1>2. CASE buffer_count = 0
  <2>1. pc' = "got" /\ ch' = NUL /\ todo' = todo
    BY <1>2 DEF LoadCount
  <2>2. ~InGet /\ ~InGet'
    BY <1>1, <2>1 DEF InGet
  <2>3. TypeOK'
    BY <1>1, <2>1 DEF IInv, TypeOK, ring
  <2>4. ~raced' => Fifo'
    BY <1>1, <2>2, OutsideGet DEF IInv
  <2> QED
    BY <1>1, <2>1, <2>2, <2>3, <2>4 DEF IInv
<1>3. CASE buffer_count # 0
  <2>1. pc' = "get" /\ ch' = ch /\ todo' = {"store", "take"}
    BY <1>3 DEF LoadCount
  <2>2. ~InGet /\ InGet'
    BY <1>1, <2>1 DEF InGet
  <2>3. TypeOK'
    BY <1>1, <2>1 DEF IInv, TypeOK, ring
  <2>4. 1 <= seen' /\ seen' <= buffer_count'
    BY <1>1, <1>3, KeyboardAssumption DEF IInv, TypeOK, ring
  <2>5. ~raced' => Fifo'
    BY <1>1, <2>1, <2>2 DEF IInv, Fifo, Waiting, Oldest, ring
  <2> QED
    BY <1>1, <2>1, <2>2, <2>3, <2>4, <2>5 DEF IInv
<1> QED
  BY <1>2, <1>3

(* What taking the oldest of w characters off the queue leaves. *)
LEMMA TailOfContents ==
  ASSUME IInv, NEW o \in Slots, NEW w \in 1 .. N,
         unread = Contents(input_buffer, o, w)
  PROVE  /\ unread # <<>>
         /\ Tail(unread) = Contents(input_buffer, (o + 1) % N, w - 1)
<1> USE KeyboardAssumption DEF N
<1>1. unread \in Seq(Chars \cup {NUL}) /\ Len(unread) = w
  BY DEF IInv, Contents
<1>2. \A i \in 1 .. w : unread[i] = input_buffer[Slot(o, i)]
  BY DEF Contents
<1>3. \A i \in 1 .. w - 1 : Slot((o + 1) % N, i) = Slot(o, i + 1)
  BY SlotAfter
<1>4. Tail(unread) = [i \in 1 .. w - 1 |-> unread[i + 1]]
  <2>1. unread # <<>>
    BY <1>1
  <2>2. /\ Tail(unread) \in Seq(Chars \cup {NUL})
        /\ Len(Tail(unread)) = w - 1
        /\ \A i \in 1 .. w - 1 : Tail(unread)[i] = unread[i + 1]
    BY <1>1, <2>1, HeadTailProperties
  <2>3. Tail(unread) = [i \in 1 .. w - 1 |-> Tail(unread)[i]]
    BY <2>2, LenProperties
  <2> QED
    BY <2>2, <2>3
<1>5. \A i \in 1 .. w - 1 : unread[i + 1] = input_buffer[Slot((o + 1) % N, i)]
  BY <1>2, <1>3
<1> QED
  BY <1>1, <1>4, <1>5 DEF Contents

LEMMA StoreKeeps ==
  ASSUME IInv, Store
  PROVE  IInv'
<1>1. /\ InGet /\ "store" \in todo /\ todo \subseteq {"store", "take"}
      /\ buffer_count' \in {seen - 1, buffer_count - 1}
      /\ todo' = todo \ {"store"}
      /\ pc' = IF todo = {"store"} THEN "got" ELSE "get"
      /\ unread' = IF todo = {"store"} /\ unread # <<>> THEN Tail(unread) ELSE unread
      /\ UNCHANGED <<input_buffer, buffer_head, buffer_tail, keyboard_state, held, seen, ch,
                     line, raced>>
  BY DEF Store, Finish, InGet, IInv, TypeOK
<1>2. /\ 1 <= seen /\ seen <= buffer_count /\ buffer_count \in 0 .. N /\ N \in Nat
      /\ seen \in 0 .. N /\ buffer_head \in Slots
  BY <1>1, KeyboardAssumption DEF IInv, TypeOK, N, Slots
<1>3. buffer_count' \in 0 .. N
  BY <1>1, <1>2
<1>4. TypeOK'
  BY <1>1, <1>3 DEF IInv, TypeOK, N
<1>5. unread' \in Seq(Chars \cup {NUL})
  BY <1>1 DEF IInv
<1>6. ASSUME ~raced PROVE Fifo'
  <2>1. /\ Waiting = buffer_count /\ buffer_count' = buffer_count - 1
        /\ buffer_tail = (Oldest + Waiting) % N
        /\ unread = Contents(input_buffer, Oldest, Waiting)
    BY <1>1, <1>6 DEF IInv, Fifo, Waiting, Contents
  <2>2. CASE todo = {"store"}
    <3>1. ~InGet' /\ Oldest = (buffer_head + N - 1) % N
      BY <1>1, <2>2 DEF InGet, Oldest
    <3>2. Oldest \in Slots /\ (Oldest + 1) % N = buffer_head
      BY <1>2, <3>1, SlotBefore
    <3>3. buffer_count \in 1 .. N
      BY <1>2
    <3>4. unread' = Contents(input_buffer, buffer_head, buffer_count - 1)
      BY <1>1, <2>1, <2>2, <3>2, <3>3, TailOfContents
    <3>5. buffer_tail = (buffer_head + (buffer_count - 1)) % N
      BY <2>1, <3>2, <3>3, SlotAfter
    <3> QED
      BY <1>1, <1>3, <2>1, <3>1, <3>4, <3>5 DEF Fifo, Waiting, Oldest, Contents
  <2>3. CASE todo # {"store"}
    <3>1. InGet' /\ "take" \in todo /\ "take" \in todo' /\ "store" \notin todo'
      BY <1>1, <2>3 DEF InGet
    <3>2. Oldest = buffer_head /\ Oldest' = buffer_head /\ Waiting' = buffer_count
      BY <1>1, <1>2, <2>1, <3>1 DEF Oldest, Waiting
    <3>3. unread' = unread
      BY <1>1, <2>3
    <3> QED
      BY <1>1, <1>2, <2>1, <3>1, <3>2, <3>3 DEF Fifo, Contents
  <2> QED
    BY <2>2, <2>3
<1>7. (InGet' => todo' # {}) /\ pc' # "exec" /\ "store" \notin todo'
  BY <1>1 DEF InGet
<1>8. pc # "exec"
  BY <1>1 DEF InGet
<1> QED
  BY <1>1, <1>4, <1>5, <1>6, <1>7, <1>8 DEF IInv

LEMMA TakeKeeps ==
  ASSUME IInv, Take
  PROVE  IInv'
<1>1. /\ InGet /\ "take" \in todo /\ todo \subseteq {"store", "take"}
      /\ ch' = input_buffer[buffer_head]
      /\ buffer_head' = (buffer_head + 1) % N
      /\ todo' = todo \ {"take"}
      /\ pc' = IF todo = {"take"} THEN "got" ELSE "get"
      /\ unread' = IF todo = {"take"} /\ unread # <<>> THEN Tail(unread) ELSE unread
      /\ UNCHANGED <<input_buffer, buffer_tail, buffer_count, keyboard_state, held, seen,
                     line, raced>>
  BY DEF Take, Finish, InGet, IInv, TypeOK, N
<1>2. buffer_count \in 0 .. N /\ N \in Nat /\ buffer_head \in Slots
  BY <1>1, KeyboardAssumption DEF IInv, TypeOK, N, Slots
<1>3. buffer_head' \in Slots /\ (buffer_head' + N - 1) % N = buffer_head
  BY <1>1, <1>2, SlotAfter
<1>4. TypeOK'
  BY <1>1, <1>2, <1>3 DEF IInv, TypeOK, N, Slots
<1>5. unread' \in Seq(Chars \cup {NUL})
  BY <1>1 DEF IInv
<1>6. ASSUME ~raced PROVE Fifo'
  <2>1. /\ Oldest = buffer_head /\ Waiting \in 0 .. N
        /\ buffer_tail = (buffer_head + Waiting) % N
        /\ unread = Contents(input_buffer, buffer_head, Waiting)
        /\ "store" \in todo => seen = buffer_count
    BY <1>1, <1>6 DEF IInv, Fifo, Oldest, Contents
  <2>2. CASE todo = {"take"}
    <3>1. ~InGet' /\ Waiting = buffer_count + 1
      BY <1>1, <2>2 DEF InGet, Waiting
    <3>2. Waiting \in 1 .. N /\ buffer_count = Waiting - 1
      BY <1>2, <2>1, <3>1
    <3>3. unread' = Contents(input_buffer, buffer_head', Waiting - 1)
      BY <1>1, <1>2, <2>1, <2>2, <3>2, TailOfContents
    <3>4. buffer_tail = (buffer_head' + (Waiting - 1)) % N
      BY <1>1, <1>2, <2>1, <3>2, SlotAfter
    <3> QED
      BY <1>1, <1>2, <3>1, <3>2, <3>3, <3>4 DEF Fifo, Waiting, Oldest, Contents
  <2>3. CASE todo # {"take"}
    <3>1. InGet' /\ "store" \in todo /\ "store" \in todo' /\ "take" \notin todo'
      BY <1>1, <2>3 DEF InGet
    <3>2. Oldest' = buffer_head /\ Waiting' = Waiting
      BY <1>1, <1>3, <3>1 DEF Oldest, Waiting
    <3>3. unread' = unread
      BY <1>1, <2>3
    <3> QED
      BY <1>1, <2>1, <3>1, <3>2, <3>3 DEF Fifo, Contents
  <2> QED
    BY <2>2, <2>3
<1>7. (InGet' => todo' # {}) /\ pc' # "exec"
  BY <1>1 DEF InGet
<1>8. pc # "exec"
  BY <1>1 DEF InGet
<1>9. InGet' /\ "store" \in todo' => 1 <= seen' /\ seen' <= buffer_count'
  BY <1>1 DEF IInv
<1> QED
  BY <1>1, <1>4, <1>5, <1>6, <1>7, <1>8, <1>9 DEF IInv

(* A character is added only while the line has room for it and the NUL.   *)
LEMMA HandleCharKeeps ==
  ASSUME IInv, HandleChar
  PROVE  IInv'
<1> DEFINE Char == Chars \cup {NUL}
<1>1. /\ pc = "got" /\ pc' \in {"exec", "check"} /\ ch' = NUL /\ seen' = 0
      /\ pc' # "exec" => Len(line') # MAX_COMMAND_LENGTH - 1
      /\ UNCHANGED <<ring, keyboard_state, held, todo, unread, raced>>
  BY DEF HandleChar
<1>2. line \in Seq(Char) /\ ch \in Char /\ Len(line) < MAX_COMMAND_LENGTH - 1
  BY <1>1 DEF IInv, TypeOK
<1>3. line' \in Seq(Char) /\ Len(line') \in Nat /\ Len(line') <= MAX_COMMAND_LENGTH - 1
  <2>1. CASE ch = "bs"
    <3>1. line' = SubSeq(line, 1, Len(line) - 1)
      BY <2>1 DEF HandleChar, NUL
    <3>2. \A i \in 1 .. Len(line) - 1 : line[i] \in Char
      BY <1>2, ElementOfSeq
    <3>3. Len(line) - 1 \in Int
      BY <1>2, LenProperties
    <3>4. /\ line' \in Seq(Char)
          /\ Len(line') = IF 1 <= Len(line) - 1 THEN Len(line) - 1 - 1 + 1 ELSE 0
      BY <3>1, <3>2, <3>3, SubSeqProperties
    <3> QED
      BY <1>2, <3>3, <3>4, LenProperties, KeyboardAssumption
  <2>2. CASE ch \in {NUL, "nl"}
    <3>1. line' = line
      BY <2>2 DEF HandleChar, NUL
    <3> QED
      BY <1>2, <3>1, LenProperties, KeyboardAssumption
  <2>3. CASE ch # "bs" /\ ch \notin {NUL, "nl"}
    <3>1. line' = Append(line, ch)
      BY <2>3 DEF HandleChar
    <3>2. line' \in Seq(Char) /\ Len(line') = Len(line) + 1 /\ Len(line) \in Nat
      BY <1>2, <3>1, AppendProperties, LenProperties
    <3> QED
      BY <1>2, <3>2, KeyboardAssumption
  <2> QED
    BY <2>1, <2>2, <2>3
<1>4. ~InGet /\ ~InGet'
  BY <1>1 DEF InGet
<1>5. TypeOK'
  BY <1>1, <1>3, KeyboardAssumption DEF IInv, TypeOK, ring
<1>6. ~raced' => Fifo'
  BY <1>1, <1>4, OutsideGet DEF IInv
<1>7. pc' # "exec" => Len(line') < MAX_COMMAND_LENGTH - 1
  BY <1>1, <1>3, KeyboardAssumption
<1> QED
  BY <1>1, <1>3, <1>4, <1>5, <1>6, <1>7 DEF IInv

LEMMA ExecuteKeeps ==
  ASSUME IInv, Execute
  PROVE  IInv'
<1>1. /\ pc = "exec" /\ pc' = "check" /\ line' = <<>>
      /\ UNCHANGED <<ring, keyboard_state, held, seen, todo, ch, unread, raced>>
  BY DEF Execute
<1>2. ~InGet /\ ~InGet'
  BY <1>1 DEF InGet
<1>3. line' \in Seq(Chars \cup {NUL}) /\ Len(line') = 0
  BY <1>1, EmptySeq
<1>4. TypeOK'
  BY <1>1, <1>3, KeyboardAssumption DEF IInv, TypeOK, ring
<1>5. ~raced' => Fifo'
  BY <1>1, <1>2, OutsideGet DEF IInv
<1> QED
  BY <1>1, <1>2, <1>3, <1>4, <1>5, KeyboardAssumption DEF IInv

-----------------------------------------------------------------------------
(* The theorems *)

LEMMA InitIInv == Init => IInv
<1> SUFFICES ASSUME Init PROVE IInv
  OBVIOUS
<1>1. N \in Nat /\ N > 0 /\ 0 % N = 0
  <2>1. N \in Nat /\ N > 0
    BY KeyboardAssumption DEF N
  <2> QED
    BY <2>1, Wraps
<1>2. ~InGet /\ pc # "exec"
  BY DEF Init, InGet
<1>3. line \in Seq(Chars \cup {NUL}) /\ unread \in Seq(Chars \cup {NUL}) /\ Len(line) = 0
  BY EmptySeq DEF Init
<1>4. TypeOK
  BY <1>3, KeyboardAssumption DEF Init, TypeOK
<1>5. Fifo
  BY <1>1, <1>2 DEF Init, Fifo, Waiting, Oldest
<1> QED
  BY <1>2, <1>3, <1>4, <1>5, KeyboardAssumption DEF IInv

LEMMA NextKeeps == IInv /\ [Next]_vars => IInv'
<1> SUFFICES ASSUME IInv, [Next]_vars PROVE IInv'
  OBVIOUS
<1>1. CASE Interrupt
  BY <1>1, InterruptKeeps DEF Interrupt
<1>2. CASE CheckInput \/ Hlt
  BY <1>2, CheckInputKeeps
<1>3. CASE LoadCount
  BY <1>3, LoadCountKeeps
<1>4. CASE Store
  BY <1>4, StoreKeeps
<1>5. CASE Take
  BY <1>5, TakeKeeps
<1>6. CASE HandleChar
  BY <1>6, HandleCharKeeps
<1>7. CASE Execute
  BY <1>7, ExecuteKeeps
<1>8. CASE UNCHANGED vars
  BY <1>8 DEF vars, ring, reader, IInv, TypeOK, InGet, Fifo, Waiting, Oldest
<1> QED
  BY <1>1, <1>2, <1>3, <1>4, <1>5, <1>6, <1>7, <1>8 DEF Next, Reader

(* The invariant holds in every state of every run, whenever keys arrive.  *)
THEOREM KeyboardInvariant == Spec => []IInv
BY InitIInv, NextKeeps, PTL DEF Spec

(* Head, tail and count stay in range, whatever races keyboard_get_char,   *)
(* and the line never outgrows the shell's buffer.                         *)
THEOREM KeyboardTypeCorrect == Spec => []TypeOK
<1>1. IInv => TypeOK
  BY DEF IInv
<1> QED
  BY <1>1, KeyboardInvariant, PTL

(* Until a key arrives inside keyboard_get_char the ring is a FIFO that    *)
(* loses a character only when it is full.                                 *)
THEOREM KeyboardRingIsFifo == Spec => []RingIsFifo
<1>1. IInv => RingIsFifo
  BY DEF IInv, RingIsFifo, Fifo, Waiting, Oldest, Slot, N
<1> QED
  BY <1>1, KeyboardInvariant, PTL

(* The shift flag is on only while a shift key is down. *)
THEOREM KeyboardNoStuckShift == Spec => []NoStuckShift
<1>1. Init => NoStuckShift
  BY DEF Init, NoStuckShift
<1>2. IInv /\ NoStuckShift /\ [Next]_vars => NoStuckShift'
  <2> SUFFICES ASSUME IInv, NoStuckShift, [Next]_vars PROVE NoStuckShift'
    OBVIOUS
  <2>1. ASSUME NEW key \in Keys, NEW released \in BOOLEAN, keyboard_interrupt(key, released)
        PROVE  NoStuckShift'
    <3>0. keyboard_state \in [shift : BOOLEAN, ctrl : BOOLEAN, alt : BOOLEAN, caps : BOOLEAN]
      BY DEF IInv, TypeOK
    <3>1. held' = IF released THEN held \ {key} ELSE held \cup {key}
      BY <2>1 DEF keyboard_interrupt
    <3>2. CASE key \in Shifts
      <4>1. keyboard_state'.shift = ~released
        <5>1. Modifier(key, released)
          BY <2>1, <3>2 DEF keyboard_interrupt, process_scancode
        <5>2. keyboard_state' = [keyboard_state EXCEPT !.shift = ~released]
          BY <3>2, <5>1 DEF Modifier, Shifts
        <5> QED
          BY <3>0, <5>2
      <4> QED
        BY <3>1, <3>2, <4>1 DEF NoStuckShift
    <3>3. CASE key \notin Shifts
      <4>1. keyboard_state'.shift = keyboard_state.shift
        BY <2>1, <3>0, <3>3 DEF keyboard_interrupt, process_scancode, Modifier, Shifts
      <4> QED
        BY <3>1, <3>3, <4>1 DEF NoStuckShift
    <3> QED
      BY <3>2, <3>3
  <2>2. CASE Reader \/ UNCHANGED vars
    BY <2>2 DEF NoStuckShift, Reader, vars, CheckInput, Hlt, LoadCount, Store, Take,
                HandleChar, Execute
  <2> QED
    BY <2>1, <2>2 DEF Next, Interrupt
<1> QED
  BY <1>1, <1>2, KeyboardInvariant, PTL DEF Spec
=============================================================================
