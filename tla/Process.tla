------------------------------ MODULE Process -------------------------------
(***************************************************************************)
(* The process manager of process.c: a pool of process control blocks      *)
(* (PCBs), three linked queues threaded through them and the scheduler.    *)
(*                                                                         *)
(* A PCB is named by its index in process_pool; freeing it only clears its *)
(* used flag, so the contents of a freed PCB stay readable through the     *)
(* queues that still reach it, and the model keeps them.  Every call runs  *)
(* to completion (no interrupt handler enters the manager), so a call is   *)
(* one action.  A list walk that meets a cycle without finding its pid     *)
(* never returns: the kernel is then hung.                                 *)
(*                                                                         *)
(* client says how the rest of the kernel uses the API of process.h:       *)
(*   "any"    every call with every argument;                              *)
(*   "once"   nobody terminates a process whose PCB says it is terminated. *)
(* The system calls and shell commands that use the manager are in module  *)
(* Syscall.                                                                *)
(***************************************************************************)
EXTENDS Integers, Sequences, FiniteSets, FiniteSetsExt

CONSTANTS
  MAX_PROCESSES,   \* PCBs in the pool (64 in the code)
  MAX_PID_ANY,     \* bound: next_pid stays at most this for client "any"
  MAX_PID_ONCE,    \* ... and at most this for client "once"
  COUNT_MOD,       \* 2^32 in the code: process_count wraps here
  TICK_MOD,        \* 2^32 in the code: scheduler_ticks wraps here
  Priorities,      \* the priorities callers use
  ExitCodes,       \* the exit codes processes pass
  Stacks,          \* the heap blocks kmalloc can return for a stack
  NoStack          \* kmalloc failed

NULL == -1                 \* the null PCB pointer
LOOPS == -2                \* the result of a walk that never returns
DEFAULT_TIME_SLICE == 10
Slots == 0 .. MAX_PROCESSES - 1
Queues == <<"ready_queue", "blocked_queue", "terminated_queue">>

ASSUME ProcessAssumption ==
  /\ MAX_PROCESSES \in Nat \ {0}
  /\ MAX_PID_ANY \in Nat \ {0} /\ MAX_PID_ONCE \in Nat \ {0}
  /\ COUNT_MOD \in Nat /\ COUNT_MOD > MAX_PROCESSES
  /\ TICK_MOD \in Nat \ {0}
  /\ Priorities \subseteq Nat
  /\ 0 \in ExitCodes
  /\ NoStack \notin Stacks

VARIABLES
  pcb,    \* process_pool
  used,   \* process_pool_used
  g,      \* g_process_manager
  heap,   \* the stacks the heap has handed out (memory.c, see Heap)
  hung,   \* a list walk is going round a cycle
  client  \* how callers behave, chosen once

vars == <<pcb, used, g, heap, hung, client>>

PCB ==
  [pid : Nat, state : {"NEW", "READY", "RUNNING", "BLOCKED", "TERMINATED"},
   priority : Nat, time_slice : Nat, remaining_slice : Nat,
   stack_base : Stacks \cup {NoStack}, eip : {0, 1}, exit_code : ExitCodes,
   next : Slots \cup {NULL}, prev : Slots \cup {NULL}]

(* memset(pcb, 0, sizeof(pcb_t)). *)
ZeroPCB ==
  [pid |-> 0, state |-> "NEW", priority |-> 0, time_slice |-> 0,
   remaining_slice |-> 0, stack_base |-> NoStack, eip |-> 0, exit_code |-> 0,
   next |-> NULL, prev |-> NULL]

(* process_manager_init: PCB 0 is the idle process and runs. *)
Init ==
  /\ pcb = [s \in Slots |->
              IF s = 0 THEN [ZeroPCB EXCEPT !.state = "RUNNING", !.priority = 1]
              ELSE ZeroPCB]
  /\ used = [s \in Slots |-> s = 0]
  /\ g = [running |-> 0, ready_queue |-> NULL, blocked_queue |-> NULL,
          terminated_queue |-> NULL, next_pid |-> 1, process_count |-> 1,
          scheduler_ticks |-> 0]
  /\ heap = {}
  /\ hung = FALSE
  /\ client \in {"any", "once"}

-----------------------------------------------------------------------------
(* The helpers of process.c work on m = [pcb, g, hung], the state so far   *)
(* within one call.  Operators whose names begin with Bad are broken       *)
(* variants of the definition that follows them; no specification uses     *)
(* them.                                                                   *)
Now == [pcb |-> pcb, g |-> g, hung |-> hung]
Becomes(m) == pcb' = m.pcb /\ g' = m.g /\ hung' = m.hung /\ client' = client

(* Process pool P with a link of PCB a set to x. *)
SetNext(P, a, x) == [P EXCEPT ![a].next = x]
SetPrev(P, a, x) == [P EXCEPT ![a].prev = x]

(* The head is replaced before the old head is linked. *)
BadAdd(m, q, p) ==
  [m EXCEPT !.pcb[p].next = p, !.pcb[p].prev = NULL, !.g[q] = p]

(* Push p at the head of queue q. *)
add_to_queue(m, q, p) ==
  LET head == m.g[q]
      linked == SetNext(m.pcb, p, head)
      back == IF head = NULL THEN linked ELSE SetPrev(linked, head, p)
  IN  [m EXCEPT !.pcb = SetPrev(back, p, NULL), !.g[q] = p]

(* The successor keeps its old prev. *)
BadRemove(m, q, p) ==
  LET n == m.pcb[p].next
      v == m.pcb[p].prev
      fwd == IF v = NULL THEN m.pcb ELSE [m.pcb EXCEPT ![v].next = n]
  IN  [m EXCEPT !.pcb = [fwd EXCEPT ![p].next = NULL, ![p].prev = NULL],
                !.g[q] = IF v = NULL THEN n ELSE @]

(* Unlink p; queue q is where its caller believes p to be. *)
remove_from_queue(m, q, p) ==
  LET n == m.pcb[p].next
      v == m.pcb[p].prev
      fwd == IF v = NULL THEN m.pcb ELSE SetNext(m.pcb, v, n)
      back == IF n = NULL THEN fwd ELSE SetPrev(fwd, n, v)
  IN  [m EXCEPT !.pcb = SetPrev(SetNext(back, p, NULL), p, NULL),
                !.g[q] = IF v = NULL THEN n ELSE @]

(* The PCBs a walk along next passes from h on, up to the NULL at its end, *)
(* at most one more than there are PCBs.                                   *)
Further(P, w) == IF w[Len(w)] = NULL THEN w ELSE Append(w, P[w[Len(w)]].next)
Walk(P, h) ==
  LET passed[k \in 0 .. MAX_PROCESSES] == IF k = 0 THEN <<h>> ELSE Further(P, passed[k - 1])
  IN  passed[MAX_PROCESSES]

(* Walk a queue from h for a pid.  A walk that meets MAX_PROCESSES PCBs    *)
(* without finding it and still goes on has met one twice.                 *)
find_process_in_queue(m, h, pid) ==
  LET w == Walk(m.pcb, h)
      stops == {k \in 1 .. Len(w) : w[k] = NULL \/ m.pcb[w[k]].pid = pid}
  IN  IF stops = {} THEN LOOPS ELSE w[Min(stops)]

process_get_by_pid(m, pid) ==
  LET ready == find_process_in_queue(m, m.g.ready_queue, pid)
      blocked == find_process_in_queue(m, m.g.blocked_queue, pid)
  IN  IF m.g.running # NULL /\ m.pcb[m.g.running].pid = pid THEN m.g.running
      ELSE IF ready # NULL THEN ready
      ELSE IF blocked # NULL THEN blocked
      ELSE find_process_in_queue(m, m.g.terminated_queue, pid)

(* Saving and restoring the context are empty functions. *)
process_switch(m, p) ==
  [m EXCEPT !.g.running = p, !.pcb[p].state = "RUNNING",
            !.pcb[p].remaining_slice = m.pcb[p].time_slice]

schedule_next_process(m) ==
  LET idle == process_get_by_pid(m, 0)
      head == m.g.ready_queue
  IN  IF head # NULL
        THEN process_switch(remove_from_queue(m, "ready_queue", head), head)
      ELSE IF idle = LOOPS THEN [m EXCEPT !.hung = TRUE]
      ELSE IF idle = NULL THEN m ELSE process_switch(m, idle)

(* process_scheduler: remaining_slice is unsigned, <= 0 means 0. *)
scheduler(m) ==
  LET t == [m EXCEPT !.g.scheduler_ticks = (@ + 1) % TICK_MOD]
      r == t.g.running
  IN  IF r = NULL \/ t.pcb[r].remaining_slice > 0 THEN t
      ELSE schedule_next_process(
             IF t.pcb[r].state # "RUNNING" THEN t
             ELSE add_to_queue([t EXCEPT !.pcb[r].state = "READY"], "ready_queue", r))

-----------------------------------------------------------------------------
(* What the clients of the API do. *)
MayCreate == g.next_pid < IF client = "any" THEN MAX_PID_ANY ELSE MAX_PID_ONCE

MayTerminate(pid) ==
  client = "once" =>
    \A s \in Slots : pcb[s].pid = pid => pcb[s].state # "TERMINATED"

(* The pids callers pass: those ever given out and one that was not, which *)
(* stands for all others, since a pid is only ever compared.               *)
Pids == 0 .. g.next_pid

(* kmalloc(DEFAULT_STACK_SIZE): any block not handed out, or failure. *)
kmalloc_stack == (Stacks \ heap) \cup {NoStack}

(* The PCB process_create fills in; without a stack, eip stays 0. *)
NewPCB(pid, entry_point, priority, stack) ==
  [ZeroPCB EXCEPT !.pid = pid, !.state = "READY", !.priority = priority,
                  !.time_slice = DEFAULT_TIME_SLICE,
                  !.remaining_slice = DEFAULT_TIME_SLICE,
                  !.stack_base = stack,
                  !.eip = IF stack = NoStack THEN 0 ELSE entry_point]

(* The pid is the number of processes instead of the next fresh one. *)
BadCreate(entry_point, priority) ==
  LET free == {s \in Slots : ~used[s]}
      s == Min(free)
      fill(stack) ==
        [Now EXCEPT !.pcb[s] = NewPCB(g.process_count, entry_point, priority, stack),
                    !.g.next_pid = @ + 1, !.g.process_count = (@ + 1) % COUNT_MOD]
  IN  IF entry_point = 0 \/ g.process_count >= MAX_PROCESSES \/ free = {}
        THEN UNCHANGED vars
        ELSE \E stack \in kmalloc_stack :
               /\ Becomes(add_to_queue(fill(stack), "ready_queue", s))
               /\ used' = [used EXCEPT ![s] = TRUE]
               /\ heap' = heap \cup ({stack} \ {NoStack})

(* The three error returns of process_create. *)
CreateRefused(entry_point) ==
  \/ entry_point = 0
  \/ g.process_count >= MAX_PROCESSES
  \/ \A s \in Slots : used[s]

(* process_create, allocate_pcb and setup_process_stack: the first free    *)
(* PCB is cleared, filled in and pushed on the ready queue.                *)
process_create(entry_point, priority) ==
  LET s == Min({t \in Slots : ~used[t]})
      fill(stack) ==
        [Now EXCEPT !.pcb[s] = NewPCB(g.next_pid, entry_point, priority, stack),
                    !.g.next_pid = @ + 1, !.g.process_count = (@ + 1) % COUNT_MOD]
  IN  IF CreateRefused(entry_point)
        THEN UNCHANGED vars
        ELSE \E stack \in kmalloc_stack :
               /\ Becomes(add_to_queue(fill(stack), "ready_queue", s))
               /\ used' = [used EXCEPT ![s] = TRUE]
               /\ heap' = heap \cup ({stack} \ {NoStack})

(* A client of the API creates a process. *)
Create(entry_point, priority) ==
  /\ ~hung /\ MayCreate
  /\ process_create(entry_point, priority)

(* The stack is not given back and the process is not counted down. *)
BadTerminate(m, pid) ==
  LET p == process_get_by_pid(m, pid)
      unlinked == IF p = m.g.running THEN [m EXCEPT !.g.running = NULL]
                  ELSE remove_from_queue(
                         remove_from_queue(m, "ready_queue", p), "blocked_queue", p)
      dead == add_to_queue([unlinked EXCEPT !.pcb[p].state = "TERMINATED"],
                           "terminated_queue", p)
  IN  IF p \notin Slots
        THEN Becomes([m EXCEPT !.hung = p = LOOPS]) /\ UNCHANGED <<used, heap>>
        ELSE /\ Becomes(dead)
             /\ used' = [used EXCEPT ![p] = FALSE]
             /\ UNCHANGED heap

(* process_terminate from state m: unlink, push on the terminated queue,   *)
(* free the stack and the PCB, count down, and schedule if the process     *)
(* still is the running one.                                               *)
TerminateFrom(m, pid) ==
  LET p == process_get_by_pid(m, pid)
      unlinked == IF p = m.g.running THEN [m EXCEPT !.g.running = NULL]
                  ELSE remove_from_queue(
                         remove_from_queue(m, "ready_queue", p), "blocked_queue", p)
      dead == add_to_queue([unlinked EXCEPT !.pcb[p].state = "TERMINATED"],
                           "terminated_queue", p)
      counted == [dead EXCEPT !.g.process_count = (@ - 1) % COUNT_MOD]
  IN  IF p \notin Slots
        THEN Becomes([m EXCEPT !.hung = p = LOOPS]) /\ UNCHANGED <<used, heap>>
        ELSE /\ Becomes(IF p = counted.g.running THEN schedule_next_process(counted)
                        ELSE counted)
             /\ used' = [used EXCEPT ![p] = FALSE]
             /\ heap' = heap \ {m.pcb[p].stack_base}

(* process_kill is the same call. *)
process_terminate(pid) == TerminateFrom(Now, pid)

Terminate(pid) ==
  /\ ~hung /\ MayTerminate(pid)
  /\ process_terminate(pid)

process_scheduler ==
  /\ ~hung
  /\ Becomes(scheduler(Now))
  /\ UNCHANGED <<used, heap>>

process_yield ==
  /\ ~hung /\ g.running # NULL
  /\ Becomes(scheduler([Now EXCEPT !.pcb[g.running].remaining_slice = 0]))
  /\ UNCHANGED <<used, heap>>

(* process_set_priority and process_get_info look the pid up; the first    *)
(* writes to whatever PCB it finds, queued or terminated.                  *)
process_set_priority(pid, priority) ==
  LET p == process_get_by_pid(Now, pid) IN
  /\ ~hung
  /\ hung' = (p = LOOPS)
  /\ pcb' = IF p \in Slots THEN [pcb EXCEPT ![p].priority = priority] ELSE pcb
  /\ UNCHANGED <<used, g, heap, client>>

process_get_info(pid) ==
  /\ ~hung
  /\ hung' = (process_get_by_pid(Now, pid) = LOOPS)
  /\ UNCHANGED <<pcb, used, g, heap, client>>

Next ==
  \/ \E entry_point \in {0, 1}, priority \in Priorities : Create(entry_point, priority)
  \/ \E pid \in Pids : Terminate(pid)
  \/ process_scheduler
  \/ process_yield
  \/ \E pid \in Pids, priority \in Priorities : process_set_priority(pid, priority)
  \/ \E pid \in Pids : process_get_info(pid)

Spec == Init /\ [][Next]_vars

(* The loop of process_get_list over a queue, which stops when the         *)
(* caller's array has no room: its first n PCBs, or all.                   *)
Listed(h, n) ==
  LET w == Walk(pcb, h)
  IN  SubSeq(w, 1, Cardinality({k \in 1 .. Len(w) : k <= n /\ w[k] # NULL}))

(* process_get_list(processes, max_count): the PCBs `ps' prints, in order. *)
process_get_list(max_count) ==
  LET run == IF g.running = NULL \/ max_count = 0 THEN <<>> ELSE <<g.running>>
      ready == Listed(g.ready_queue, max_count - Len(run))
  IN  run \o ready \o Listed(g.blocked_queue, max_count - Len(run) - Len(ready))

-----------------------------------------------------------------------------
(* Properties *)

(* Types of the process manager's state. *)
TypeOK ==
  /\ pcb \in [Slots -> PCB]
  /\ used \in [Slots -> BOOLEAN]
  /\ g \in [running : Slots \cup {NULL}, ready_queue : Slots \cup {NULL},
            blocked_queue : Slots \cup {NULL}, terminated_queue : Slots \cup {NULL},
            next_pid : Nat, process_count : 0 .. COUNT_MOD - 1,
            scheduler_ticks : 0 .. TICK_MOD - 1]
  /\ heap \subseteq Stacks
  /\ hung \in BOOLEAN
  /\ client \in {"any", "once"}

(* Whatever is created, killed or yielded, in whatever order, the only     *)
(* process that ever runs is the idle process of process_manager_init:     *)
(* add_to_queue pushes at the head and schedule_next_process takes the     *)
(* head, so the process that yields is the one chosen.                     *)
OnlyIdleRuns ==
  g.running # NULL =>
    /\ g.running = 0 /\ used[0]
    /\ pcb[0].pid = 0 /\ pcb[0].state = "RUNNING"

(* A pid names one process for good: PCBs in use never share a pid, even   *)
(* when PCBs are freed, reused and freed again and the queues are damaged. *)
PidsUnique ==
  \A s, t \in Slots :
    /\ used[s] => pcb[s].pid < g.next_pid
    /\ used[s] /\ used[t] /\ pcb[s].pid = pcb[t].pid => s = t

(* Every process ever created still has its PCB: no PCB was reused. *)
NoneReused ==
  \A pid \in 0 .. g.next_pid - 1 :
    \E s \in Slots : pcb[s].state # "NEW" /\ pcb[s].pid = pid

(* Links and heads stay in the pool, whatever callers do; and for clients  *)
(* that terminate no terminated process, until the PCB of one is reused,   *)
(* next and prev agree, a queue's head has no prev, which is what          *)
(* remove_from_queue relies on to unlink a PCB in the middle, and no queue *)
(* is cyclic, so every lookup by pid returns.  process_create reuses the   *)
(* PCB while terminated_queue still leads to it, and a termination after   *)
(* that can close a cycle.                                                 *)
QueuesSound ==
  /\ TypeOK
  /\ client = "once" /\ NoneReused =>
       /\ ~hung
       /\ \A s, t \in Slots : pcb[s].next = t <=> pcb[t].prev = s
       /\ \A i \in 1 .. 3 : LET h == g[Queues[i]] IN h # NULL => pcb[h].prev = NULL

(* As long, `ps' shows every process that exists, and each once; asked for *)
(* fewer, it shows a part of them.                                         *)
PsExact ==
  client = "once" /\ NoneReused =>
    \A max \in 0 .. MAX_PROCESSES :
      LET l == process_get_list(max)
          live == {s \in Slots : used[s]}
      IN  /\ Len(l) = Min({max, Cardinality(live)})
          /\ \A i, j \in 1 .. Len(l) : l[i] = l[j] => i = j
          /\ \A i \in 1 .. Len(l) : l[i] \in live

(* For clients that terminate no terminated process, and however many PCBs *)
(* are reused and queues damaged by it, process_count is the number of     *)
(* PCBs in use ("Total process count"), so process_create refuses exactly  *)
(* when the pool is exhausted; and the stacks the manager has taken from   *)
(* the heap are exactly those of the PCBs in use, one each: no stack leaks *)
(* and none is freed under a process that still has it.                    *)
StacksOwned ==
  client = "once" =>
    /\ g.process_count = Cardinality({s \in Slots : used[s]})
    /\ heap = {pcb[s].stack_base : s \in {t \in Slots : used[t]}} \ {NoStack}
    /\ \A s, t \in Slots :
         used[s] /\ used[t] /\ pcb[s].stack_base = pcb[t].stack_base
           => s = t \/ pcb[s].stack_base = NoStack
=============================================================================
