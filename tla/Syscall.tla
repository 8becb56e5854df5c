------------------------------ MODULE Syscall -------------------------------
(***************************************************************************)
(* The system call layer of syscall.c over the process manager: the table  *)
(* syscall_init fills, the dispatcher syscall_execute and the handlers of  *)
(* the process calls, together with the shell commands ps, kill, priority  *)
(* and syscall of kernel.c, which use the same manager.                    *)
(*                                                                         *)
(* `eax' is the value the last system call returned; a call made by any    *)
(* other route clears it.  The file and memory handlers act on components  *)
(* with modules of their own (FileSystem, Heap): here they only return.    *)
(***************************************************************************)
EXTENDS Process, Functions

CONSTANTS
  MAX_SYSCALLS,   \* slots of syscall_table (64 in the code)
  CallNums        \* the call numbers callers use

ASSUME SyscallAssumption ==
  /\ MAX_SYSCALLS \in Nat /\ MAX_SYSCALLS > 42
  /\ CallNums \subseteq Nat

VARIABLES
  syscall_table,  \* call number -> handler, or NoHandler
  syscall_count,  \* one more than the largest number registered
  eax

sysvars == <<pcb, used, g, heap, hung, client, syscall_table, syscall_count, eax>>

NoHandler == "NULL"
NoResult == -100          \* the last call was not a system call
SYSCALL_SUCCESS == 0
SYSCALL_ERROR == -1
SYSCALL_INVALID == -2

(* The numbers of syscall.h and the handlers syscall_init registers. *)
ProcessCalls ==
  <<<<1, "exit">>, <<2, "fork">>, <<3, "exec">>, <<4, "wait">>, <<5, "getpid">>,
    <<6, "getppid">>, <<7, "kill">>, <<8, "yield">>>>
FilesystemCalls ==
  <<<<10, "open">>, <<11, "close">>, <<12, "read">>, <<13, "write">>, <<14, "seek">>,
    <<15, "tell">>, <<16, "create">>, <<17, "delete">>, <<18, "rename">>, <<19, "mkdir">>,
    <<20, "rmdir">>, <<21, "chdir">>, <<22, "getcwd">>, <<23, "listdir">>>>
MemoryCalls == <<<<30, "malloc">>, <<31, "free">>, <<32, "mmap">>, <<33, "munmap">>>>
ManagerCalls == <<<<40, "ps">>, <<41, "setpriority">>, <<42, "getinfo">>>>
Declared == ProcessCalls \o FilesystemCalls \o MemoryCalls \o ManagerCalls

(* A number that is too large or taken is refused. *)
syscall_register(t, num, handler) ==
  IF num >= MAX_SYSCALLS \/ t.table[num] # NoHandler THEN t
  ELSE [table |-> [t.table EXCEPT ![num] = handler],
        count |-> IF num >= t.count THEN num + 1 ELSE t.count]

(* The table after the first k registrations. *)
Registered[k \in 0 .. Len(Declared)] ==
  IF k = 0 THEN [table |-> [n \in 0 .. MAX_SYSCALLS - 1 |-> NoHandler], count |-> 0]
  ELSE syscall_register(Registered[k - 1], Declared[k][1], Declared[k][2])

syscall_init == Registered[Len(Declared)]

syscall_find(num) == IF num >= MAX_SYSCALLS THEN NoHandler ELSE syscall_table[num]

(* The numbers `syscall list' prints. *)
syscall_list == {i \in 0 .. syscall_count - 1 : syscall_table[i] # NoHandler}

SyscallInit ==
  /\ Init
  /\ syscall_table = syscall_init.table
  /\ syscall_count = syscall_init.count
  /\ eax = NoResult

-----------------------------------------------------------------------------
(* The handlers.  A handler that never returns leaves no result. *)
Returns(r) == eax' = r
JustReturns(r) == UNCHANGED vars /\ Returns(r)

(* What a call that looks a pid up returns. *)
Found(pid) ==
  LET p == process_get_by_pid(Now, pid) IN
  IF p = LOOPS THEN NoResult ELSE IF p = NULL THEN SYSCALL_ERROR ELSE SYSCALL_SUCCESS

(* The exit code is written to the PCB directly. *)
sys_exit(exit_code) ==
  /\ IF g.running = NULL THEN UNCHANGED vars
     ELSE TerminateFrom([Now EXCEPT !.pcb[g.running].exit_code = exit_code],
                        pcb[g.running].pid)
  /\ Returns(SYSCALL_SUCCESS)

(* The child starts where its parent does. *)
sys_fork ==
  IF g.running = NULL THEN JustReturns(SYSCALL_ERROR)
  ELSE LET current == pcb[g.running] IN
       /\ MayCreate
       /\ process_create(current.eip, current.priority)
       /\ Returns(IF CreateRefused(current.eip) THEN SYSCALL_ERROR ELSE g.next_pid)

sys_exec == JustReturns(SYSCALL_ERROR)
sys_wait == JustReturns(SYSCALL_SUCCESS)

sys_getpid ==
  JustReturns(IF g.running = NULL THEN SYSCALL_ERROR ELSE pcb[g.running].pid)

(* No process ever gets a parent. *)
sys_getppid == JustReturns(SYSCALL_ERROR)

(* The slot is released before the pid is looked up. *)
BadKill(pid) ==
  /\ MayTerminate(pid)
  /\ IF Found(pid) = SYSCALL_ERROR
       THEN UNCHANGED <<pcb, g, heap, hung, client>> /\ used' = [s \in Slots |-> used[s] /\ s # pid]
       ELSE process_terminate(pid)
  /\ Returns(Found(pid))

sys_kill(pid) ==
  /\ MayTerminate(pid)
  /\ process_terminate(pid)
  /\ Returns(Found(pid))

sys_yield ==
  /\ IF g.running = NULL THEN UNCHANGED vars ELSE process_yield
  /\ Returns(SYSCALL_SUCCESS)

(* The caller's array may be null; at most max_count PCBs are copied. *)
sys_ps(processes_ptr, max_count) ==
  JustReturns(IF processes_ptr = 0 THEN SYSCALL_ERROR
              ELSE Min({max_count, Len(process_get_list(MAX_PROCESSES))}))

sys_setpriority(pid, priority) ==
  IF priority \notin 1 .. 4 THEN JustReturns(SYSCALL_ERROR)
  ELSE process_set_priority(pid, priority) /\ Returns(Found(pid))

sys_getinfo(info_ptr) ==
  JustReturns(IF info_ptr = 0 \/ g.running = NULL THEN SYSCALL_ERROR ELSE SYSCALL_SUCCESS)

(* The handler of a process call, for all arguments. *)
ProcessHandler(h) ==
  \/ h = "exit" /\ \E code \in ExitCodes : sys_exit(code)
  \/ h = "fork" /\ sys_fork
  \/ h = "exec" /\ sys_exec
  \/ h = "wait" /\ sys_wait
  \/ h = "getpid" /\ sys_getpid
  \/ h = "getppid" /\ sys_getppid
  \/ h = "kill" /\ \E pid \in Pids : sys_kill(pid)
  \/ h = "yield" /\ sys_yield
  \/ h = "ps" /\ \E ptr \in {0, 1}, max \in {1, MAX_PROCESSES} : sys_ps(ptr, max)
  \/ h = "setpriority" /\ \E pid \in Pids, p \in Priorities \cup {0} : sys_setpriority(pid, p)
  \/ h = "getinfo" /\ \E ptr \in {0, 1} : sys_getinfo(ptr)

(* A file or memory call: the process manager does not change. *)
OtherHandler(h) ==
  /\ \E d \in Range(FilesystemCalls \o MemoryCalls) : d[2] = h
  /\ \E r \in {SYSCALL_ERROR, SYSCALL_SUCCESS} : JustReturns(r)

syscall_execute(num) ==
  LET h == syscall_find(num) IN
  /\ ~hung
  /\ IF h = NoHandler THEN JustReturns(SYSCALL_INVALID)
     ELSE ProcessHandler(h) \/ OtherHandler(h)
  /\ UNCHANGED <<syscall_table, syscall_count>>

-----------------------------------------------------------------------------
(* The shell commands; `syscall <num>' is syscall_execute itself. *)
shell_kill(pid) ==
  IF pid = 0 THEN UNCHANGED vars ELSE Terminate(pid)

shell_priority(pid, level) ==
  IF level \notin 1 .. 4 THEN UNCHANGED vars ELSE process_set_priority(pid, level)

(* ps lists the processes and changes nothing. *)
shell_ps == ~hung /\ UNCHANGED vars

(* Every call on the manager that is not a system call. *)
OtherCall ==
  /\ \/ \E entry_point \in {0, 1}, priority \in Priorities : Create(entry_point, priority)
     \/ process_scheduler
     \/ \E pid \in Pids : process_get_info(pid)
     \/ ~hung /\ \E pid \in Pids : shell_kill(pid)
     \/ ~hung /\ \E pid \in Pids, level \in Priorities \cup {0} : shell_priority(pid, level)
     \/ shell_ps
  /\ Returns(NoResult)
  /\ UNCHANGED <<syscall_table, syscall_count>>

SyscallNext ==
  \/ \E num \in CallNums : syscall_execute(num)
  \/ OtherCall

SyscallSpec == SyscallInit /\ [][SyscallNext]_sysvars

-----------------------------------------------------------------------------
(* Properties *)

(* syscall_init gives every number of syscall.h the handler of that name,  *)
(* and `syscall list' shows exactly those numbers, although registrations  *)
(* that are refused are refused silently.                                  *)
TableExact ==
  /\ \A d \in Range(Declared) : syscall_find(d[1]) = d[2]
  /\ syscall_list = {d[1] : d \in Range(Declared)}

(* The table is the declared one, so SYSCALL_INVALID is answered to no     *)
(* declared number; and a system call that reports an error has changed    *)
(* nothing in the process manager, whatever was killed, freed and reused   *)
(* before it.                                                              *)
ErrorsChangeNothing ==
  /\ []TableExact
  /\ [][eax' \in {SYSCALL_ERROR, SYSCALL_INVALID} => UNCHANGED <<pcb, used, g, heap>>]_sysvars

(* What a comment of schedule_next_process says of the choice it makes,    *)
(* "simple round-robin scheduling": a process that yields while another is *)
(* ready does not run on.  It does: add_to_queue has just pushed it at the *)
(* head, and the head is what is chosen.                                   *)
RoundRobin ==
  [][process_yield /\ g.ready_queue # NULL => g'.running # g.running]_sysvars

(* What a comment of process_terminate says: "if the current process is    *)
(* terminated, schedule the next process".  The test that follows it is    *)
(* never true, since running_process was cleared before.                   *)
NextAfterExit ==
  [][g.running # NULL /\ g.ready_queue # NULL => g'.running # NULL]_sysvars
=============================================================================
