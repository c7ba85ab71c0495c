-------------------------------- MODULE Proc --------------------------------
(***************************************************************************)
(* Processes of the puzzleOS kernel: proc.c (creation, death, round-robin  *)
(* scheduler, task switch), the system calls of sys.c that change a        *)
(* process, and the keyboard's half of getch, process_key of console.c.    *)
(*                                                                         *)
(* The machine has one CPU and every gate is an interrupt gate, so a       *)
(* handler (timer, keyboard, system call) runs with interrupts off: each   *)
(* is one action.  User code runs between handlers and may make any system *)
(* call at any moment, and timer ticks and keys arrive at any moment.      *)
(*                                                                         *)
(* A proc_t is named by its slot, the heap address it lives at.  kfree     *)
(* leaves the bytes of a freed proc_t in place, so a freed slot keeps its  *)
(* fields until create_proc reuses it, and a pointer that outlives the     *)
(* process reads and writes those fields.                                  *)
(***************************************************************************)
EXTENDS Integers, Sequences, FiniteSets, SequencesExt

CONSTANTS
    CONSOLES_COUNT,  \* virtual consoles, one shell each (console.h:17)
    LINE_MAX,        \* the limit on inbuffer.pos, 255 in console.c:125
    MAX_SLOTS,       \* bound: proc_t's that exist at a time (the code has none)
    QUEUE_MAX        \* bound: entries of one io_queue (the code has none)

ASSUME ConstantsAssumption ==
    /\ CONSOLES_COUNT \in Nat \ {0}
    /\ LINE_MAX \in Nat \ {0}
    /\ MAX_SLOTS \in Nat /\ MAX_SLOTS > CONSOLES_COUNT
    /\ QUEUE_MAX \in Nat \ {0}

NULL == 0                            \* a null proc_t pointer
KERNEL == 0                          \* kernel_page_dir, as a value of cr3
Slots == 1 .. MAX_SLOTS
idle_proc == 1                       \* the first proc_t created
Consoles == 0 .. CONSOLES_COUNT - 1

PS_RUNABLE == 0
PS_STOPED  == 1
PS_DEAD    == 2                      \* declared in proc.h, never assigned
PS_WFCHILD == 3
PS_IDLE    == 4

\* What scancodes[] yields: nothing (Shift, Ctrl, Alt), backspace, Enter, a letter.
Nul == 0
Backspace == 8
Enter == 10
Letter == 97
Ascii == {Nul, Backspace, Enter, Letter}

VARIABLES
    procs_list,      \* the list of all processes, front first
    pid, state, parent, console,     \* fields of the proc_t in each slot
    context,         \* the saved user context: the call it is in, and its eax
    current_proc,    \* NULL after the running process was killed
    cpu,             \* whose user code runs
    cr3,             \* owner of the loaded page directory, or KERNEL
    current_console, \* the displayed console
    io_queue, pos,   \* fields of each console: waiting readers, inbuffer.pos
    halted,          \* PANIC: for(;;) with interrupts off
    dangling         \* history: slots freed while a pointer to them remained

procVars == <<pid, parent, console>>
cpuVars  == <<current_proc, cpu, cr3>>
ttyVars  == <<current_console, io_queue, pos>>
vars == <<procs_list, procVars, state, context, cpuVars, ttyVars, halted, dangling>>

Live == ToSet(procs_list)
Contexts == [at : {"user", "getch", "exec", "waitpid"}, eax : Ascii \cup 0 .. MAX_SLOTS]
InUser == [at |-> "user", eax |-> 0]
Blocked(call, eax) == [at |-> call, eax |-> eax]

(***************************************************************************)
(* Scheduler                                                               *)
(***************************************************************************)
RunableAt(q, st) == {i \in DOMAIN q : st[q[i]] = PS_RUNABLE}
FirstRunable(q, st) == CHOOSE i \in RunableAt(q, st) : \A j \in RunableAt(q, st) : i <= j
Rotate(q, k) == SubSeq(q, k + 1, Len(q)) \o SubSeq(q, 1, k)

\* shedule moves front items to the back up to and including the first
\* runnable one; when there is none the list comes full circle.
ChosenUnchecked(q, st) ==      \* mutant: the last item is taken without the state test
    IF RunableAt(q, st) = {} THEN q[Len(q)] ELSE q[FirstRunable(q, st)]
Chosen(q, st) == IF RunableAt(q, st) = {} THEN idle_proc ELSE q[FirstRunable(q, st)]
NotTurned(q, st) == q          \* mutant: the list is scanned, not rotated
Turned(q, st) == IF RunableAt(q, st) = {} THEN q ELSE Rotate(q, FirstRunable(q, st))

\* switch_task, with the list, the states and the contexts that the handler
\* leaves behind: the chosen process' stack and page directory are loaded and
\* it returns to user mode, taking eax with it.
SwitchTask(q, st, cx) ==
    LET next == Chosen(q, st)
    IN  /\ procs_list' = Turned(q, st)
        /\ current_proc' = next
        /\ cpu' = next
        /\ cr3' = next
        /\ state' = st
        /\ context' = [cx EXCEPT ![next] = InUser]

\* The timer interrupt: it reschedules even when current_proc is null.
TickNeedsCurrent == ~halted /\ current_proc # NULL     \* mutant: it gives up on null
TickAccepted == ~halted
TimerTick ==
    /\ TickAccepted
    /\ SwitchTask(procs_list, state, context)
    /\ UNCHANGED <<procVars, ttyVars, halted, dangling>>

(***************************************************************************)
(* Killing                                                                 *)
(***************************************************************************)
\* kill_proc returns at once for the idle process and for the children of pid
\* 0.  A process made by a killed caller has a null parent: the word read
\* there is not the kernel's, so either outcome is possible.
ParentPid(v) == IF parent[v] = NULL THEN {0, 1} ELSE {pid[parent[v]]}
IdleUnprotected(v, ppid) == ppid = 0      \* mutant: the test of pid is gone
Protected(v, ppid) == pid[v] = 0 \/ ppid = 0

WakeDropped(v) == state         \* mutant: the parent is not woken
WakeUnconditional(v) ==        \* mutant: the parent is woken from any wait
    [p \in Slots |-> IF p = parent[v] THEN PS_RUNABLE ELSE state[p]]
WakeAll(v) ==                  \* mutant: whoever waits for a child is woken
    [p \in Slots |-> IF state[p] = PS_WFCHILD THEN PS_RUNABLE ELSE state[p]]
StateAfterKill(v) ==
    [p \in Slots |-> IF p = parent[v] /\ state[p] = PS_WFCHILD THEN PS_RUNABLE ELSE state[p]]

\* kill_proc clears neither the queue entries of the victim nor the parent
\* field of its children.
Referenced(v) == \/ \E c \in Consoles : v \in ToSet(io_queue[c])
                 \/ \E p \in Live \ {v} : parent[p] = v

Bury(v) ==
    /\ dangling' = IF Referenced(v) THEN dangling \cup {v} ELSE dangling
    /\ UNCHANGED <<procVars, ttyVars>>
ContextAfterKill(v) == [context EXCEPT ![v] = InUser]

UserMode == ~halted /\ cpu # idle_proc

\* sys_exit of a process that kill_proc refuses to kill: it only yields.
SysExitRefused ==
    /\ UserMode /\ current_proc # NULL
    /\ \E ppid \in ParentPid(current_proc) : Protected(current_proc, ppid)
    /\ SwitchTask(procs_list, state, context)
    /\ UNCHANGED <<procVars, ttyVars, halted, dangling>>

CanKill(v) == \E ppid \in ParentPid(v) : ~Protected(v, ppid)

\* sys_exit: the process is gone, current_proc is null, and the handler still
\* stores res through current_proc->context: when that word is mapped the
\* store is harmless and the next process is chosen ...
SysExit ==
    /\ UserMode /\ current_proc # NULL /\ CanKill(current_proc)
    /\ SwitchTask(RemoveFirst(procs_list, current_proc),
                  StateAfterKill(current_proc), ContextAfterKill(current_proc))
    /\ Bury(current_proc)
    /\ UNCHANGED halted

DirKept == cr3                 \* mutant: the victim's directory stays loaded
DirAfterKill == KERNEL

\* The effect of kill_proc on the running process, before any switch.
KillCurrent ==
    /\ procs_list' = RemoveFirst(procs_list, current_proc)
    /\ state' = StateAfterKill(current_proc)
    /\ context' = ContextAfterKill(current_proc)
    /\ current_proc' = NULL
    /\ cr3' = DirAfterKill
    /\ Bury(current_proc)
    /\ UNCHANGED cpu

\* ... and when it is not, the store faults and the kernel stops.
SysExitFault ==
    /\ UserMode /\ current_proc # NULL /\ CanKill(current_proc)
    /\ KillCurrent
    /\ halted' = TRUE

\* get_proc: the first process of the list with this pid.
PidAt(n) == {i \in DOMAIN procs_list : pid[procs_list[i]] = n}
GetProc(n) == procs_list[CHOOSE i \in PidAt(n) : \A j \in PidAt(n) : i <= j]

\* sys_kill of another process; reshedule stays 0, the caller goes on.
SysKill(n) ==
    /\ UserMode /\ PidAt(n) # {} /\ GetProc(n) # current_proc /\ CanKill(GetProc(n))
    /\ procs_list' = RemoveFirst(procs_list, GetProc(n))
    /\ state' = StateAfterKill(GetProc(n))
    /\ context' = ContextAfterKill(GetProc(n))
    /\ Bury(GetProc(n))
    /\ UNCHANGED <<cpuVars, halted>>

\* sys_kill of oneself: reshedule is 0, so the dead process goes on, on the
\* kernel's page directory, with current_proc null (or the store of res faults).
SysKillSelf(n) ==
    /\ UserMode /\ PidAt(n) # {} /\ GetProc(n) = current_proc /\ CanKill(current_proc)
    /\ KillCurrent
    /\ halted' \in BOOLEAN

\* An exception stops the kernel: in user code; in kill_proc, which hands kfree
\* addresses inside the stacks' blocks (proc.c:111-112); or in a killed process
\* that goes on, at the first address that the kernel's directory does not map
\* or the first call that goes through the null current_proc.
UserFault ==
    /\ UserMode
    /\ halted' = TRUE
    /\ UNCHANGED <<procs_list, procVars, state, context, cpuVars, ttyVars, dangling>>

(***************************************************************************)
(* System calls that create and block                                      *)
(***************************************************************************)
\* A write to a field of current_proc; through a null pointer it goes to low
\* memory and no process changes.
WithCurrent(f, x) == IF current_proc = NULL THEN f ELSE [f EXCEPT ![current_proc] = x]

\* sys_exec of a file that exists, in the free slot p: create_proc, then the
\* wait.  (When there is no such file nothing changes.)
SysExec(p, wait) ==
    /\ UserMode /\ p \in Slots \ Live
    /\ LET child == Len(procs_list)                 \* items_count, before push_back
           born  == [state EXCEPT ![p] = PS_RUNABLE]
           fresh == [context EXCEPT ![p] = InUser]
       IN  /\ pid' = [pid EXCEPT ![p] = child]
           /\ parent' = [parent EXCEPT ![p] = current_proc]
           /\ console' = [console EXCEPT ![p] = current_console]
           /\ \/ /\ wait
                 /\ SwitchTask(Append(procs_list, p), WithCurrent(born, PS_WFCHILD),
                               WithCurrent(fresh, Blocked("exec", child)))
              \/ /\ ~wait
                 /\ procs_list' = Append(procs_list, p)
                 /\ state' = born
                 /\ context' = fresh
                 /\ UNCHANGED cpuVars
    /\ UNCHANGED <<ttyVars, halted, dangling>>

\* sys_waitpid ignores its argument and blocks whether or not there is a child.
SysWaitpid ==
    /\ UserMode
    /\ SwitchTask(procs_list, WithCurrent(state, PS_WFCHILD),
                  WithCurrent(context, Blocked("waitpid", 0)))
    /\ UNCHANGED <<procVars, ttyVars, halted, dangling>>

DisplayedConsole == current_console     \* mutant: the reader joins the displayed console
ReaderConsole == console[current_proc]

\* sys_getch always blocks: the key comes later, in the saved eax.
SysGetch ==
    /\ UserMode /\ current_proc # NULL
    /\ Len(io_queue[ReaderConsole]) < QUEUE_MAX
    /\ io_queue' = [io_queue EXCEPT ![ReaderConsole] = Append(@, current_proc)]
    /\ SwitchTask(procs_list, [state EXCEPT ![current_proc] = PS_STOPED],
                  [context EXCEPT ![current_proc] = Blocked("getch", 0)])
    /\ UNCHANGED <<procVars, current_console, pos, halted, dangling>>

(***************************************************************************)
(* Keyboard                                                                *)
(***************************************************************************)
\* With a full line process_key drops every key but backspace.
AcceptedLate(c) == pos[current_console] <= LINE_MAX \/ c = Backspace   \* mutant: > for >=
Accepted(c) == pos[current_console] < LINE_MAX \/ c = Backspace
Waiting == io_queue[current_console]

\* F1..F10: set_console.  0x3B is not the backspace.
KeyFunction(num) ==
    /\ ~halted
    /\ pos[current_console] < LINE_MAX
    /\ current_console' = num
    /\ UNCHANGED <<procs_list, procVars, state, context, cpuVars, io_queue, pos, halted, dangling>>

NextPos(c) == CASE c = Backspace -> IF pos[current_console] > 0 THEN pos[current_console] - 1 ELSE 0
                [] c = Enter     -> 0
                [] OTHER         -> pos[current_console] + 1

\* A backspace at the start of the line turns into no character at all.
Delivered(c) == IF c = Backspace /\ pos[current_console] = 0 THEN Nul ELSE c

WakesAlways(c) == TRUE         \* mutant: the test of c is gone
Wakes(c) == Delivered(c) # Nul

\* The readers that a character reaches: all that wait on the console.
FirstReader == {Waiting[1]}    \* mutant: the queue is emptied but only its head is woken
Readers == ToSet(Waiting)

\* A key that has an entry in scancodes[]: without a reader it is lost, with one
\* it moves pos, and unless it is no character every entry of the displayed
\* console's queue is popped, gets it in eax and becomes runnable.
KeyAscii(c) ==
    /\ ~halted
    /\ Accepted(c)
    /\ Waiting # <<>>
    /\ pos' = [pos EXCEPT ![current_console] = NextPos(c)]
    /\ \/ /\ ~Wakes(c)
          /\ UNCHANGED <<io_queue, state, context>>
       \/ /\ Wakes(c)
          /\ io_queue' = [io_queue EXCEPT ![current_console] = <<>>]
          /\ state' = [p \in Slots |-> IF p \in Readers THEN PS_RUNABLE ELSE state[p]]
          /\ context' = [p \in Slots |-> IF p \in Readers
                                        THEN [context[p] EXCEPT !.eax = Delivered(c)] ELSE context[p]]
    /\ UNCHANGED <<procs_list, procVars, cpuVars, current_console, halted, dangling>>

\* panic() never returns.
PanicLoop == halted /\ UNCHANGED vars

(***************************************************************************)
(* Specification                                                           *)
(***************************************************************************)
\* kmain has returned and startup.s has entered the idle process: one shell
\* per console, each a child of the idle process.
BootProcs == 1 .. CONSOLES_COUNT + 1
Init ==
    /\ procs_list = [i \in BootProcs |-> i]
    /\ pid = [p \in Slots |-> IF p \in BootProcs THEN p - 1 ELSE 0]
    /\ state = [p \in Slots |-> IF p = idle_proc THEN PS_IDLE
                                ELSE IF p \in BootProcs THEN PS_RUNABLE ELSE PS_DEAD]
    /\ parent = [p \in Slots |-> IF p \in BootProcs \ {idle_proc} THEN idle_proc ELSE NULL]
    /\ console = [p \in Slots |-> IF p \in BootProcs \ {idle_proc} THEN p - 2 ELSE 0]
    /\ context = [p \in Slots |-> InUser]
    /\ current_proc = idle_proc
    /\ cpu = idle_proc
    /\ cr3 = KERNEL
    /\ current_console = 0
    /\ io_queue = [c \in Consoles |-> <<>>]
    /\ pos = [c \in Consoles |-> 0]
    /\ halted = FALSE
    /\ dangling = {}

Next ==
    \/ TimerTick
    \/ SysExit \/ SysExitRefused \/ SysExitFault
    \/ \E n \in 0 .. MAX_SLOTS : SysKill(n) \/ SysKillSelf(n)
    \/ UserFault
    \/ \E p \in Slots, wait \in BOOLEAN : SysExec(p, wait)
    \/ SysWaitpid \/ SysGetch
    \/ \E num \in Consoles : KeyFunction(num)
    \/ \E c \in Ascii : KeyAscii(c)
    \/ PanicLoop

Spec == Init /\ [][Next]_vars

\* The timer chip keeps ticking: with interrupts on, a tick comes.
FairSpec == Spec /\ WF_vars(TimerTick)

(***************************************************************************)
(* Properties                                                              *)
(***************************************************************************)
\* Every variable holds a value of its C type (and pos stays within the limit).
TypeOK ==
    /\ procs_list \in Seq(Slots)
    /\ pid \in [Slots -> 0 .. MAX_SLOTS]
    /\ state \in [Slots -> PS_RUNABLE .. PS_IDLE]
    /\ parent \in [Slots -> Slots \cup {NULL}]
    /\ console \in [Slots -> Consoles]
    /\ context \in [Slots -> Contexts]
    /\ current_proc \in Slots \cup {NULL}
    /\ cpu \in Slots
    /\ cr3 \in Slots \cup {KERNEL}
    /\ current_console \in Consoles
    /\ io_queue \in [Consoles -> Seq(Slots)]
    /\ pos \in [Consoles -> 0 .. LINE_MAX]
    /\ halted \in BOOLEAN
    /\ dangling \subseteq Slots

\* procs_list has no process twice and always has the idle process, which is
\* the only one with pid 0 and is never blocked, woken or killed: shedule can
\* fall back on it whatever else was created, killed or woken through a stale
\* pointer (proc.c:98-137).
ListSound ==
    /\ \A i, j \in DOMAIN procs_list : procs_list[i] = procs_list[j] => i = j
    /\ idle_proc \in Live
    /\ \A p \in Live : (pid[p] = 0 <=> p = idle_proc) /\ (state[p] = PS_IDLE <=> p = idle_proc)

\* While current_proc is not null it names the process whose code runs; that
\* process is in procs_list and is runnable (or idle): the CPU is never given
\* to, or left with, a blocked or freed process (switch_task, proc.c:139-152).
CpuSound ==
    current_proc # NULL =>
        /\ cpu = current_proc
        /\ current_proc \in Live
        /\ state[current_proc] = PS_RUNABLE \/ current_proc = idle_proc

\* The loaded page directory is never a freed one: kill_proc's kfree of
\* page_dir comes after the kernel's directory was loaded (proc.c:114-118).
PageDirLive == cr3 # KERNEL => cr3 \in Live /\ cr3 = current_proc

\* A live process that waits for a key is in the queue of its own console, so
\* that a key typed there will find it: no wakeup is lost, whatever happened to
\* other processes (sys_getch, process_key's drain).
WaiterQueued ==
    \A p \in Live : state[p] = PS_STOPED => p \in ToSet(io_queue[console[p]])

\* Unless its slot was freed while something pointed to it, an entry of a queue
\* is a live process of that console that waits in getch, and has one entry
\* (sys_getch pushes once, process_key pops all).
QueueSound ==
    \A c \in Consoles : \A i \in DOMAIN io_queue[c] :
        LET p == io_queue[c][i]
        IN  p \notin dangling =>
              /\ p \in Live /\ state[p] = PS_STOPED /\ console[p] = c
              /\ context[p].at = "getch"
              /\ \A j \in DOMAIN io_queue[c] : io_queue[c][j] = p => j = i

\* A process that may resume after getch has a character to return, never the 0
\* that sys_getch itself returned: no key that is no character, no child's death
\* and no stale pointer completes the call (console.c:176-181).
GetchAnswered ==
    \A p \in Live :
        state[p] = PS_RUNABLE /\ context[p].at = "getch" => context[p].eax \in Ascii \ {Nul}

\* A process blocked in exec(file, 1) still has the child it will be woken by:
\* kill_proc cannot remove the last one without waking it (proc.c:106-109).
ExecHasChild ==
    \A p \in Live :
        state[p] = PS_WFCHILD /\ context[p].at = "exec" =>
            \E ch \in Live : parent[ch] = p /\ pid[ch] = context[p].eax

(* What a step may never do. *)

\* A process blocked for a child becomes runnable only in a step that removes a
\* process whose parent it is (proc.c:106-109).
ChildWake ==
    \A p \in Live \ dangling :
        state[p] = PS_WFCHILD /\ p \in Live' /\ state'[p] # PS_WFCHILD =>
            \E ch \in Live : ch \notin Live' /\ parent[ch] = p
ChildWakeOnly == [][ChildWake]_vars

\* A process that waits for a key is woken only by a key typed while its own
\* console is displayed, and then with that key (console.c:157-181).
KeyWake ==
    \A p \in Live \ dangling :
        state[p] = PS_STOPED /\ p \in Live' /\ state'[p] # PS_STOPED =>
            /\ console[p] = current_console
            /\ p \notin ToSet(io_queue'[current_console])
KeyWakeOnly == [][KeyWake]_vars

Index(p) == CHOOSE i \in DOMAIN procs_list : procs_list[i] = p

\* Bounded bypass: each time the CPU passes to another process, a runnable
\* process that is not chosen has moved strictly closer to the front of the
\* list, so it waits for fewer switches than there are processes (proc.c:123-137).
Bypass ==
    \A p \in Live \cap Live' :
        state[p] = PS_RUNABLE /\ p \notin {cpu, cpu'} /\ cpu' # cpu => Index(p)' < Index(p)
BoundedBypass == [][Bypass]_vars

\* A runnable process gets the CPU, dies, or the kernel panics: no other
\* process can keep it by exec, getch, kill or exit (round robin of shedule).
RunableRuns ==
    \A p \in Slots :
        (p \in Live /\ state[p] = PS_RUNABLE) ~> (cpu = p \/ p \notin Live \/ halted)

\* The code of a killed process does not keep the CPU (proc.c:140-145).
ZombieLeaves == (current_proc = NULL) ~> (current_proc # NULL \/ halted)

\* The processes as their programs see them.  Who waits for a key is told by the
\* state of the process here, not by the queue that process_key will look at.
WaitsFor(p) ==
    CASE state[p] = PS_STOPED               -> "key"
      [] state[p] = PS_WFCHILD              -> "child"
      [] state[p] \in {PS_RUNABLE, PS_IDLE} -> "nothing"
      [] OTHER                              -> "dead"
AsTasks == [p \in Live |-> [wait |-> WaitsFor(p), parent |-> parent[p], line |-> console[p]]]
Promise == INSTANCE TaskSystem WITH
    Names <- Slots, Idle <- idle_proc, None <- NULL, Lines <- Consoles,
    tasks <- AsTasks, running <- current_proc, shown <- current_console, stale <- dangling
TaskSystem == Promise!Spec
=============================================================================
