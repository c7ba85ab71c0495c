------------------------------- MODULE Gates -------------------------------
(***************************************************************************)
(* The way into the kernel and back: the boot order of puzzle_init, the    *)
(* two interrupt controllers (pic.c), the table of handlers (interrupts.c) *)
(* and the assembly gates (irqs.s, isrs.s) that save the frame of the      *)
(* interrupted process, and leave through the frame of the next one.       *)
(*                                                                         *)
(* Every gate is an interrupt gate: from the entry to iret the interrupt   *)
(* flag is off, and nothing but a new request can happen.  So a gate with  *)
(* its handler is one action, and requests are actions of their own.       *)
(*                                                                         *)
(* The first gate after boot pushes its frame below address 1024, every    *)
(* later one below kernel_stack of the running process, which lies below   *)
(* the frame that create_proc made.  Both stacks of a process, and the     *)
(* shared stack at 0xFFFF that only a running handler uses, are disjoint.  *)
(*                                                                         *)
(* A process slot stands for a proc_t with both its stacks: a new process  *)
(* in the slot of a dead one has the memory of that one.  kill_proc leaves *)
(* a killed reader in its io_queue, so a later key goes through a pointer  *)
(* to a dead slot, or to the process that has the slot by then.            *)
(*                                                                         *)
(* Not here, but in Proc: which process shedule takes and which readers a  *)
(* key finds in which queue; a process that kills itself by sys_kill, and  *)
(* the store through the null current_proc after sys_exit.  Page           *)
(* directories are in Proc and Loader.                                     *)
(***************************************************************************)
EXTENDS Integers, FiniteSets

CONSTANTS
    Procs,       \* bound: process slots
    idle_proc,   \* the one made by proc_init
    Shells,      \* those made by kmain
    Raised,      \* bound: the lines that devices raise
    NULL         \* current_proc while there is none

ASSUME GatesAssumption ==
    /\ idle_proc \in Procs /\ Shells \subseteq Procs \ {idle_proc}
    /\ Raised \subseteq 0 .. 15 /\ NULL \notin Procs

VARIABLES
    booted,          \* steps of puzzle_init done, BOOTED after its iret
    halted,          \* why the kernel stopped in panic, "no" while it runs
    handlers,        \* interrupt_handlers[]
    irr, in_service, \* lines with a request, and with an answer not yet ended
    primary_mask, secondary_mask,  \* the bits set in the two mask registers
    current_proc, state, esp, context,  \* proc_t fields; esp, context: places
    esp0,            \* the place where the next gate pushes its frame (tss)
    frame,           \* the frame in each place
    regs,            \* the registers of the running program
    due,             \* history: what each process must find in its registers
    stale            \* history: slots whose reader was killed in its queue

boot == <<booted, handlers>>
pic == <<irr, in_service, primary_mask, secondary_mask>>
tasks == <<current_proc, state, esp, context, esp0, frame, regs, due, stale>>
vars == <<boot, halted, pic, tasks>>

Lines == 0 .. 15
Vectors == 0 .. 48
SPURIOUS == 7          \* the line of a request that was withdrawn
IRQ_START == 32
BOOTED == 7

Low == <<NULL, "low">>
Initial(p) == <<p, "initial">>
Entry(p) == <<p, "entry">>
Places == Procs \X {"initial", "entry"} \union {Low}

Running == booted = BOOTED /\ halted = "no"

-----------------------------------------------------------------------------
(* Interrupt controllers *)

\* Bits of an eight-bit register; a shift by eight or more leaves none.
Bit(n) == {n} \cap 0 .. 7

\* Every line number is below 0x28, so the primary controller is taken.
pic_enable_irq(irq) == primary_mask \ Bit(irq)

\* Mutant: the mask register keeps what 0x11 left, nothing.
MaskedNowhere == {}

\* The last write of pic_init; the secondary mask was cleared by 0x11.
MaskedByInit == 0 .. 7

\* The secondary controller answers through line 2 of the primary one.
Open(l) == IF l < 8 THEN l \notin primary_mask
                    ELSE 2 \notin primary_mask /\ l - 8 \notin secondary_mask
Rank(l) == IF l < 8 THEN 10 * l ELSE l + 12
Deliverable(l) ==
    l \in irr /\ Open(l) /\ \A s \in in_service : Rank(l) < Rank(s)
Delivered(l) == Deliverable(l) /\ \A k \in Lines : Deliverable(k) => Rank(l) <= Rank(k)

\* What an end of interrupt clears in a controller: the highest line in service.
Ended(lines) == {l \in lines : \A k \in lines : Rank(l) <= Rank(k)}

\* Mutant: only lines of the secondary controller are ended.
EndsForgotten(l) == IF l > 8 THEN {8 .. 15} ELSE {}

\* The ends of interrupt that pic_irq sends: to the secondary controller
\* only above line 8, to the primary one always.
EndsSent(l) == {0 .. 7} \union (IF l > 8 THEN {8 .. 15} ELSE {})

\* Answering line l sets its bit in service, and that of line 2 for the
\* secondary controller.
Acknowledge(l) ==
    LET begun == in_service \union {l} \union (IF l < 8 THEN {} ELSE {2})
    IN  /\ irr' = irr \ {l}
        /\ in_service' = begun \ UNION {Ended(begun \cap c) : c \in EndsSent(l)}
        /\ UNCHANGED <<primary_mask, secondary_mask>>

\* A device raises its line; a second edge before the answer is lost.
Raise(l) ==
    /\ halted = "no" /\ l \notin irr
    /\ irr' = irr \union {l}
    /\ UNCHANGED <<boot, halted, in_service, primary_mask, secondary_mask, tasks>>

-----------------------------------------------------------------------------
(* Gates *)

Frame(p) == [owner |-> p, at |-> 0, eax |-> "old"]
Garbage == Frame(NULL)
Pushed == [frame EXCEPT ![esp0] = regs]

\* The end of a gate; the words of a frame are not used again after iret.
Iret(fr, place) == regs' = fr[place] /\ frame' = [fr EXCEPT ![place] = Garbage]

\* What shedule may choose: a runnable process, or the idle one if none is.
Chosen(st) ==
    LET runable == {p \in Procs : st[p] = "runable"}
    IN  IF runable = {} THEN {idle_proc} ELSE runable

\* Mutant: the stack in the tss is that of the first process for ever.
OneEntryStack(p) == IF esp0 = Low THEN Entry(p) ELSE esp0

\* tss->esp0 = kernel_stack of the next process.
EntryStack(p) == Entry(p)

\* switch_task and the rest of the gate, for the fields es and cx and the
\* states st that the handler leaves: the frame of current_proc is kept where
\* the gate pushed it, in fr, and the frame of the next process is popped.
SwitchTask(current, fr, st, es, cx) ==
    LET old == IF current = NULL THEN {} ELSE {current}
    IN  \E next \in Chosen(st) :
          /\ esp' = [p \in Procs |-> IF p \in old THEN esp0 ELSE es[p]]
          /\ context' = [p \in Procs |-> IF p \in old THEN esp0 ELSE cx[p]]
          /\ esp0' = EntryStack(next)
          /\ current_proc' = next
          /\ state' = st
          /\ Iret(fr, esp'[next])

\* The handler of line 0 has no code; the gate switches tasks after it.
TimerIrq ==
    /\ Running /\ Delivered(0) /\ handlers[IRQ_START] = "timer"
    /\ Acknowledge(0)
    /\ SwitchTask(current_proc, Pushed, state, esp, context)
    /\ UNCHANGED <<boot, halted, due, stale>>

\* process_key gives its character to the entries of a queue, each in the
\* frame that its context points to; the gate pops the frame it pushed.  An
\* entry is a waiting reader, or was one that is dead.
Answer(fr, readers) ==
    [pl \in Places |-> IF \E p \in readers : context[p] = pl
                       THEN [fr[pl] EXCEPT !.eax = "key"] ELSE fr[pl]]
Readers == {p \in Procs : state[p] = "stoped"}
KeyboardIrq ==
    /\ Running /\ Delivered(1) /\ handlers[IRQ_START + 1] = "kbd"
    /\ Acknowledge(1)
    /\ \E entries \in SUBSET (Readers \union stale) :
         /\ Iret(Answer(Pushed, entries), esp0)
         /\ state' = [p \in Procs |-> IF p \in entries /\ state[p] # "none"
                                       THEN "runable" ELSE state[p]]
         /\ due' = [p \in Procs |-> IF p \in entries \cap Readers
                                     THEN [due[p] EXCEPT !.eax = "key"] ELSE due[p]]
    /\ UNCHANGED <<boot, halted, current_proc, esp, context, esp0, stale>>

\* dummy stops the kernel; so does a request withdrawn before its answer.
UnhandledIrq(l) ==
    /\ Running /\ handlers[IRQ_START + l] = "dummy"
    /\ \/ Delivered(l) /\ Acknowledge(l) /\ halted' = "unhandled"
       \/ l = SPURIOUS /\ UNCHANGED pic /\ halted' = "spurious"
    /\ UNCHANGED <<boot, tasks>>

\* An exception of user code, or an int whose gate is not of ring 3 (all but
\* 0x30): its handler prints the frame and stops the kernel.
Exeption ==
    /\ Running
    /\ {handlers[v] : v \in 0 .. IRQ_START - 1} \cap {"exeption", "page_fault"} # {}
    /\ halted' = "exeption"
    /\ UNCHANGED <<boot, pic, tasks>>

-----------------------------------------------------------------------------
(* System calls, int 0x30 *)

\* The dispatcher stores the result in the frame of the caller.
Context == [context EXCEPT ![current_proc] = esp0]
Result == [Pushed EXCEPT ![Context[current_proc]].eax = "result"]
DueResult == [due EXCEPT ![current_proc].eax = "result"]

\* A call that returns at once (no reshedule): the gate pops its own frame.
SysReturns ==
    /\ Running
    /\ Iret(Result, esp0) /\ context' = Context /\ due' = DueResult
    /\ UNCHANGED <<boot, halted, pic, current_proc, state, esp, esp0, stale>>

\* getch and waitpid.
SysBlocks(s) ==
    /\ Running /\ current_proc # idle_proc
    /\ SwitchTask(current_proc, Result, [state EXCEPT ![current_proc] = s], esp, Context)
    /\ due' = DueResult
    /\ UNCHANGED <<boot, halted, pic, stale>>

\* kill_proc returns at once for the idle process and for its children.
Protected == Shells \union {idle_proc}

\* The states after kill_proc of v: at most its parent wakes, if it waits.
AfterKill(v) ==
    {[p \in Procs |-> IF p = v THEN "none" ELSE IF p \in parent THEN "runable" ELSE state[p]] :
       parent \in {w \in SUBSET {p \in Procs : state[p] = "wfchild"} : Cardinality(w) <= 1}}

\* exit: current_proc is null, and its frame is not kept.
SysExit ==
    /\ Running /\ current_proc \notin Protected
    /\ \E st \in AfterKill(current_proc) : SwitchTask(NULL, frame, st, esp, Context)
    /\ UNCHANGED <<boot, halted, pic, due, stale>>

\* exit of a protected process: it only loses the processor.
SysExitRefused ==
    /\ Running /\ current_proc \in Shells
    /\ SwitchTask(current_proc, Result, state, esp, Context)
    /\ due' = DueResult
    /\ UNCHANGED <<boot, halted, pic, stale>>

\* kill of another process, without a reshedule; a killed reader stays in the
\* queue of its console.  (A refused kill, or one without such a process, is
\* SysReturns.)
SysKill(v) ==
    /\ Running /\ current_proc # idle_proc
    /\ v \notin Protected \union {current_proc} /\ state[v] # "none"
    /\ state' \in AfterKill(v)
    /\ stale' = stale \union ({v} \cap Readers)
    /\ Iret(Result, esp0) /\ context' = Context /\ due' = DueResult
    /\ UNCHANGED <<boot, halted, pic, current_proc, esp, esp0>>

\* exec: create_proc builds the first frame of the new process, and then the
\* caller waits, if it asked to.
SysExec(n, wait) ==
    /\ Running /\ current_proc # idle_proc /\ state[n] = "none"
    /\ LET born == [state EXCEPT ![n] = "runable"]
           es == [esp EXCEPT ![n] = Initial(n)]
           cx == [Context EXCEPT ![n] = Initial(n)]
           fr == [Result EXCEPT ![Initial(n)] = Frame(n)]
       IN  \/ /\ wait
              /\ SwitchTask(current_proc, fr, [born EXCEPT ![current_proc] = "wfchild"], es, cx)
           \/ /\ ~wait
              /\ state' = born /\ esp' = es /\ context' = cx
              /\ Iret(fr, esp0)
              /\ UNCHANGED <<current_proc, esp0>>
    /\ due' = [DueResult EXCEPT ![n] = Frame(n)]
    /\ UNCHANGED <<boot, halted, pic, stale>>

\* User code between two gates.
UserStep ==
    /\ Running
    /\ regs' = [regs EXCEPT !.at = 1 - @, !.eax = "old"]
    /\ due' = [due EXCEPT ![current_proc] = [owner |-> current_proc, at |-> 1 - @.at, eax |-> "old"]]
    /\ UNCHANGED <<boot, halted, pic, current_proc, state, esp, context, esp0, frame, stale>>

-----------------------------------------------------------------------------
(* Boot, with interrupts off until the iret *)

Step(n) == booted = n /\ booted' = n + 1 /\ UNCHANGED halted

\* 0x11 clears requests and masks of a controller.
PicInit ==
    /\ irr' = {} /\ in_service' = {}
    /\ primary_mask' = MaskedByInit /\ secondary_mask' = {}

\* gdt_init, tss_init, pic_init, idt_init.
ArchInit ==
    /\ Step(0) /\ PicInit
    /\ esp0' = Low
    /\ UNCHANGED <<handlers, current_proc, state, esp, context, frame, regs, due, stale>>

InterruptsInit ==
    /\ Step(1)
    /\ handlers' = [v \in Vectors |-> IF v < IRQ_START THEN "exeption" ELSE "dummy"]
    /\ primary_mask' = pic_enable_irq(0)
    /\ UNCHANGED <<irr, in_service, secondary_mask, tasks>>

\* A driver sets its handler and enables its line.
Driver(n, line, name) ==
    /\ Step(n)
    /\ handlers' = [handlers EXCEPT ![IRQ_START + line] = name]
    /\ primary_mask' = pic_enable_irq(line)
    /\ UNCHANGED <<irr, in_service, secondary_mask, tasks>>
ConsoleInit == Driver(2, 1, "kbd")
TimerInit == Driver(4, 0, "timer")

\* Vector 0x30 is no line; the gate calls the dispatcher, not the table.
SyscallsInit ==
    /\ Step(3)
    /\ primary_mask' = pic_enable_irq(16)
    /\ UNCHANGED <<handlers, irr, in_service, secondary_mask, tasks>>

KMain ==
    /\ Step(5)
    /\ handlers' = [handlers EXCEPT ![14] = "page_fault"]
    /\ current_proc' = idle_proc
    /\ state' = [p \in Procs |-> IF p = idle_proc THEN "idle"
                                 ELSE IF p \in Shells THEN "runable" ELSE "none"]
    /\ frame' = [pl \in Places |-> IF \E p \in Procs : pl = Initial(p)
                                   THEN Frame(pl[1]) ELSE frame[pl]]
    /\ UNCHANGED <<pic, esp, context, esp0, regs, due, stale>>

FirstIret ==
    /\ Step(6)
    /\ Iret(frame, esp[current_proc])
    /\ UNCHANGED <<handlers, pic, current_proc, state, esp, context, esp0, due, stale>>

-----------------------------------------------------------------------------
Init ==
    /\ booted = 0 /\ halted = "no" /\ handlers = [v \in Vectors |-> "none"]
    /\ irr = {} /\ in_service = {} /\ primary_mask = {} /\ secondary_mask = {}
    /\ current_proc = NULL /\ state = [p \in Procs |-> "none"]
    /\ esp = [p \in Procs |-> Initial(p)] /\ context = esp
    /\ esp0 = Low /\ frame = [pl \in Places |-> Garbage]
    /\ regs = Garbage /\ due = [p \in Procs |-> Frame(p)] /\ stale = {}

Boot == ArchInit \/ InterruptsInit \/ ConsoleInit \/ SyscallsInit \/ TimerInit
        \/ KMain \/ FirstIret
SysCall == SysReturns \/ SysExit \/ SysExitRefused
           \/ (\E s \in {"stoped", "wfchild"} : SysBlocks(s))
           \/ (\E v \in Procs : SysKill(v))
           \/ (\E n \in Procs, wait \in BOOLEAN : SysExec(n, wait))
Next ==
    \/ Boot
    \/ \E l \in Raised : Raise(l)
    \/ TimerIrq \/ KeyboardIrq
    \/ \E l \in Lines : UnhandledIrq(l)
    \/ Exeption \/ SysCall \/ UserStep
Spec == Init /\ [][Next]_vars

\* The boot goes on by itself; the processor answers a request at the next
\* instruction with interrupts on, and a key is not passed over for ever by
\* ticks, which are slower than their handler.
FairSpec == Spec /\ WF_vars(Boot) /\ WF_vars(TimerIrq) /\ SF_vars(KeyboardIrq)

-----------------------------------------------------------------------------
(* Properties *)

\* From the first iret on, a line that can interrupt has a handler of its own
\* (interrupts.c, kbd.c, timer.c set the handler and the mask separately), so
\* the kernel stops only for an exception or a request that was withdrawn.
Handled ==
    /\ halted # "unhandled"
    /\ booted = BOOTED => \A l \in Lines : Open(l) => handlers[IRQ_START + l] # "dummy"

\* A frame with the registers that are due; through the entry that a killed
\* reader left in its queue a key may still have changed eax.
Found(fr, d, hit) == fr = d \/ (hit /\ fr = [d EXCEPT !.eax = "key"])

\* The running program has its own registers: those it had at its last gate
\* (irqs.s, isrs.s, switch_task), with the result of its call or the key in
\* eax; and the frame of every other process waits where its esp points.  Only
\* a process in the slot of a killed reader may find a key in eax that it never
\* asked for (console.c:177-181); all its other registers are its own.
Resumes ==
    Running =>
      /\ current_proc \in Procs /\ Found(regs, due[current_proc], current_proc \in stale)
      /\ \A p \in Procs \ {current_proc} :
           state[p] # "none" => Found(frame[esp[p]], due[p], p \in stale)

\* A tick or a key that was raised is answered, unless the kernel stops: the
\* ends of interrupt (pic.c:41) leave no line blocked.
Served == \A l \in {0, 1} : l \in irr ~> (l \notin irr \/ halted # "no")

TypeOK ==
    /\ booted \in 0 .. BOOTED
    /\ halted \in {"no", "exeption", "spurious", "unhandled"}
    /\ handlers \in [Vectors -> {"none", "exeption", "page_fault", "dummy", "kbd", "timer"}]
    /\ irr \subseteq Raised /\ in_service \subseteq Lines
    /\ primary_mask \subseteq 0 .. 7 /\ secondary_mask \subseteq 0 .. 7
    /\ current_proc \in Procs \union {NULL}
    /\ state \in [Procs -> {"none", "idle", "runable", "stoped", "wfchild"}]
    /\ esp \in [Procs -> Places] /\ context \in [Procs -> Places] /\ esp0 \in Places
    /\ stale \subseteq Procs
    /\ frame \in [Places -> [owner : Procs \union {NULL}, at : 0 .. 1,
                             eax : {"old", "result", "key"}]]
=============================================================================
