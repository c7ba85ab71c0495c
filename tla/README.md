# A TLA+ verification project for puzzleOS

puzzleOS is a small multitasking kernel for one i386 CPU: virtual consoles with
a shell each, round-robin scheduling on the timer, a handful of system calls on
`int 0x30`, a heap with an ordered index of holes, paging, and a RAM disk. This
directory holds TLA+ models of it, the TLC runs that check them and the
TLAPS proofs about them. `PROJECT.json` lists runs, properties, mutants,
hazards and theorems, and maps every definition to the lines it stands for.

Run TLC with `tlc -config <run>.cfg <module>` and the prover with
`tlapm <module>.tla`.

## 1. The system

| component (source) | state | operations | who calls it |
|---|---|---|---|
| processes, scheduler (`proc.c`) | `procs_list`, `current_proc`, each `proc_t`: pid, state, parent, console, context, page directory | `create_proc`, `get_proc`, `kill_proc`, `shedule`, `switch_task` | system calls, timer gate |
| system calls (`sys.c`, `syscalls.c`, `isrs.s`) | `reshedule` | exit, putch, getch, getpid, exec, waitpid, malloc, free, kill, ps | user programs through `int 0x30` |
| consoles (`console.c`) | per console: cells, cursor, `inbuffer.pos`, `io_queue`; `current_console` | `console_write`, `set_console`, `process_key` | putch, `kprintf`, keyboard |
| keyboard (`kbd.c`, `keymap.h`) | shift, ctrl, alt bits | scan code to key | irq 1 |
| lists (`list.c`) | ends, count, items | push back, pop front, get value, delete | scheduler, consoles |
| heap (`heap.c`, `ordered_array.c`) | blocks and holes with boundary tags, index sorted by size, end address | alloc, free, expand, contract | everyone |
| frames (`pmm.c`), pages (`vmm.c`, `paging.c`) | bitmap of frames; directories and tables | allocate, free, map | boot, exec, heap |
| program loading (`exec.c`) | none | image into the heap, process, five mapped pages | exec, boot |
| file system, RAM disk (`fs.c`, `rd.c`, `rdgen`) | image of headers and data | find, read; `rdgen` writes the image | exec |
| interrupts (`idt.c`, `irqs.s`, `interrupts.c`, `pic.c`, `exeptions.c`) | gates, handler table, masks | dispatch, end of interrupt, panic on an exception | CPU |
| ATAPI (`atapi.c`, `hd.c`) | controller registers, packet buffers | packet command, read | nobody (the call in `kernel.c:45` is commented out) |
| boot (`startup.s`, `kernel.c`) | order of the initialisations | | |
| user library and programs (`puzzlestd`, `apps`) | `gets` buffer | shell, kill, ps, ... | |

How they interact. Handlers run to their end with interrupts off (every gate is
an interrupt gate), so the kernel has no preemption inside itself; what
interleaves is *handlers*: a tick, a key or any system call of any process may
come next. A reader blocks by joining the queue of its console (`sys_getch`) and
is completed later by the keyboard interrupt, which writes the character into
the saved `eax` (`process_key`); a parent blocks in `exec(file, 1)` or
`waitpid` and is completed by `kill_proc` of a child. Both wakeups go through
raw pointers (`parent`, the queue entries) that nothing clears when a process is
killed.

What is hard: wakeups through stale pointers; a call that returns before its
answer is known; the window in which `current_proc` is null while dead code runs
on; pids that are a count; the round robin done by rotating a list that others
change; boundary tags, in-place resizing and rounding in the heap; the boot
that relies on the order in which frames are handed out.

What makes each part correct. *Scheduler*: the CPU is only with a live process
that may run, on a page directory that is not freed, and nobody starves.
*Waits*: a waiter is where its event will look for it, is woken by that event
only, and a call completes with an answer. *Lists*: a sequence, whatever the
order of calls. *Heap*: blocks do not overlap, holes and blocks tile the heap,
the index is the set of holes. *Frames and pages*: a frame is mapped
once in the kernel's own pages and marked as used, the kernel's part of every directory is the same. *RAM disk*: what `rdgen` packed
is found and read, never beyond the file. *Consoles*: the cursor stays on the
screen, the line counter and the reader's buffer agree. *Interrupts*: an
interrupt is acknowledged once. *ATAPI*: a command ends in data or an error and
gives its buffer back.

## 2. Modules

| module | what it is |
|---|---|
| `TaskSystem` | what the kernel promises to programs: tasks that are ready, or wait for a key or a child |
| `Proc` | processes, scheduler, system calls and the keyboard's half of getch; implements `TaskSystem` |
| `MCProc` | what the kill program tells its user, for the instances of `Proc` |
| `ListSpec` | what `list.c` promises: a sequence of pointers |
| `DList` | `list.c` item by item; implements `ListSpec` |
| `MCDList` | the values of the instance of `DList` |
| `HeapSpec` | what `heap.c` promises to the callers of `kmalloc` and `kfree`: disjoint blocks that keep their words |
| `KHeap` | the kernel heap and its ordered index on memory words; implements `HeapSpec` until the first defect |
| `MCKHeap` | what `heap.h` says of footers, for the instance of `KHeap` |
| `Tty` | from the key to the line of the shell: modifiers, cursor and cells, chip registers, `gets` |
| `RamDisk` | the image that `rdgen` writes, and how the kernel reads it (operators) |
| `Loader` | frames, identity map, placement allocator, pages of the heap, `exec` and the memory of a process |
| `MCLoader` | the files of the instance of `Loader` |
| `Gates` | boot order, interrupt controllers, handler table, frames pushed and popped by the gates |
| `Atapi` | the ATAPI driver against external drives |
| `Lemmas` | lemmas about sequences without duplicates and the operators on them, division by the size of a page, and the values of recursive functions |
| `ProcProofs` | the kernel invariant, types, scheduler, bounded bypass; the invariant of the waits, wakeups; the refinement to `TaskSystem` |
| `DListProofs` | the links of `DList` and the refinement to `ListSpec` |
| `KHeapProofs` | the layout of the kernel heap, what each operation does to it, and the refinement to `HeapSpec` |
| `GatesProofs` | the handler table and masks of `Gates`, and the frames |
| `TtyProofs` | the Shift bit, the count of a line, the cursor and the frames of `Tty`, and the echo of a line |
| `LoaderProofs` | boot, frames and programs of `Loader`, for any files on the RAM disk |
| `AtapiProofs` | what the ATAPI driver may rely on at each place |

### Proc and TaskSystem

| model | code |
|---|---|
| `procs_list`, `current_proc`, `current_console` | the globals |
| `pid`, `state`, `parent`, `console`, `context` | fields of the `proc_t` in each slot; `context` is the saved user context, reduced to the call it is in and its `eax` |
| `cpu` | whose user code runs when no handler does |
| `cr3` | owner of the loaded page directory |
| `io_queue`, `pos` | fields of each console |
| `halted` | `PANIC` |
| `TimerTick` | `timer_irq` in `irqs.s`, with `shedule` and `switch_task` |
| `SysExit`, `SysExitRefused`, `SysExitFault`, `SysKill`, `SysKillSelf` | `sys_exit`, `sys_kill` with `kill_proc` and the dispatcher's store through `current_proc` |
| `SysExec`, `SysWaitpid`, `SysGetch` | the calls of those names, up to and including the switch |
| `KeyFunction`, `KeyAscii` | `process_key` |
| `UserFault`, `PanicLoop` | exceptions end in `panic`, which never returns |

User code is free: it may make any call at any time, which includes what
the shipped programs do. A slot is the address of a `proc_t`. `kfree` leaves the
bytes of a freed `proc_t` alone and the heap hands small blocks out again, so a
freed slot keeps its fields until a new process gets it: that is how a stale
`parent` or queue entry reaches the wrong process in the model as in the code.
The history variable `dangling` remembers the slots that were freed while a
pointer to them remained; the properties about wakeups except those slots,
because for them the code does go wrong (see the hazards at `proc.c:106` and
`proc.c:109`); everything else is claimed of them too.

When `kill_proc` removes the running process, `syscalls.c:34` stores the result
through a null pointer and the code of the dead process may go on. Reads and
writes there go to low memory or to freed blocks, so the model takes every
outcome: nothing happens, or an exception stops the kernel.

`TaskSystem` has neither list nor queues nor page directories: for each task it
says what the task waits for, who started it and on which line it is, and that the CPU goes to
a task that is ready whenever there is one. The mapping, `AsTasks`, takes the waits
from `state` and not from the queues, so that `Key`, which wakes exactly the tasks that wait for
a key on the line shown, is implemented only if the queues agree with the
states. `stale` is `dangling`: a key may also wake the bearer of a stale name, and
the bearer has the children of its predecessor. A shell or the idle task
never dies. `PANIC` is a stutter: the abstract system does not promise progress,
the liveness properties of `proc_consoles` do.

### DList and ListSpec

The items are heap addresses with `value`, `prev` and `next`; a freed item may
be handed out again with its old fields. The loops of `list_get_value` and
`list_get_item` take one step per item, so that an endless walk would be seen.
`chain` is a history variable: the addresses in the list. `DList` implements
`ListSpec` under the mapping `list <- <<value[chain[1]], ...>>`; the steps of the
loops are stutters. `Proc` uses lists in the form that `ListSpec` gives them
(`Append`, `RemoveFirst`, rotation by `Head` and `Append`).

### KHeap

| model | code |
|---|---|
| `mem` | the words of the heap's area, header (three words) and footer (two) of each block or hole among them |
| `index` | the items of the ordered array; the order is that of the sizes in memory when an item is put in, as in the code, which never sorts again |
| `end_address` | the field of `heap_t` |
| `mapped_end` | the first address above the heap that has no page: `contract` leaves one page more than the heap has |
| `request` | the arguments with which `alloc` calls itself after it grew the heap |
| `live` | history: the blocks that callers hold |
| `alloc_place`, `alloc_grow`, `alloc_panic` | `alloc`: a hole is found; none is and `expand` succeeds; `expand` finds no frame |
| `free`, `free_fault` | `free` with `contract`; the look behind the last block faults |

The heap trusts the words it reads, and there are calls after which those words
are wrong. `defect` names the first of six situations that a run met:

| defect | where |
|---|---|
| stale footer | `free` merges to the left through a footer whose header is no hole or block any more, because an earlier merge to the right did not update it (`heap.c:226`) |
| growth over a block | the highest hole is enlarged over the block that lies behind it (`heap.c:126`) |
| cut too close | the hole left in front of a page-aligned block has no room for its tags, or a negative size (`heap.c:167`) |
| sliver | the hole left behind a block, or at the end, is too small for its tags (`heap.c:189`, `heap.c:244`) |
| shrink below a block | `contract` puts the end below the last hole's header or on it (`heap.c:94`) |
| hole beyond the end | the merge to the right takes an old header above `end_address` (`heap.c:225`) |

All six are reachable in the run's instance. The invariants speak of the heap
before the first of them, which makes the table a list of *everything* that
goes wrong there within the bounds: any other way to break the tiling would be
reported. After a defect the model stops.

A caller sees none of this but the words of its blocks. `Held` maps the state to
`HeapSpec`: for each block in `live` the words between its tags; `intact` is
`defect = "none"`. `alloc_place` is `Malloc`, `free` is `Free`; growth and a
panic change no block and are stutters. In `HeapSpec` a step that finds a
defect promises nothing of the blocks.

Sizes are whole words. The code rounds no request, so other requests would only give
slivers and slack that differ by up to three bytes. `HEAP_MAGIC` equals
no size and no address, and memory that no call wrote does not hold it. The words
of a page that `expand` adds are either unknown or, if its frame comes back or is still mapped,
the old ones. The page above the heap may still be reached after
`vmm_free_page`, which does not flush the CPU's translations: `free` and
`free_fault` are both possible there.

### Tty

| model | code |
|---|---|
| `kbd_state` | the variable of `kbd.c`, as the set of its bits; `held` and `crossed` are history: the keys that are down |
| `x`, `y`, `pos` | `cursor` and `inbuffer.pos` of each console |
| `vga`, `crt_cursor`, `frame_buffer_addr` | video memory, the cursor register, the frame that is shown |
| `phase`, `str`, `line`, `eax` | the shell of each console: where it is, the pointer of `gets` and what it stored, the answer of getch |
| `KeyDown`, `ModifierDown`, `ModifierUp`, `FunctionKey` | `kbd_interrupt_handler` with `process_key`, by the kind of the key |
| `ShowPrompt`, `GetsChar`, `GetsEnter`, `Outputs` | the system calls of `psh.c` and `gets`, with the user code before them |

A whole `console_write` is one action, with its wrap, tab, backspace and scroll
by assignment on the cells of one frame. Words above the end of video memory are
not kept, so a console whose frame lies there loses its text, as consoles 8 and
9 of the real machine do. `EchoShows` names the cases in which the echo and the
line part (`odd`): Esc and Tab, a backspace at column 0, the output of a program.

### RamDisk and Loader

`RamDisk` has the image word by word (`Image`, from `rdgen/main.c`; `Ends` and
`Written` follow its two loops, one value for each turn), the offsets
that `rd_init` computes from the headers, `rd_finddir` with its special case
`dev`, and the cut of `rd_read`. `Loader` puts that image into physical memory
and goes from the first `kmalloc` to running programs:

| model | code |
|---|---|
| `placement_address`, `identity`, `index_pages` | the allocator before the heap; the frames that `vmm_init` maps |
| `used` | the bitmap of `pmm.c` |
| `heap`, `writeable`, `end_page`, `aligned` | the pages of the heap: their frames and bits, and `end_address` |
| `block` | which block has each page; the tags and the choice between holes are in `KHeap` |
| `mem` | physical memory, as far as the words of files go |
| `file`, `image`, `user`, `live` | of each process: its file, image block, mapped frames |
| `ConsoleInit` ... `CreateHeap` | `console_init` and `kmain` up to the heap, in their order |
| `Exec`, `Allocate`, `Expand`, `MapImage` | `exec`, with the four blocks it needs one after the other |
| `Kill` | what `kill_proc` gives back: the page directory's block, merged with the holes on both its sides, with `contract` when that hole ends the heap (`Reaches`) |
| `ExpandPanic`, `ProgramFault`, `KillFault` | the panics on the way; the last is the release of a directory that a shrink cut off |

`exec` maps frames by number, as if the image's block were physically
contiguous. It is at first, because the heap was made from frames in order. After
programs have been mapped and the heap has grown or shrunk it need not be, and
such a program runs on other memory. `ImageLoaded` therefore speaks of images
that are in consecutive frames (`Intact`), and says that for those the whole
way, from the file that `rdgen` packed to the program's pages, is right. For the same
reason `FrameOwner` speaks of the kernel's own mappings only: the pages of a program
behind its image may be frames of other blocks of the heap (`exec.c:33`).

The heap of `Loader` is taken as free of the situations named under KHeap (the
page-aligned cut of `heap.c:164-177`, stale footers, slivers): a hole that is free is
found and neighbours merge. The shrink below a block is the exception, as it takes
the frames of blocks in use.

### Gates

| model | code |
|---|---|
| `booted` | the calls of `puzzle_init` that were made, up to the first `iret` |
| `handlers` | `interrupt_handlers[]`, by name |
| `irr`, `in_service`, `primary_mask`, `secondary_mask` | the registers of the two controllers |
| `esp0` | the place where the processor pushes the next frame (`tss`) |
| `frame` | the frame in each place: the one `create_proc` builds, the one below it that a gate pushes, and the one below address 1024 |
| `esp`, `context`, `current_proc`, `state` | of `proc_t` |
| `regs`, `due` | the registers of the running program; history: what each process must find there |
| `stale` | history: the slots whose process was killed while it was in the queue of a console |
| `TimerIrq`, `KeyboardIrq`, `UnhandledIrq`, `Exeption` | the stubs of `irqs.s` and `isrs.s` with `pic_irq` and the handler |
| `SysReturns`, `SysBlocks`, `SysExec` | `isr_syscall`, by whether the call asks for a switch; `exec` with and without `wait` |
| `SysExit`, `SysExitRefused` | `exit`; for a child of the idle process `kill_proc` returns at once, and the caller only loses the processor |
| `SysKill` | `kill` of another process: its slot is free, its parent wakes if it waited, and no switch follows |

Which process runs next is any runnable one here, since the order is the subject
of `Proc`. A popped frame is set to `Garbage`: no code may read it again.

`kill_proc` leaves a reader in the queue of its console. When a key comes, `process_key`
stores it through the `context` of that entry, which by then may be of a new
process that never asked for a key. `KeyboardIrq` takes such entries too, and
`Resumes` grants that process a key in `eax` and nothing else.

### Atapi

The driver is a loop of port accesses, one step each, and the drive moves in
between. Any drive may be late to notice a command, or the last word of a packet or of
an answer: it then shows its old status for a while (`Starts`, `Notice`). The driver
reads the status right after its write (`atapi.c:68`, `131`, `243`, `259`), so each of its polls
may end before the drive is busy. The history variable `early` says that one did
since the last command, and `DataWhenReady` is claimed as long as none did: that
no other fault moves a word at the wrong time. What an early end leads to is the
run `atapi_poll`. A command that is given to a drive which is not done with the one before
makes it drop what it was doing; a packet command waits until the drive is not seen busy,
which is left to the caller (`SendPacket`). Answers have even
lengths; of an odd one the driver leaves the last byte in the drive.

## 3. Runs

| run | bounds | what it shows |
|---|---|---|
| `proc_safety` | 1 console, 4 slots, lines of 2 | types, list, CPU, page directory, answers of getch, exec's child, bounded bypass, the abstract task system (1 052 402 states) |
| `proc_consoles` | 2 consoles, 4 slots, lines of 1, queues of 2 | readers are queued, queues hold readers; a runnable process runs, a dead one loses the CPU; the abstract task system (136 838 states) |
| `proc_kill` | 1 console, 4 slots | expected violation: two processes share a pid and kill removes the first |
| `heap` | 3 pages of 8 words that may grow to 4, minimum 2; sizes 1 and 9, aligned or not; 2 blocks at a time | tiling, tags, coalescing, room and alignment of a block, the recursion of alloc, the abstract heap (1 055 886 states) |
| `heap_footer` | the same | expected violation: after a merge to the right the footer names the absorbed hole |
| `list` | 3 items, 2 values | links, cursors, termination, refinement (22 470 states) |
| `tty` | 2 consoles of 2 rows and 3 columns, tabs of 2, lines of 2, 9 words of video memory for 12, 4 characters typed, one key without a character in a line | cursor, scrolling, chip registers, echo against line, line counter, Shift (about 850 000 states) |
| `loader` | frames of 2 words, 36 of them; 11 pages of heap that may become 26; files of 5 and 2 words; 4 programs | identity map, owners of the kernel's frames, programs find their files (36 668 states) |
| `loader_readonly` | the same | expected violation: pages added to the heap are not writeable |
| `gates` | idle, a shell, a program; lines 0, 1 and 3 | every frame goes back to its owner, open lines have handlers, ticks and keys are answered, with deaths, the reuse of slots and readers killed in their queue (595 208 states) |
| `atapi` | 3 drives of 4 kinds, each late or not, 2 words of identification, packets of 2 or 3 words, answers of 2, 4 and 6 bytes for a buffer of 4, 2 packet buffers | words move when the drive is ready, unless a poll ended before it was busy; every operation ends (1 183 290 states) |
| `atapi_poll` | absent drives and disks | expected violation: the loop at `atapi.c:73` does not wait for what its comment says |

Why the bounds are enough. Shells are children of the idle process and cannot be
killed, so with one console and four slots there are a shell and two killable
programs beside idle: parent, child and grandchild, two children of one
parent, and a new process in a slot freed under a pointer. Two consoles let a key
go to the wrong one and leave one killable program. A line of two has an empty, a
partly filled and a full state. Three items have a first, a middle and a last.
In the heap a block of size 1 fits in a page with others and one of size 9 spans two pages;
two blocks and the holes around them have every case of a merge
(left, right, both, none, to the end), with pages to gain and pages to give back.
Two rows of three columns have a wrap, a tab stop inside and at the edge, a
scroll after every second line, and a line that wraps and scrolls away while it is
typed; with nine words the second console lies half above video memory. Memory
of 36 frames is used up by four programs, so `loader` grows the heap, shrinks
it, meets frames marked by `vmm_map_page` and the end of memory. With eleven pages at
first, a page table may go into an older hole while the last hole stays behind the
directory: the shrink through two merged holes happens as well as the direct one. Two processes beside
idle are enough for a frame to be popped by the wrong one, and for a program to be killed
as a reader, to be followed in its slot by another, and to meet the key of the first; line 3 stands for the
lines without driver, and the invariant `Handled` looks at all sixteen. Three drives have a
first, a middle and a last, and every order of two packet devices.
The safety properties of `proc_safety`, `proc_consoles`, `heap`, `list`, `tty`, `loader`, `gates`
and `atapi` are also proved for every value of the constants (section 4). `ChildWakeOnly`, `KeyWakeOnly` and
`BlocksKept` are steps of those proofs; the runs check `TaskSystem` and `HeapSpec`
instead, which promise a caller as much and more. `MAX_SLOTS` and `QUEUE_MAX`
bound what the code leaves unbounded; `MAX_ITEMS` likewise. Termination of
kernel steps after `PANIC` is no deadlock: `PanicLoop` is a step.

Fairness. `proc_consoles` assumes weak fairness of `TimerTick` only: the timer chip
keeps interrupting, and interrupts are on whenever user code runs. Nothing is
assumed of user programs, of the keyboard or of the order of system calls.
`list` assumes weak fairness of the steps inside an operation: a call that was
made runs on; that a caller calls is not assumed. `gates` assumes that boot goes
on, that a pending tick is taken at some next instruction with interrupts on,
and (strong fairness) that a key is taken if it is possible again and again: a
tick has precedence but comes every 55 ms, and its handler is shorter. `atapi`
assumes that the driver's loops run and that a busy drive answers some time.

## 4. Proofs

From `ConstantsAssumption` (at least one console, a line of at least one
character, more slots than consoles) for `Proc`, `ListAssumption` for `DList`,
`GatesAssumption` (the idle process is none of the shells) for `Gates`,
`HeapAssumption` (a page has room for a header and a footer; the heap starts on a page boundary,
not at 0; `HEAP_MIN_SIZE` is at least two pages, it is 112; requests are
not empty) for `KHeap`, `AtapiAssumption` (packets have at least one word; answers, and
the buffer for them, have even lengths) for `Atapi`, `TtyAssumption` (sizes are positive, modifiers are the four keys) for `Tty`, and
for `Loader` and `RamDisk`: `RamDiskAssumption` (files have names and lengths), `LoaderAssumption` (sizes
are positive, the ram disk lies on a page boundary, the kernel and the queues
of the consoles below it) and `MemoryAssumption` (the memory that `pmm_init`
counts on has room for all that is made at boot; no file is longer than the five pages
that `exec.c:34` maps). The code checks none of these last three; the machine and the
five programs of the repository satisfy them.

*Kernel invariant* (`ProcProofs`). `KernelInv` is `TypeOK`, `ListSound`, `CpuSound`,
`PageDirLive` and `IdleUnqueued`. The last is what makes it inductive: `process_key`
makes every entry of a queue runnable, stale ones included, and would make
the idle process a normal one if it were in a queue; it never is, because idle
makes no system call. `SwitchSound` covers `switch_task` from any handler,
`KillSound` covers `kill_proc`, and `KernelStep` goes through the handlers.
`TypeCorrect`, `ListKept`, `SchedulerSound` and `DirectoryLive` follow.

*Bounded bypass* (`NoStarvation`). `PassedOver` shows that a rotation brings a
runnable process that is not chosen closer to the front, `Positions` that
deletions and insertions do not push it back.

*Waits* (`ProcProofs`). `WaitInv` adds `WaiterQueued`, `QueueSound`, `GetchAnswered`,
`ExecHasChild` and `WaitContext` (who waits for a child is not in getch), which
`GetchAnswered` needs when `kill_proc` wakes a parent. `Undisturbed` is the frame: a
handler that only keeps, wakes or blocks processes in the listed ways preserves
the invariant; getch, exec and the keyboard have steps of their own. The
two action properties `ChildWakeOnly` and `KeyWakeOnly` follow from the same lemmas.

*Task system* (`TasksImplemented`). Each handler is a step of `TaskSystem` or a
stutter, from `WaitInv`. `Dispatches` is the abstract choice of `shedule`; it
needs that the idle process alone has the state `PS_IDLE`. In `SeenDie` the victim is
no shell because its parent's pid is not 0, which only the idle process has;
`SeenKey` is where `WaiterQueued` and `QueueSound` are needed both ways: each waiting task is in
the queue, and what is in the queue waits or has a stale name.

*Lists* (`DListProofs`). `ListInv` is `TypeOK`, `Linked`, `CursorSound` and `ArgSound`
(the argument of the operation in progress has its type). `ListRefines` maps
every step to a step of `ListSpec` or a stutter; a deletion needs `CursorSound`,
which says that the item found is the first with the value.

*Kernel heap* (`KHeapProofs`). `HeapInv` is `TypeOK`, `GrowthSuffices` and `HeapKept`: until a
defect is met, `Layout` holds of the memory, the holes, the blocks and the
end, no two holes touch, the index has each hole once and the heap ends on a
page. `Tiled` is not inductive, because `free` finds the hole to its left through a footer:
`Layout` says that a block's footer names the block, and that the footer of a hole names a
header inside that hole which still has the mark of a hole, or was never
written, and then the hole is the last. That is what the code keeps up:
`free` does not update the footer when it merges to the right, so a footer may name the
hole it was merged into or one absorbed later (run `heap_footer`), and only the second is the
defect "stale footer". Six lemmas say what a change of memory does to a layout: a hole
is split (`SplitHole`), becomes a block or a block a hole, two holes become one, the last
segment gets another end. `PlacedFront`, `PlacedAligned`, `GrowStep` and
`FreedSound` take `alloc` and `free` apart into these changes. Page arithmetic is by `DivMod`, for any
size of a page. The minimum of two pages is needed in `free`: `contract` may compute
one page more than the heap had, which then is less than the minimum.
`HeapImplements` is the refinement to `HeapSpec`. Its facts are `Layout`,
`BlocksKept` and `GrantsRequest`: the segments of a layout are disjoint, hence
so are the blocks (`ShownApart`); a step that keeps the words of the others
changes `Held` at one block only (`ShownSame`); and the block handed out was in
a hole, thus was nobody's (`PlacedNew`).

*Frames* (`GatesProofs`). `FrameInv` has two halves: while the kernel boots, every
process has the frame that `create_proc` makes, and gates push below address 1024;
after the first `iret` (`Scheduled`) the gate of the running process pushes into a
place of its own, and every other process that lives is `Parked`: its `esp` points
to a place that is its own and holds the frame it must find. `Parked` also says
that a blocked reader's `context` points to that same frame, without which a key
could be stored in another one. That places of two processes are disjoint
(`Apart`) does the rest. `ContextsMine` says it of dead processes too: the key for
a reader that was killed lands in the frame of its slot or nowhere that is read, and `Found`
is what the next process there may then find, until the result of a call or its own key
overwrites `eax` (`FoundFacts`). `SwitchSound` is `switch_task` from any gate, `ReturnSound`
a gate that pops the frame it pushed. *Handlers*: `TableInv` follows the boot
order; lines 2 to 7 are never opened, and line 2 closed closes the secondary controller.

*Terminal* (`TtyProofs`). Three invariants are inductive by themselves. `KbdInv` adds to
`ShiftTrue` that both keys are down only if `crossed`. `LineInv` says for each place
of the shell what `pos` and the pointer of `gets` differ by: nothing while it waits,
one while a character is on its way. `ScreenInv` has the cursors on the screen;
`FrameFacts` and `PlaceFacts` are the arithmetic that puts a cursor into its own
frame, and `ScreenStep` also gives `OneWritten`, from which `OneFrameOnly` follows.
`EchoInv` needs both `LineInv` and `ScreenInv`. It says of `EchoShows` what holds while a character
is on its way too: the cells are compared with the line and the pointer that `gets` will have
when it has stored that character or taken one back (`Text`, `Pointer`).
`CharacterDrawn` and `CharacterErased` say what a key does to the cells before the
cursor, a wrap and a scroll included, and `EchoKept` that other consoles do not matter.

*ATAPI* (`AtapiProofs`). `DriverInv` says what the driver may rely on. A drive with a
command has no word to move, and is busy only with a command (`DriveSound`). As long as no
poll ended early, at each place of the driver the drive has a given number of words
left, or has not answered yet (`PlaceSound`). Identifications are read from drives
that are there and commands go to the packet device (`UnitSound`). `PollEnded` is where the
condition `early` is used: if the drive has its command still, and is seen not busy, the poll was
early; so otherwise it has answered. `Transferred` and `Answer` are what a drive can do at a
word and between two accesses of the driver.

*Loading* (`LoaderProofs`). `LoaderInv` has four parts. `BootInv` says how far boot is:
frames are handed out in order, the identity map ends where the placement
allocator stands, and there are frames for what is left to do. `Taken` names
the frames that some operation finds (`FrameAt`, `TakenFrames`): they are free and
differ, which is all that a proof needs to know of the search through the bitmap. `HeapInv` says that
every page below the end has a frame of its own and every block lies in such pages;
`ProcInv` that each process has its blocks and frames. `DataSound` joins the three: the
ram disk is as it was loaded, an intact image has the words of its file, and
the frames that a program has mapped are those of its image. That images
stay right needs `IntactKept` and `LoadedKept`: an image that is whole after a step
was whole before it, although the heap may give pages back and get other
frames for them. `KillKeeps` has both ways in which a freed directory reaches the end of the heap,
as the last block and before a last hole; either way the new end is where the last hole of
the pages begins (`LastHoleFound`). `ImageWords` says that every word of a file is where its header
says, whatever the files are: `Ends` and `Written` are recursive functions, and their values
at one index follow from those at the one before (`Recursion`, `EndsValues`,
`WrittenValues`). `ReadWords` carries that through the copy of `rd_read`.

Only model-checked: `RunableRuns`, `ZombieLeaves`, `Returns`, `Served` and `Ends`, because liveness under
fairness is beyond the prover. `NoStarvation` is the safety core of `RunableRuns`.

## 5. What the models leave out

*Between the models.* The heap, pages and images are not in `Proc`: creating a
process always succeeds while there is a slot. `kill_proc` passes `kfree` addresses in
the middle of the stacks' blocks, which may corrupt the heap; in `Proc` the only
trace of that is that the kernel may stop. The death of the running process by its
own `sys_kill`, and the store through the null `current_proc` after `sys_exit`, are in
`Proc` and not in `Gates`. What happens after the kernel stopped is not looked at.

*Heap.* The sum of a request and the size of the tags in 32 bits (`GrowthSuffices` is about requests
that do not wrap), pointers that are no block, the maximum address (which `expand` never
looks at, and which lies beyond the frames there are), and an index of more than 255 holes.

*Memory.* Page tables made after boot: `vmm_create_page` puts a new table into the
current directory only (`vmm.c:127`), so the heap of `Loader` stays within the tables of boot. The
kernel and the ram disk end below 4 MB, and the ram disk lies above the queues of the
consoles (`LoaderAssumption`): where the boot loader puts it is outside the repository. So is
what memory holds at power on: `proc_init` gets its list from the heap (`proc.c:28`) and no code sets
the fields of a `list_t`, so `DList` starts with the empty list of a page of zeroes. The variables of a program that lie
behind its file (`exec.c:23`). Words behind a full bitmap (`pmm.c:34`). Stores of programs.

*Terminal.* The release of a modifier that was not pressed (`kbd.c` toggles the bit on any release, and
the code of an extended key may end in the byte of a Shift), and what the Shift bit is after both keys
were down; Del, which restarts the machine whatever Ctrl and Alt are; a second
reader of the same console; Caps Lock and the like, which have no code.

*Interrupts.* The fields of the descriptors of `gdt.c` and `idt.c`, and exceptions inside the
kernel. `disable_interrupt` is never called.

*Not modelled.* `vsprintf.c` and `kprintf.c` (text formatting, from early
Linux kernels; nothing depends on the text), `hd.c` (its transfers are commented
out and nothing calls it), `rd_readdir`, `rd_write`, open and close of the file
system (no caller, or empty), `ps` and `getpid` (they change nothing), `ioports.c` and
`paging.c` (single instructions).

## 6. Plan

Every component that keeps state has a model, every safety property that a run
checks has a theorem, and lists, heap and scheduler implement an abstract
specification. Next:

1. The operators on words: the index of
   `remove_ordered_array` in eight bits, the search through a full bitmap, each with
   the condition under which the code is right, as theorems.
2. An abstract terminal (lines of text and a window) implemented by `Tty`.
