------------------------------- MODULE Loader -------------------------------
(***************************************************************************)
(* Memory from boot to a running program: the physical frames of pmm.c,    *)
(* the page tables of vmm.c, the placement allocator and the page          *)
(* allocation of heap.c, and exec.c, which loads a file of the ram disk    *)
(* and maps it at 0x400000.                                                *)
(*                                                                         *)
(* Interrupts are off in all of this: the steps are the loops and the      *)
(* calls of one thread.  The heap is seen by pages: a block takes whole    *)
(* pages, and what shares a page with other blocks (headers, proc_t, the   *)
(* stacks) is one page for each process.  The tags and the index are in    *)
(* KHeap, and the heap is taken here as free of the situations that KHeap  *)
(* names, in which a tag is written over or a hole lost (the page-aligned  *)
(* cut of heap.c:164-177 among them): a hole that is free is found, and    *)
(* neighbours merge.  Only the shrink below a block (heap.c:94-109) is     *)
(* here, for it takes the frames of blocks in use.                         *)
(***************************************************************************)
EXTENDS RamDisk, FiniteSets, SequencesExt

CONSTANTS
    PAGE,            \* words of a page and of a frame (0x1000 bytes)
    FRAMES,          \* pmm_max_frames: 20 MB, whatever the machine has
    KERNEL_END,      \* kernel_end, a word address
    QUEUES,          \* words of the queues that console_init allocates
    LOCATION,        \* where the boot loader puts the ram disk
    INDEX_PAGES,     \* pages of the index, at KHEAP_START
    HEAP_TABLES,     \* page tables of the initial heap (2)
    INITIAL_PAGES,   \* pages of KHEAP_INITIAL_SIZE after them
    HEAP_MIN_PAGES,  \* pages of HEAP_MIN_SIZE
    MAX_PAGES,       \* bound: pages of the heap; those of the tables made at boot
    USER_PAGES,      \* pages that exec maps (5, exec.c:34)
    MAX_PROCS,       \* bound: processes ever started
    Names            \* bound: the names that programs are called by

ASSUME LoaderAssumption ==
    /\ PAGE \in Nat \ {0} /\ {FRAMES, INDEX_PAGES, HEAP_TABLES, MAX_PAGES, USER_PAGES, MAX_PROCS} \subseteq Nat
    /\ {KERNEL_END, QUEUES, LOCATION} \subseteq Nat
    /\ LOCATION % PAGE = 0 /\ KERNEL_END + QUEUES <= LOCATION
    /\ {HEAP_MIN_PAGES, INITIAL_PAGES} \subseteq Nat \ {0}
    /\ HEAP_MIN_PAGES <= INITIAL_PAGES /\ INITIAL_PAGES <= MAX_PAGES

Frames == 0 .. FRAMES - 1
RdEnd == LOCATION + Len(Image)

\* The memory that pmm_init counts on is enough for all that is made at boot,
\* and no file is longer than the pages that exec maps.
ASSUME MemoryAssumption ==
    /\ RdEnd + (HEAP_TABLES + 8 + INDEX_PAGES + INITIAL_PAGES) * PAGE <= FRAMES * PAGE
    /\ \A i \in Inodes : Files[i].length <= USER_PAGES * PAGE

Aligned(a) == ((a + PAGE - 1) \div PAGE) * PAGE
PagesOf(words) == (words + PAGE - 1) \div PAGE
HeapPages == 0 .. MAX_PAGES - 1      \* page numbers from start_address
None == -1                           \* a page that is not present
DIR_PAGES == 2                       \* page_directory_t: tables, tables_phys
Hole == <<0, "hole">>

VARIABLES
    step,                 \* what the kernel is doing
    placement_address,
    identity,             \* frame of each page of table 0
    index_pages,          \* frames of the pages of the index
    used,                 \* the bits set in pmm_memory_map
    heap,                 \* frame of each page of the heap, or None
    writeable,            \* pages of the heap that user mode may write
    end_page, aligned,    \* end_address: the page it bounds, and whether on its boundary
    block,                \* what each page of the heap is part of
    mem,                  \* physical memory
    file, image, user,    \* of each process: its file, the first page of its image,
                          \* the frames of its USER_PAGES
    live,                 \* processes that were not killed
    halted

bootVars == <<placement_address, identity, index_pages>>
heapVars == <<used, heap, writeable, end_page, aligned>>
procVars == <<file, image, user, live>>
vars == <<step, bootVars, heapVars, block, mem, procVars, halted>>

Procs == 1 .. MAX_PROCS
Steps == {"console_init", "pmm_init", "kernel_dir", "identity", "heap_frames", "create_heap",
          "user", "image", "proc", "dir", "table", "map"}
Panic == halted' = TRUE /\ UNCHANGED <<step, bootVars, heapVars, block, mem, procVars>>
At(s) == ~halted /\ step = s

(***************************************************************************)
(* Frames                                                                  *)
(***************************************************************************)
\* pmm_get_free_frame: the first bit that is not set.
FreeFrame(u) == Min(Frames \ u)
Enough(n) == Cardinality(Frames \ used) >= n

\* vmm_alloc_page for n pages one after the other: the n lowest free frames.
Taken(n) ==
    [k \in 1 .. n |->
        CHOOSE f \in Frames \ used : Cardinality({g \in Frames \ used : g < f}) = k - 1]

\* Words of memory in the frames fs.
Cleared(m, fs) == [a \in DOMAIN m |-> IF a \div PAGE \in fs THEN Other ELSE m[a]]

(***************************************************************************)
(* Boot                                                                    *)
(***************************************************************************)
\* kmalloc_ex before there is a heap.
Place(words) == placement_address' = placement_address + words

\* console_init, still below the ram disk; then kmain goes on behind it.
ConsoleInit ==
    /\ At("console_init")
    /\ mem' = [a \in DOMAIN mem |-> IF a \in KERNEL_END .. KERNEL_END + QUEUES - 1 THEN Other ELSE mem[a]]
    /\ placement_address' = RdEnd
    /\ step' = "pmm_init"
    /\ UNCHANGED <<identity, index_pages, heapVars, block, procVars, halted>>

\* pmm_init: the map of frames.
PmmInit ==
    /\ At("pmm_init")
    /\ Place(1)
    /\ step' = "kernel_dir"
    /\ UNCHANGED <<identity, index_pages, heapVars, block, mem, procVars, halted>>

\* vmm_create_page_directory, and the tables of the heap's pages.
KernelDirectory ==
    /\ At("kernel_dir")
    /\ placement_address' = Aligned(Aligned(placement_address) + DIR_PAGES * PAGE + 1) + HEAP_TABLES * PAGE
    /\ step' = "identity"
    /\ UNCHANGED <<identity, index_pages, heapVars, block, mem, procVars, halted>>

\* The loop that maps what the kernel uses at its own address.  Its first round
\* allocates table 0, and that moves the bound of the loop.
PlacementBound == placement_address        \* mutant: without the page more
IdentityBound == placement_address + PAGE
MapIdentity ==
    /\ At("identity")
    /\ \/ /\ Len(identity) * PAGE < IdentityBound
          /\ IF identity = <<>> THEN placement_address' = Aligned(placement_address) + PAGE
                                ELSE UNCHANGED placement_address
          /\ identity' = Append(identity, FreeFrame(used))
          /\ used' = used \cup {FreeFrame(used)}
          /\ UNCHANGED step
       \/ /\ Len(identity) * PAGE >= IdentityBound
          /\ step' = "heap_frames"
          /\ UNCHANGED <<placement_address, identity, used>>
    /\ UNCHANGED <<index_pages, heap, writeable, end_page, aligned, block, mem, procVars, halted>>

\* vmm_alloc_page for the index and the heap; 20 MB are enough for that.
HeapFrames ==
    /\ At("heap_frames")
    /\ LET f == Taken(INDEX_PAGES + INITIAL_PAGES)
       IN  /\ index_pages' = SubSeq(f, 1, INDEX_PAGES)
           /\ heap' = [v \in HeapPages |-> IF v < INITIAL_PAGES THEN f[INDEX_PAGES + v + 1] ELSE None]
           /\ used' = used \cup ToSet(f)
    /\ writeable' = 0 .. INITIAL_PAGES - 1
    /\ step' = "create_heap"
    /\ UNCHANGED <<placement_address, identity, end_page, aligned, block, mem, procVars, halted>>

\* create_heap, with paging on: heap_t is the last thing that is placed.
CreateHeap ==
    /\ At("create_heap")
    /\ Place(1)
    /\ end_page' = INITIAL_PAGES
    /\ step' = "user"
    /\ UNCHANGED <<identity, index_pages, used, heap, writeable, aligned, block, mem, procVars, halted>>

(***************************************************************************)
(* exec: the file, then four blocks, then the pages at 0x400000            *)
(***************************************************************************)
New == Len(file)                     \* the process in the making
Wanted == CASE step = "image" -> IF NodeLength(file[New]) = 0 THEN 1 ELSE PagesOf(NodeLength(file[New]))
            [] step = "dir"   -> DIR_PAGES
            [] OTHER          -> 1
Allocating == step \in {"image", "proc", "dir", "table"} /\ ~halted
NextStep == CASE step = "image" -> "proc" [] step = "proc" -> "dir"
              [] step = "dir" -> "table"  [] step = "table" -> "map"

\* The holes that are long enough for the block, by their first pages; the
\* smallest of them are the candidates.
InHole(v) == v \in 0 .. end_page - 1 /\ block[v] = Hole
HoleLength(v) == Min({w \in v .. end_page : ~InHole(w)}) - v
Fitting == {v \in 0 .. end_page - 1 : InHole(v) /\ ~InHole(v - 1) /\ HoleLength(v) >= Wanted}
Candidates == {v \in Fitting : \A w \in Fitting : HoleLength(v) <= HoleLength(w)}

\* The physical word behind word w of the block at page v.
Physical(v, w) == heap[v + w \div PAGE] * PAGE + (w % PAGE)
ImageRead(m, v) ==
    LET f == file[New]
        loaded == {Physical(v, w) : w \in 0 .. ReadSize(f, 0, NodeLength(f)) - 1}
    IN  [a \in DOMAIN m |->
            IF a \in loaded
            THEN ReadWord(m, f, LOCATION, 0, CHOOSE w \in 0 .. NodeLength(f) - 1 : Physical(v, w) = a)
            ELSE m[a]]

\* fs_finddir found a node: the file, or dev.
Exec(name) ==
    /\ At("user")
    /\ FindDir(name) # NoNode
    /\ Len(file) < MAX_PROCS
    /\ file' = Append(file, FindDir(name))
    /\ step' = "image"
    /\ UNCHANGED <<bootVars, heapVars, block, mem, image, user, live, halted>>

\* kmalloc_ex from a hole; the image is read into its block, the others are
\* written by create_proc, vmm_create_page_directory and vmm_create_page.
Allocate(v) ==
    /\ Allocating
    /\ v \in Candidates
    /\ LET pages == v .. v + Wanted - 1
       IN  /\ block' = [w \in HeapPages |-> IF w \in pages THEN <<New, step>> ELSE block[w]]
           /\ mem' = IF step = "image" THEN ImageRead(mem, v)
                     ELSE Cleared(mem, {heap[w] : w \in pages})
    /\ image' = IF step = "image" THEN Append(image, v) ELSE image
    /\ step' = NextStep
    /\ UNCHANGED <<bootVars, heapVars, file, user, live, halted>>

\* expand: new pages get frames, and readonly (0) where writeable is expected.
ExpandedWriteable(pages) == writeable \ pages
Expand ==
    /\ Allocating
    /\ Fitting = {}
    /\ aligned /\ Enough(Wanted) /\ end_page + Wanted <= MAX_PAGES
    /\ LET pages == end_page .. end_page + Wanted - 1
           f == Taken(Wanted)
       IN  /\ heap' = [w \in HeapPages |-> IF w \in pages THEN f[w - end_page + 1] ELSE heap[w]]
           /\ used' = used \cup ToSet(f)
           /\ writeable' = ExpandedWriteable(pages)
    /\ end_page' = end_page + Wanted
    /\ UNCHANGED <<step, bootVars, aligned, block, mem, procVars, halted>>

\* vmm_create_page panics at an end_address on no page boundary, vmm_alloc_page
\* without a frame.
ExpandPanic ==
    /\ Allocating
    /\ Fitting = {}
    /\ ~aligned \/ ~Enough(Wanted)
    /\ Panic

\* vmm_map_page: USER_PAGES frames from the image's first one, whatever they
\* are, are marked and mapped.
InMemoryLoosely(f) == \A i \in DOMAIN f : f[i] <= FRAMES       \* mutant: > max for > max - 1
InMemory(f) == \A i \in DOMAIN f : f[i] <= FRAMES - 1
UserFrames(f) == [i \in 1 .. USER_PAGES |-> f + i - 1]
MapImage ==
    /\ At("map")
    /\ LET f == UserFrames(heap[image[New]])
       IN  \/ /\ InMemory(f)
              /\ used' = used \cup ToSet(f)
              /\ user' = Append(user, f)
              /\ live' = live \cup {New}
              /\ step' = "user"
              /\ UNCHANGED <<bootVars, heap, writeable, end_page, aligned, block, mem, file, image, halted>>
           \/ ~InMemory(f) /\ Panic

\* A program faults when it is dev, when its stack is in a page that expand
\* added, or when a page of its blocks is gone.
ProgramFault(p) ==
    /\ At("user") /\ p \in live
    /\ \/ file[p] = Dev
       \/ \A v \in HeapPages : block[v] = <<p, "proc">> => v \notin writeable
       \/ \A v \in HeapPages : block[v] # <<p, "image">>
    /\ Panic

(***************************************************************************)
(* kill_proc: of all the blocks only the page directory's is given back    *)
(***************************************************************************)
\* contract, when the hole that begins at page k reaches the end of the heap:
\* its header is in page k - 1, and bit 12 of that offset decides.  The pages
\* above the new size lose their frames.
MinimalEnd(k) == (k - 1) % 2 = 1 \/ k <= HEAP_MIN_PAGES
NewEnd(k) == IF MinimalEnd(k) THEN HEAP_MIN_PAGES ELSE k
Unmapped(k) == IF MinimalEnd(k) THEN HEAP_MIN_PAGES + 1 .. end_page - 1 ELSE k .. end_page - 1

\* vmm_free_page: the frame is free and the page is not present.
PresentStill(pages) == heap          \* mutant: the page still has its frame
NotPresent(pages) == [v \in HeapPages |-> IF v \in pages THEN None ELSE heap[v]]

Kept(p) == [v \in HeapPages |-> IF block[v] = <<p, "dir">> THEN Hole ELSE block[v]]
LastHole(b) == {v \in 0 .. end_page : \A w \in v .. end_page - 1 : b[w] = Hole}

\* free merges the directory with the holes on both its sides before it looks
\* at the end of the heap: the directory reaches it when it lies in the hole
\* that ends there.
Directory(p) == {v \in HeapPages : block[v] = <<p, "dir">>}
Reaches(p) == Directory(p) \cap Min(LastHole(Kept(p))) .. end_page - 1 # {}
Kill(p) ==
    /\ At("user") /\ p \in live /\ Directory(p) # {}
    /\ live' = live \ {p}
    /\ LET k == Min(LastHole(Kept(p)))
           pages == {v \in Unmapped(k) : heap[v] # None}
       IN  \/ /\ ~Reaches(p)
              /\ block' = Kept(p)
              /\ UNCHANGED <<heapVars, halted>>
           \/ /\ Reaches(p)
              /\ halted' = (~aligned /\ pages # {})      \* vmm_get_page's alignment check
              /\ used' = used \ {heap[v] : v \in pages}
              /\ heap' = NotPresent(pages)
              /\ end_page' = NewEnd(k)
              /\ aligned' = MinimalEnd(k)
              /\ block' = [v \in HeapPages |-> IF v < NewEnd(k) THEN Kept(p)[v] ELSE Hole]
              /\ UNCHANGED writeable
    /\ UNCHANGED <<step, bootVars, mem, file, image, user>>

\* A directory that a shrink cut off: kfree reads its header in a page that is
\* not present.
KillFault(p) ==
    /\ At("user") /\ p \in live /\ Directory(p) = {}
    /\ Panic

PanicLoop == halted /\ UNCHANGED vars

(***************************************************************************)
(* Specification                                                           *)
(***************************************************************************)
\* Paging is off, no frame is marked, and the ram disk is where the boot loader
\* put it.
Init ==
    /\ step = "console_init"
    /\ placement_address = KERNEL_END
    /\ identity = <<>> /\ index_pages = <<>>
    /\ used = {}
    /\ heap = [v \in HeapPages |-> None]
    /\ writeable = {} /\ end_page = 0 /\ aligned = TRUE
    /\ block = [v \in HeapPages |-> Hole]
    /\ mem = [a \in 0 .. FRAMES * PAGE - 1 |->
                IF a \in LOCATION .. RdEnd - 1 THEN Image[a - LOCATION + 1] ELSE Other]
    /\ file = <<>> /\ image = <<>> /\ user = <<>>
    /\ live = {}
    /\ halted = FALSE

Next ==
    \/ ConsoleInit \/ PmmInit \/ KernelDirectory \/ MapIdentity \/ HeapFrames \/ CreateHeap
    \/ \E name \in Names : Exec(name)
    \/ \E v \in HeapPages : Allocate(v)
    \/ Expand \/ ExpandPanic
    \/ MapImage
    \/ \E p \in Procs : ProgramFault(p) \/ Kill(p) \/ KillFault(p)
    \/ PanicLoop

Spec == Init /\ [][Next]_vars

(***************************************************************************)
(* Properties                                                              *)
(***************************************************************************)
Booted == step \notin {"console_init", "pmm_init", "kernel_dir", "identity", "heap_frames"}

\* Every variable has its type; no frame above the memory is marked.
TypeOK ==
    /\ step \in Steps
    /\ placement_address \in Nat
    /\ identity \in Seq(Frames) /\ index_pages \in Seq(Frames)
    /\ used \subseteq Frames
    /\ heap \in [HeapPages -> Frames \cup {None}]
    /\ writeable \subseteq HeapPages
    /\ end_page \in 0 .. MAX_PAGES /\ aligned \in BOOLEAN
    /\ block \in [HeapPages -> {Hole} \cup Procs \X {"image", "proc", "dir", "table"}]
    /\ mem \in [0 .. FRAMES * PAGE - 1 -> FileWords]
    /\ file \in Seq(Inodes \cup {Dev}) /\ image \in Seq(HeapPages) /\ user \in Seq(Seq(Frames))
    /\ live \subseteq Procs
    /\ halted \in BOOLEAN

\* When paging is switched on, all that the placement allocator has handed out,
\* and heap_t after it, is mapped at its own address: the loop gets the frames
\* in order although it moves its own bound (vmm.c:41-45, heap.c:49).
IdentityMapped ==
    /\ \A v \in DOMAIN identity : identity[v] = v - 1
    /\ Booted => placement_address <= Len(identity) * PAGE

\* No two pages of the kernel's own mappings (identity, index, heap) have the
\* same frame, and each of these frames is marked, whatever was mapped twice,
\* freed or left behind (pmm.c, vmm.c, heap.c:74-109).  The mappings at 0x400000
\* are not among them: exec.c:33-35 gives a program USER_PAGES frames from its
\* image's first one, and those behind the image are whatever blocks have them.
FrameOwner ==
    /\ \A v, w \in HeapPages : v # w /\ heap[v] # None => heap[v] # heap[w]
    /\ \A v \in HeapPages : heap[v] \notin ToSet(identity) \cup ToSet(index_pages)
    /\ ToSet(identity) \cup ToSet(index_pages) \cup {heap[v] : v \in HeapPages} \subseteq used \cup {None}

\* A live process sees its file at 0x400000, word for word, from the host's
\* image over the ram disk to its own pages, and no other block ever gets that
\* memory.  Only of a process that is Intact: the heap still has its image (a
\* shrink may cut it off), in frames that follow one another, which exec.c:35
\* takes for granted and nothing ensures.
Intact(p) ==
    LET n == PagesOf(NodeLength(file[p]))
    IN  \A i \in 0 .. n - 1 :
            /\ image[p] + i < end_page /\ block[image[p] + i] = <<p, "image">>
            /\ heap[image[p] + i] = heap[image[p]] + i
ImageLoaded ==
    \A p \in live : Intact(p) =>
        \A w \in 0 .. NodeLength(file[p]) - 1 :
            mem[user[p][w \div PAGE + 1] * PAGE + (w % PAGE)] = Word(file[p], w)

\* heap.h:38 asks "Should extra pages requested by us be mapped as read-only?",
\* and kernel.c:38 says no: every page of the heap is writeable.
ExtraWriteable == \A v \in 0 .. end_page - 1 : v \in writeable
=============================================================================
