-------------------------------- MODULE KHeap --------------------------------
(***************************************************************************)
(* The kernel heap: heap.c over ordered_array.c, on memory words.  A block *)
(* or hole starts with a header (magic, is_hole, size) and ends with a     *)
(* footer (magic, header); the index lists the holes.  Sizes are in words  *)
(* of four bytes, and requests are whole words.                            *)
(*                                                                         *)
(* alloc and free trust what they read.  defect names the first call that  *)
(* met one of the situations in which heap.c leaves the heap wrong; calls  *)
(* on a heap with a defect are not looked at.                              *)
(***************************************************************************)
EXTENDS Integers, Sequences, FiniteSets, SequencesExt

CONSTANTS
    START,           \* start_address, on a page boundary
    VMM_PAGE_SIZE,   \* words of a page (0x1000 bytes)
    HEAP_MIN_PAGES,  \* pages of HEAP_MIN_SIZE, which has 112
    INITIAL_PAGES,   \* pages of the heap that create_heap is given
    FRAME_PAGES,     \* pages of the heap there are frames for
    Requests,        \* bound: the sizes asked for
    Aligned,         \* bound: whether page-aligned blocks are asked for
    MAX_LIVE         \* bound: blocks handed out at a time

HEADER == 3
FOOTER == 2
Overhead == HEADER + FOOTER

ASSUME HeapAssumption ==
    /\ VMM_PAGE_SIZE \in Nat /\ VMM_PAGE_SIZE >= Overhead
    /\ START \in Nat /\ START % VMM_PAGE_SIZE = 0 /\ START >= FOOTER
    /\ HEAP_MIN_PAGES \in Nat \ {0, 1} /\ INITIAL_PAGES \in Nat /\ INITIAL_PAGES >= HEAP_MIN_PAGES
    /\ FRAME_PAGES \in Nat /\ FRAME_PAGES >= INITIAL_PAGES
    /\ Requests \subseteq Nat \ {0} /\ Aligned \subseteq BOOLEAN
    /\ MAX_LIVE \in Nat

HEAP_MAGIC == 0 - 1          \* a word that no size or address equals
LIMIT == START + FRAME_PAGES * VMM_PAGE_SIZE
Words == START - FOOTER .. LIMIT - 1      \* with the end of the index's own area
HEAP_MIN_SIZE == HEAP_MIN_PAGES * VMM_PAGE_SIZE
None == [size |-> 0, align |-> FALSE]

VARIABLES
    mem,          \* the word at each address
    index,        \* the ordered array of holes
    end_address,
    mapped_end,   \* the first address above the heap that faults
    request,      \* the call of alloc in progress
    live,         \* the headers of the blocks that callers hold
    halted,       \* PANIC
    defect        \* history: what went wrong first

vars == <<mem, index, end_address, mapped_end, request, live, halted, defect>>

Defects == {"stale footer", "growth over a block", "cut too close", "sliver",
            "shrink below a block", "hole beyond the end"}

(***************************************************************************)
(* Memory                                                                  *)
(***************************************************************************)
Read(m, a) == IF a \in Words THEN m[a] ELSE 0
Header(m, a, hole, size) == [m EXCEPT ![a] = HEAP_MAGIC, ![a + 1] = hole, ![a + 2] = size]
Footer(m, a, header) == [m EXCEPT ![a] = HEAP_MAGIC, ![a + 1] = header]
IsHole(m, a) == Read(m, a + 1)
Size(m, a) == Read(m, a + 2)

\* Holes and blocks, and where each ends.
Holes == ToSet(index)
Segments == Holes \cup live
After(s) == s + Size(mem, s)

(***************************************************************************)
(* The ordered index, compared by the sizes in memory                      *)
(***************************************************************************)
SizeAt(m, ix, i) == Size(m, ix[i])
InsertPoint(m, ix, h) ==
    CHOOSE i \in 1 .. Len(ix) + 1 :
        /\ i = Len(ix) + 1 \/ SizeAt(m, ix, i) >= Size(m, h)
        /\ \A j \in 1 .. i - 1 : SizeAt(m, ix, j) < Size(m, h)
Inserted(m, ix, h) == InsertAt(ix, InsertPoint(m, ix, h), h)

\* remove_ordered_array; an index past the end drops the last item.
Removed(ix, i) == IF i > Len(ix) THEN Front(ix) ELSE RemoveAt(ix, i)
PositionOf(ix, h) == IF h \in ToSet(ix) THEN CHOOSE i \in DOMAIN ix : ix[i] = h ELSE Len(ix) + 1

(***************************************************************************)
(* alloc                                                                   *)
(***************************************************************************)
RoundDown(n) == (n \div VMM_PAGE_SIZE) * VMM_PAGE_SIZE      \* mutant
RoundUp(n) == ((n + VMM_PAGE_SIZE - 1) \div VMM_PAGE_SIZE) * VMM_PAGE_SIZE

\* What find_smallest_hole takes off a hole for the alignment.
Offset(h) == IF (h + HEADER) % VMM_PAGE_SIZE = 0 THEN 0
             ELSE VMM_PAGE_SIZE - ((h + HEADER) % VMM_PAGE_SIZE)
Fits(h, need, align) == Size(mem, h) - (IF align THEN Offset(h) ELSE 0) >= need
Fitting(need, align) == {i \in DOMAIN index : Fits(index[i], need, align)}
FirstFit(need, align) ==
    CHOOSE i \in Fitting(need, align) : \A j \in Fitting(need, align) : i <= j

\* A remainder too small for a hole stays with the block ...
SlackTaken(rest) == rest < Overhead

CutAtPage(h) == VMM_PAGE_SIZE - (h % VMM_PAGE_SIZE)     \* mutant: no room for the header
\* ... and a page-aligned block starts a header before the next page boundary.
Cut(h) == VMM_PAGE_SIZE - (h % VMM_PAGE_SIZE) - HEADER

FooterWithoutSlack(pos, size, len) == pos + HEADER + size    \* mutant: size is not raised
FooterOf(pos, size, len) == pos + len - FOOTER

\* The block for a request, cut from the hole at position i of the index.
Placed(i, size, align) ==
    LET hole  == index[i]
        whole == Size(mem, hole)
        rest0 == whole - (size + Overhead)
        len   == IF SlackTaken(rest0) THEN whole ELSE size + Overhead
        pos   == IF align THEN hole + Cut(hole) ELSE hole
        m1    == IF align THEN Footer(Header(mem, hole, 1, Cut(hole)), pos - FOOTER, hole) ELSE mem
        ix1   == IF align THEN index ELSE Removed(index, i)
        rest  == (IF align THEN whole - Size(m1, hole) ELSE whole) - len
        m2    == Footer(Header(m1, pos, 0, len), FooterOf(pos, size, len), pos)
        next  == pos + len
        m3    == Header(m2, next, 1, rest)
        m4    == IF next + rest - FOOTER < end_address
                 THEN Footer(m3, next + rest - FOOTER, next) ELSE m3
    IN  [block  |-> pos,
         mem    |-> IF rest # 0 THEN m4 ELSE m2,
         index  |-> IF rest # 0 THEN Inserted(m4, ix1, next) ELSE ix1,
         defect |-> IF align /\ Cut(hole) < Overhead THEN "cut too close"
                    ELSE IF rest \in 1 .. Overhead - 1 THEN "sliver"
                    ELSE "none"]

Sound == ~halted /\ defect = "none"

\* kmalloc, sys_malloc: a new call of alloc, or the one in progress again.
Calls(size, align) ==
    /\ Sound
    /\ request \in {None, [size |-> size, align |-> align]}
    /\ Cardinality(live) < MAX_LIVE
NoFit(size, align) == Fitting(size + Overhead, align) = {}

\* A hole is found.
alloc_place(size, align) ==
    /\ Calls(size, align) /\ ~NoFit(size, align)
    /\ LET r == Placed(FirstFit(size + Overhead, align), size, align)
       IN  /\ mem' = r.mem
           /\ index' = r.index
           /\ live' = live \cup {r.block}
           /\ defect' = r.defect
    /\ request' = None
    /\ UNCHANGED <<end_address, mapped_end, halted>>

\* None is: expand, then the hole with the highest address gets the new pages,
\* or they become a hole when there is none; alloc calls itself again.
NewEnd(size) == START + RoundUp(end_address - START + size + Overhead)
HighestHole == CHOOSE h \in ToSet(index) : \A g \in ToSet(index) : g <= h

\* The new pages are in other frames than before: their words are unknown.
Fresh(m, top) == [a \in Words |-> IF a \in end_address .. top - 1 THEN 0 ELSE m[a]]

alloc_grow(size, align) ==
    LET top  == NewEnd(size)
        more == top - end_address
        hole == IF index = <<>> THEN end_address ELSE HighestHole
        len  == IF index = <<>> THEN more ELSE Size(mem, hole) + more
    IN  /\ Calls(size, align) /\ NoFit(size, align)
        /\ top <= LIMIT /\ end_address % VMM_PAGE_SIZE = 0
        /\ \E m \in {mem, Fresh(mem, top)} :
             /\ mem' = Footer(Header(m, hole, 1, len), hole + len - FOOTER, hole)
             /\ index' = IF index = <<>> THEN <<hole>> ELSE index
        /\ defect' = IF hole + len # top THEN "growth over a block" ELSE "none"
        /\ end_address' = top /\ mapped_end' = top
        /\ request' = [size |-> size, align |-> align]
        /\ UNCHANGED <<live, halted>>

\* vmm_alloc_page finds no frame, or vmm_create_page an address that is on no
\* page boundary.
alloc_panic(size, align) ==
    /\ Calls(size, align) /\ NoFit(size, align)
    /\ NewEnd(size) > LIMIT \/ end_address % VMM_PAGE_SIZE # 0
    /\ halted' = TRUE
    /\ UNCHANGED <<mem, index, end_address, mapped_end, request, live, defect>>

(***************************************************************************)
(* free                                                                    *)
(***************************************************************************)
ContractedToFit(n) == n                  \* mutant: no minimum
\* contract rounds by the page bit of the size, not by the offset in the page.
Contracted(n) ==
    LET odd == IF (n \div VMM_PAGE_SIZE) % 2 = 1 THEN 2 * VMM_PAGE_SIZE ELSE n
    IN  IF odd < HEAP_MIN_SIZE THEN HEAP_MIN_SIZE ELSE odd

\* It unmaps page after page from the top, but not the one above the new end.
Unmapped(new) ==
    IF end_address - START - VMM_PAGE_SIZE > new THEN START + RoundUp(new + 1) ELSE mapped_end

LeftUnmerged(m, header) == FALSE         \* mutant: what lies before is not looked at
LeftAny(m, header) == Read(m, header - FOOTER) = HEAP_MAGIC      \* mutant: hole or not
LeftHole(m, header) ==
    Read(m, header - FOOTER) = HEAP_MAGIC /\ IsHole(m, Read(m, header - FOOTER + 1)) = 1
RightHole(m, after) == Read(m, after) = HEAP_MAGIC /\ IsHole(m, after) = 1

MergedStays(ix, h) == ix                 \* mutant: the merged hole stays in the index
MergedLeaves(ix, h) == Removed(ix, PositionOf(ix, h))

\* What free leaves behind of the block at header.
Freed(block) ==
    LET m1     == [mem EXCEPT ![block + 1] = 1]
        foot   == block + Size(m1, block) - FOOTER
        left   == LeftHole(m1, block)
        header == IF left THEN Read(m1, block - FOOTER + 1) ELSE block
        m2     == IF left THEN [m1 EXCEPT ![foot + 1] = header,
                                          ![header + 2] = @ + Size(m1, block)] ELSE m1
        after  == foot + FOOTER
        right  == RightHole(m2, after)
        m3     == IF right THEN [m2 EXCEPT ![header + 2] = @ + Size(m2, after)] ELSE m2
        last   == IF right THEN after + Size(m2, after) - FOOTER ELSE foot
        ix1    == IF right THEN MergedLeaves(index, after) ELSE index
        atEnd  == last + FOOTER = end_address
        old    == end_address - START
        new    == IF atEnd THEN Contracted(header - START) ELSE old
        keep   == Size(m3, header) - (old - new)
        m4     == IF atEnd /\ keep # 0
                  THEN Footer([m3 EXCEPT ![header + 2] = keep], header + keep - FOOTER, header)
                  ELSE m3
        ix2    == IF atEnd /\ keep = 0 /\ after \in ToSet(ix1)
                  THEN Removed(ix1, PositionOf(ix1, after)) ELSE ix1
    IN  [mem    |-> m4,
         index  |-> IF left THEN ix2 ELSE Inserted(m4, ix2, header),
         end    |-> START + new,
         mapped |-> IF atEnd THEN Unmapped(new) ELSE mapped_end,
         defect |-> IF left /\ header \notin Segments THEN "stale footer"
                    ELSE IF right /\ after >= end_address THEN "hole beyond the end"
                    ELSE IF atEnd /\ keep <= 0 THEN "shrink below a block"
                    ELSE IF atEnd /\ keep < Overhead THEN "sliver"
                    ELSE "none"]

\* kfree, sys_free of a block that its caller holds.  Above mapped_end the CPU
\* may still hold the translation, which vmm_free_page does not flush.
free(block) ==
    /\ Sound /\ request = None /\ block \in live
    /\ LET r == Freed(block)
       IN  /\ mem' = r.mem /\ index' = r.index
           /\ end_address' = r.end /\ mapped_end' = r.mapped
           /\ defect' = r.defect
    /\ live' = live \ {block}
    /\ UNCHANGED <<request, halted>>

\* Or the test for a hole behind the last block faults.
free_fault(block) ==
    /\ Sound /\ request = None /\ block \in live /\ After(block) >= mapped_end
    /\ halted' = TRUE
    /\ UNCHANGED <<mem, index, end_address, mapped_end, request, live, defect>>

Stopped == ~Sound /\ UNCHANGED vars

(***************************************************************************)
(* Specification                                                           *)
(***************************************************************************)
\* create_heap writes the header of the one hole and no footer.
Init ==
    /\ end_address = START + INITIAL_PAGES * VMM_PAGE_SIZE
    /\ mapped_end = end_address
    /\ mem = Header([a \in Words |-> 0], START, 1, INITIAL_PAGES * VMM_PAGE_SIZE)
    /\ index = <<START>>
    /\ request = None /\ live = {}
    /\ halted = FALSE /\ defect = "none"

Next ==
    \/ \E size \in Requests, align \in Aligned :
         alloc_place(size, align) \/ alloc_grow(size, align) \/ alloc_panic(size, align)
    \/ \E block \in live : free(block) \/ free_fault(block)
    \/ Stopped

Spec == Init /\ [][Next]_vars

(***************************************************************************)
(* Properties                                                              *)
(***************************************************************************)
\* Every variable has its type; the heap keeps its minimum and its pages.
TypeOK ==
    /\ mem \in [Words -> Int]
    /\ index \in Seq(Int) /\ live \subseteq Int
    /\ end_address \in START + HEAP_MIN_SIZE .. LIMIT
    /\ mapped_end \in end_address .. LIMIT
    /\ request.align \in BOOLEAN /\ request.size \in Requests \cup {0}
    /\ halted \in BOOLEAN /\ defect \in Defects \cup {"none"}

\* As long as none of the named situations was met, holes and blocks tile the
\* heap: from start_address each ends where the next one begins and one ends at
\* end_address, so that no block overlaps another and no memory is lost; the
\* index has each hole once; the heap ends on a page boundary, which the next
\* expand insists on.
Tiled ==
    defect = "none" =>
        /\ end_address % VMM_PAGE_SIZE = 0
        /\ \A i, j \in DOMAIN index : index[i] = index[j] => i = j
        /\ Holes \cap live = {}
        /\ START \in Segments
        /\ \A s \in Segments : /\ Read(mem, s) = HEAP_MAGIC
                               /\ Size(mem, s) >= Overhead
                               /\ After(s) \in Segments \cup {end_address}
                               /\ \A t \in Segments : After(s) = After(t) => s = t
        /\ \A h \in Holes : IsHole(mem, h) = 1
        /\ \A b \in live : IsHole(mem, b) = 0

\* What free relies on: a block's own footer names its header.
BlockFooters ==
    defect = "none" =>
        \A b \in live : LET foot == b + Size(mem, b) - FOOTER
                        IN  mem[foot] = HEAP_MAGIC /\ mem[foot + 1] = b

\* No two holes touch: what was freed side by side is one hole.
Coalesced == defect = "none" => \A h \in Holes : After(h) \notin Holes

\* What the callers hold is theirs: no call for one block writes to a word of
\* another, its header and footer included.
OthersKept ==
    defect' = "none" =>
        \A b \in live \cap live' : \A a \in b .. After(b) - 1 : mem'[a] = mem[a]
BlocksKept == [][OthersKept]_vars

\* A block has the room that was asked for, and starts a page when that was.
Granted ==
    \A b \in live' \ live : \A size \in Requests, align \in Aligned :
        alloc_place(size, align) /\ defect' = "none" =>
            Size(mem', b) >= size + Overhead /\ (align => (b + HEADER) % VMM_PAGE_SIZE = 0)
GrantsRequest == [][Granted]_vars

\* alloc calls itself again after it grew the heap: without alignment once is
\* enough, so the recursion ends.
GrowthSuffices ==
    Sound /\ request # None /\ ~request.align => ~NoFit(request.size, FALSE)

\* The heap as its callers see it: the words of each block between its tags.
Held == [p \in {b + HEADER : b \in live} |->
            [a \in p .. After(p - HEADER) - FOOTER - 1 |-> Read(mem, a)]]
Promise == INSTANCE HeapSpec WITH
    blocks <- Held, intact <- (defect = "none"),
    Space <- START .. LIMIT - 1, PAGE <- VMM_PAGE_SIZE
HeapSpec == Promise!Spec
==============================================================================
