------------------------------ MODULE HeapSpec ------------------------------
(***************************************************************************)
(* What heap.c promises to the callers of kmalloc and kfree (processes and *)
(* their stacks, page directories, program images, list items, the         *)
(* malloc of user mode): a block is memory that nobody else has, it has    *)
(* the room and the alignment that were asked for, and what was written to *)
(* it stays there until it is freed.  The promise ends with the first call *)
(* that finds the tags of the heap other than heap.c believes them to be.  *)
(***************************************************************************)
EXTENDS Integers

CONSTANTS Space,       \* the addresses that the heap may have
          PAGE,        \* words of a page
          Requests, Aligned

VARIABLES blocks,      \* for each block, by its address, the words in it
          intact

Init == blocks = [p \in {} |-> 0] /\ intact = TRUE

Malloc(size, align) ==
    \E p \in DOMAIN blocks' \ DOMAIN blocks :
        /\ blocks = [q \in DOMAIN blocks' \ {p} |-> blocks'[q]]
        /\ p .. p + size - 1 \subseteq DOMAIN blocks'[p]
        /\ DOMAIN blocks'[p] \subseteq Space
        /\ \A q \in DOMAIN blocks : DOMAIN blocks[q] \cap DOMAIN blocks'[p] = {}
        /\ align => p % PAGE = 0

Free(p) == blocks' = [q \in DOMAIN blocks \ {p} |-> blocks[q]]

Misled == intact' = FALSE

Next ==
    /\ intact
    /\ \/ Misled
       \/ /\ UNCHANGED intact
          /\ \/ \E size \in Requests, align \in Aligned : Malloc(size, align)
             \/ \E p \in DOMAIN blocks : Free(p)

Spec == Init /\ [][Next]_<<blocks, intact>>
=============================================================================
