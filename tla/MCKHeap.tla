------------------------------- MODULE MCKHeap -------------------------------
(***************************************************************************)
(* The heap on four pages of eight words.                                  *)
(***************************************************************************)
EXTENDS KHeap

\* heap.h:29 calls the second word of a footer "Pointer to the block header":
\* the footer that ends a hole would name that hole.
HoleFooters ==
    defect = "none" =>
        \A h \in Holes : LET foot == After(h) - FOOTER
                         IN  mem[foot] = HEAP_MAGIC => mem[foot + 1] = h
==============================================================================
