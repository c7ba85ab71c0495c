------------------------------ MODULE ListSpec ------------------------------
(***************************************************************************)
(* What list.c promises its callers (the scheduler, process_key, sys.c): a *)
(* list is a sequence of pointers, and each operation returns what it      *)
(* would on that sequence.                                                 *)
(***************************************************************************)
EXTENDS Integers, Sequences, SequencesExt

CONSTANTS Values,      \* the pointers kept in the list
          MAX_ITEMS    \* bound: items that exist at a time

VARIABLES list,        \* the values, front first
          result       \* what the last operation returned; 0 is the null pointer

Init == list = <<>> /\ result = 0

PushBack(v) ==
    /\ Len(list) < MAX_ITEMS
    /\ list' = Append(list, v)
    /\ result' = v

PopFront ==
    \/ list = <<>> /\ result' = 0 /\ UNCHANGED list
    \/ list # <<>> /\ result' = Head(list) /\ list' = Tail(list)

GetValue(n) ==
    /\ result' = IF n < Len(list) THEN list[n + 1] ELSE 0
    /\ UNCHANGED list

Delete(v) == list' = RemoveFirst(list, v) /\ UNCHANGED result

Next ==
    \/ \E v \in Values : PushBack(v) \/ Delete(v)
    \/ PopFront
    \/ \E n \in 0 .. MAX_ITEMS : GetValue(n)

Spec == Init /\ [][Next]_<<list, result>>
=============================================================================
