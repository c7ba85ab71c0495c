------------------------------- MODULE DList --------------------------------
(***************************************************************************)
(* The doubly linked list of list.c, item by item: pointers, the two ends  *)
(* kept in list_t, and the items that kmalloc hands out and kfree takes    *)
(* back (a freed item keeps its fields and may be handed out again).  The  *)
(* loops of list_get_value and list_get_item take one step per item.       *)
(***************************************************************************)
EXTENDS Integers, Sequences, FiniteSets, SequencesExt

CONSTANTS Values,      \* the pointers kept in the list
          MAX_ITEMS    \* bound: list_item_t's that exist at a time

ASSUME ListAssumption == MAX_ITEMS \in Nat \ {0} /\ Values # {} /\ 0 \notin Values

NULL == 0
Items == 1 .. MAX_ITEMS          \* the addresses a list_item_t may have
NoValue == CHOOSE v \in Values : TRUE    \* what a fresh item's memory reads as

VARIABLES
    value, prev, next,     \* fields of the item at each address
    first_item, last_item, items_count,   \* fields of the list_t
    pc, item, i, arg,      \* the operation in progress, its cursor, counter, argument
    result,                \* what the last operation returned
    chain                  \* history: the items in the list, front first

fields  == <<value, prev, next>>
header  == <<first_item, last_item, items_count>>
cursor  == <<pc, item, i, arg>>
vars    == <<fields, header, cursor, result, chain>>

Free == Items \ ToSet(chain)

\* An empty list.  No code sets the fields of a list_t.  The queues of the
\* consoles (console.c:225) are in memory that the placement allocator zeroed
\* (heap.c:283); the process list (proc.c:28) comes from the heap, which does
\* not, and is taken as a page that was zero when the machine started.
Init ==
    /\ value = [x \in Items |-> NoValue]
    /\ prev = [x \in Items |-> NULL]
    /\ next = [x \in Items |-> NULL]
    /\ first_item = NULL /\ last_item = NULL /\ items_count = 0
    /\ pc = "idle" /\ item = NULL /\ i = 0 /\ arg = NULL
    /\ result = NULL
    /\ chain = <<>>

EmptiedKeepsLast == last_item     \* mutant: last_item is not reset when the list empties
LastAfterPop == IF next[first_item] # NULL THEN last_item ELSE NULL

ItemReturned == first_item        \* mutant: the item, not what it holds
Popped == value[first_item]

list_pop_front ==
    /\ pc = "idle"
    /\ \/ /\ items_count = 0
          /\ result' = NULL
          /\ UNCHANGED <<fields, header, chain>>
       \/ /\ items_count # 0
          /\ result' = Popped
          /\ first_item' = next[first_item]
          /\ prev' = IF next[first_item] # NULL
                     THEN [prev EXCEPT ![next[first_item]] = NULL] ELSE prev
          /\ last_item' = LastAfterPop
          /\ items_count' = items_count - 1
          /\ chain' = Tail(chain)
          /\ UNCHANGED <<value, next>>
    /\ UNCHANGED cursor

\* x is the item that kmalloc returns.
list_push_back(v, x) ==
    /\ pc = "idle" /\ x \in Free
    /\ value' = [value EXCEPT ![x] = v]
    /\ prev' = [prev EXCEPT ![x] = last_item]
    /\ \/ /\ items_count = 0
          /\ first_item' = x
          /\ next' = [next EXCEPT ![x] = NULL]
       \/ /\ items_count # 0
          /\ next' = [next EXCEPT ![x] = NULL, ![last_item] = x]
          /\ UNCHANGED first_item
    /\ last_item' = x
    /\ items_count' = items_count + 1
    /\ result' = v
    /\ chain' = Append(chain, x)
    /\ UNCHANGED cursor

\* list_get_value, and the n steps of its loop.
GetOutside(n) == n >= items_count
list_get_value(n) ==
    /\ pc = "idle"
    /\ \/ /\ GetOutside(n)
          /\ result' = NULL
          /\ UNCHANGED cursor
       \/ /\ ~GetOutside(n)
          /\ pc' = "walk" /\ item' = first_item /\ i' = 0 /\ arg' = n
          /\ UNCHANGED result
    /\ UNCHANGED <<fields, header, chain>>

WalkTo == arg + 1                 \* mutant: one step too many
StepsToWalk == arg

Walk ==
    /\ pc = "walk"
    /\ \/ /\ i < StepsToWalk
          /\ item' = next[item] /\ i' = i + 1
          /\ UNCHANGED <<pc, arg, result>>
       \/ /\ i >= StepsToWalk
          /\ result' = value[item]
          /\ pc' = "idle" /\ item' = NULL /\ i' = 0 /\ arg' = NULL
    /\ UNCHANGED <<fields, header, chain>>

\* list_delete: list_get_item looks for the value from the front ...
list_delete(v) ==
    /\ pc = "idle"
    /\ pc' = "search" /\ item' = first_item /\ arg' = v
    /\ UNCHANGED <<i, fields, header, result, chain>>

NoAdvance == item                 \* mutant: the loop stays on an item that does not match
Advance == next[item]

Search ==
    /\ pc = "search" /\ item # NULL /\ value[item] # arg
    /\ item' = Advance
    /\ UNCHANGED <<pc, i, arg, fields, header, result, chain>>

Done == pc' = "idle" /\ item' = NULL /\ arg' = NULL /\ UNCHANGED i

NotFound ==
    /\ pc = "search" /\ item = NULL
    /\ Done
    /\ UNCHANGED <<fields, header, result, chain>>

\* ... and the item found is unlinked and freed.
FrontLink == IF prev[item] = NULL THEN next[item] ELSE first_item
BackLinkForgotten == prev         \* mutant: the next item's prev is left alone
BackLink == IF next[item] = NULL THEN prev ELSE [prev EXCEPT ![next[item]] = prev[item]]
Unlink ==
    /\ pc = "search" /\ item # NULL /\ value[item] = arg
    /\ first_item' = FrontLink
    /\ next' = IF prev[item] = NULL THEN next ELSE [next EXCEPT ![prev[item]] = next[item]]
    /\ last_item' = IF next[item] = NULL THEN prev[item] ELSE last_item
    /\ prev' = BackLink
    /\ items_count' = items_count - 1
    /\ chain' = RemoveFirst(chain, item)
    /\ Done
    /\ UNCHANGED <<value, result>>

Step == Walk \/ Search \/ NotFound \/ Unlink

Next ==
    \/ list_pop_front
    \/ \E v \in Values : list_delete(v) \/ \E x \in Items : list_push_back(v, x)
    \/ \E n \in 0 .. MAX_ITEMS : list_get_value(n)
    \/ Step

Spec == Init /\ [][Next]_vars
\* A call that was made runs on: nothing in it waits.
FairSpec == Spec /\ WF_vars(Step)

(***************************************************************************)
(* Properties                                                              *)
(***************************************************************************)
TypeOK ==
    /\ value \in [Items -> Values]
    /\ prev \in [Items -> Items \cup {NULL}] /\ next \in [Items -> Items \cup {NULL}]
    /\ first_item \in Items \cup {NULL} /\ last_item \in Items \cup {NULL}
    /\ items_count \in 0 .. MAX_ITEMS
    /\ pc \in {"idle", "walk", "search"} /\ item \in Items \cup {NULL}
    /\ i \in 0 .. MAX_ITEMS /\ arg \in Values \cup 0 .. MAX_ITEMS
    /\ result \in Values \cup {NULL}
    /\ chain \in Seq(Items)

\* The links agree with the list in both directions, with its ends and with its
\* count, and no freed item is linked: every operation leaves a list that can be
\* walked from either end (list.c:19-25, 35-46, 80-90).
Linked ==
    LET n == Len(chain) IN
    /\ \A j, k \in 1 .. n : chain[j] = chain[k] => j = k
    /\ items_count = n
    /\ first_item = IF n = 0 THEN NULL ELSE chain[1]
    /\ last_item = IF n = 0 THEN NULL ELSE chain[n]
    /\ \A j \in 1 .. n :
         /\ next[chain[j]] = IF j = n THEN NULL ELSE chain[j + 1]
         /\ prev[chain[j]] = IF j = 1 THEN NULL ELSE chain[j - 1]

\* While an operation walks the list its cursor is on an item of the list (or,
\* searching, past the end), and nothing behind a searching cursor has the value.
CursorSound ==
    /\ pc = "walk" => i <= arg /\ arg < Len(chain) /\ item = chain[i + 1]
    /\ pc = "search" =>
         \E j \in 1 .. Len(chain) + 1 :
             /\ item = IF j <= Len(chain) THEN chain[j] ELSE NULL
             /\ \A k \in 1 .. j - 1 : value[chain[k]] # arg

\* The list seen from outside: the operations do what they would do on a
\* sequence of values (list_delete removes the first of equal ones).
SeenList == [j \in 1 .. Len(chain) |-> value[chain[j]]]
Seen == INSTANCE ListSpec WITH list <- SeenList
ListSpec == Seen!Spec

\* A search or a walk ends: the links have no cycle.
Returns == (pc # "idle") ~> (pc = "idle")
=============================================================================
