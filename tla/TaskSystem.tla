------------------------------ MODULE TaskSystem ------------------------------
(***************************************************************************)
(* What the kernel promises to its programs (proc.c, sys.c, process_key):  *)
(* tasks that take turns on the CPU and wait for keys or children.  A task *)
(* waits until what it waits for happens, and then no longer; the CPU goes *)
(* to a task that is ready whenever there is one.                          *)
(*                                                                         *)
(* A task is known by a name, and names are used again.  Who died while    *)
(* others still knew its name leaves a stale name: its next bearer has the *)
(* children of the first, and keys meant for the first may end its waits.  *)
(***************************************************************************)
EXTENDS Integers

CONSTANTS Names, Idle, None, Lines

VARIABLES
    tasks,      \* for each name in use: what the task waits for, its parent and line
    running,    \* who has the CPU; None when it was killed and still has it
    shown,      \* the line whose keys are typed
    stale

Task(wait, par, on) == [wait |-> wait, parent |-> par, line |-> on]
Ready == {p \in DOMAIN tasks \ {Idle} : tasks[p].wait = "nothing"}

Init ==
    /\ DOMAIN tasks \subseteq Names /\ tasks[Idle].wait = "nothing"
    /\ \A p \in DOMAIN tasks \ {Idle} : \E on \in Lines : tasks[p] = Task("nothing", Idle, on)
    /\ \A on \in Lines : \E p \in DOMAIN tasks \ {Idle} : tasks[p].line = on
    /\ running = Idle /\ shown \in Lines /\ stale = {}

\* The idle task has the CPU only when no other can use it.
Dispatch == running' \in IF Ready' = {} THEN {Idle} ELSE Ready'

Tick == Dispatch /\ UNCHANGED <<tasks, shown, stale>>

Caller == running \notin {Idle, None}

Wait(what) ==
    /\ Caller
    /\ tasks' = [tasks EXCEPT ![running].wait = what]
    /\ Dispatch
    /\ UNCHANGED <<shown, stale>>

\* A task starts on the line that is shown; whoever starts it may wait for it.
Start(p) ==
    /\ p \notin DOMAIN tasks /\ running # Idle
    /\ tasks' = [q \in DOMAIN tasks \cup {p} |->
                    IF q = p THEN Task("nothing", running, shown) ELSE tasks[q]]
    /\ UNCHANGED running \/ (running = None /\ Dispatch)
    /\ UNCHANGED <<shown, stale>>

StartAndWait(p) ==
    /\ p \notin DOMAIN tasks /\ Caller
    /\ tasks' = [q \in DOMAIN tasks \cup {p} |->
                    IF q = p THEN Task("nothing", running, shown)
                    ELSE IF q = running THEN [tasks[q] EXCEPT !.wait = "child"] ELSE tasks[q]]
    /\ Dispatch
    /\ UNCHANGED <<shown, stale>>

\* The idle task and the shells, its children, are never killed.
Die(p) ==
    /\ p # Idle /\ tasks[p].parent # Idle
    /\ tasks' = [q \in DOMAIN tasks \ {p} |->
                    IF q = tasks[p].parent /\ tasks[q].wait = "child"
                    THEN [tasks[q] EXCEPT !.wait = "nothing"] ELSE tasks[q]]
    /\ IF p = running THEN running' = None \/ Dispatch ELSE UNCHANGED running
    /\ stale' \in {stale, stale \cup {p}}
    /\ UNCHANGED shown

\* A key wakes every task that waits for one on the line that is shown.
Reads(p) == tasks[p].wait = "key" /\ tasks[p].line = shown
Key ==
    /\ \E late \in SUBSET (stale \ {Idle}) :
         tasks' = [p \in DOMAIN tasks |->
                     IF Reads(p) \/ p \in late THEN [tasks[p] EXCEPT !.wait = "nothing"] ELSE tasks[p]]
    /\ UNCHANGED <<running, shown, stale>>

Show(on) == shown' = on /\ UNCHANGED <<tasks, running, stale>>

Next ==
    \/ Tick \/ Key
    \/ Wait("key") \/ Wait("child")
    \/ \E p \in Names : Start(p) \/ StartAndWait(p)
    \/ \E p \in DOMAIN tasks : Die(p)
    \/ \E on \in Lines : Show(on)

Spec == Init /\ [][Next]_<<tasks, running, shown, stale>>
=============================================================================
