----------------------------- MODULE ProcProofs -----------------------------
(***************************************************************************)
(* Proofs about Proc for every number of consoles, processes and keys: the *)
(* scheduler always has a process to run and never runs one that is        *)
(* blocked or gone, and the loaded page directory is never a freed one.    *)
(* Then the processes that wait: a reader is queued where its key will     *)
(* look for it, a queue holds readers only, getch returns a character, and *)
(* whoever waits in exec has the child that will wake it.                  *)
(***************************************************************************)
EXTENDS Proc, Lemmas, FiniteSetTheorems, FunctionTheorems

USE ConstantsAssumption

States == PS_RUNABLE .. PS_IDLE

\* The idle process is in no queue, so that a key never makes it runnable.
IdleUnqueued == \A c \in Consoles : idle_proc \notin ToSet(io_queue[c])

\* The inductive invariant.
KernelInv ==
    /\ TypeOK
    /\ ListSound
    /\ CpuSound
    /\ PageDirLive
    /\ IdleUnqueued

\* The constants of the boot and of the process states.
LEMMA Numbers ==
    /\ idle_proc \in Slots
    /\ NULL \notin Slots /\ KERNEL \notin Slots
    /\ BootProcs \subseteq Slots
    /\ Consoles \subseteq Nat /\ 0 \in Consoles
BY DEF idle_proc, Slots, NULL, KERNEL, BootProcs, Consoles

\* shedule finds the first runnable process of the list, or falls back on the
\* idle one; either way it is a process of the list, and the list keeps its
\* processes.
LEMMA Schedule ==
    ASSUME NEW q \in Seq(Slots), Distinct(q), idle_proc \in ToSet(q), NEW st
    PROVE  /\ Turned(q, st) \in Seq(Slots)
           /\ Distinct(Turned(q, st))
           /\ ToSet(Turned(q, st)) = ToSet(q)
           /\ Chosen(q, st) \in ToSet(q)
           /\ st[Chosen(q, st)] = PS_RUNABLE \/ Chosen(q, st) = idle_proc
<1> DEFINE R == RunableAt(q, st)
           k == FirstRunable(q, st)
<1>1. CASE R = {}
  BY <1>1 DEF Turned, Chosen
<1>2. CASE R # {}
  <2>1. Len(q) \in Nat /\ DOMAIN q = 1 .. Len(q)
    BY LenProperties
  <2>2. R \subseteq Nat /\ R \subseteq 1 .. Len(q)
    BY <2>1 DEF RunableAt
  <2>3. k \in R
    BY <1>2, <2>2, LeastPosition DEF FirstRunable
  <2>4. k \in 1 .. Len(q) /\ st[q[k]] = PS_RUNABLE /\ q[k] \in ToSet(q)
    BY <2>1, <2>2, <2>3 DEF RunableAt, ToSet
  <2>5. Chosen(q, st) = q[k] /\ Turned(q, st) = Rotate(q, k)
    BY <1>2 DEF Chosen, Turned
  <2> HIDE DEF k
  <2>6. /\ Rotate(q, k) \in Seq(Slots)
        /\ ToSet(Rotate(q, k)) = ToSet(q)
        /\ Distinct(Rotate(q, k))
    BY <2>4, SwapParts DEF Rotate
  <2> QED BY <2>4, <2>5, <2>6
<1> QED BY <1>1, <1>2

\* switch_task, from a handler that leaves a sound list behind.
LEMMA SwitchSound ==
    ASSUME NEW q \in Seq(Slots), Distinct(q), idle_proc \in ToSet(q),
           NEW st \in [Slots -> States], NEW cx \in [Slots -> Contexts],
           pid' \in [Slots -> 0 .. MAX_SLOTS],
           \A p \in ToSet(q) : pid'[p] = 0 <=> p = idle_proc,
           \A p \in ToSet(q) : st[p] = PS_IDLE <=> p = idle_proc,
           SwitchTask(q, st, cx)
    PROVE  /\ procs_list' \in Seq(Slots)
           /\ Live' = ToSet(q)
           /\ state' = st /\ context' \in [Slots -> Contexts]
           /\ current_proc' \in Slots /\ cpu' = current_proc' /\ cr3' = current_proc'
           /\ ListSound' /\ CpuSound' /\ PageDirLive'
<1> DEFINE next == Chosen(q, st)
<1>1. /\ procs_list' = Turned(q, st) /\ current_proc' = next /\ cpu' = next
      /\ cr3' = next /\ state' = st /\ context' = [cx EXCEPT ![next] = InUser]
  BY DEF SwitchTask
<1>2. /\ procs_list' \in Seq(Slots) /\ Distinct(procs_list') /\ Live' = ToSet(q)
      /\ next \in ToSet(q)
      /\ st[next] = PS_RUNABLE \/ next = idle_proc
  BY <1>1, Schedule DEF Live
<1>3. ToSet(q) \subseteq Slots
  BY ElementOfSeq, LenProperties DEF ToSet
<1>4. InUser \in Contexts
  BY DEF InUser, Contexts, Ascii, Nul
<1> HIDE DEF next
<1>5. context' \in [Slots -> Contexts]
  BY <1>1, <1>4
<1>6. ListSound'
  BY <1>1, <1>2 DEF ListSound, Distinct
<1>7. CpuSound' /\ PageDirLive'
  BY <1>1, <1>2 DEF CpuSound, PageDirLive
<1> QED BY <1>1, <1>2, <1>3, <1>5, <1>6, <1>7

\* kill_proc of a live process that it does not refuse to kill.
LEMMA KillSound ==
    ASSUME KernelInv, NEW v \in Live, CanKill(v)
    PROVE  LET q == RemoveFirst(procs_list, v)
               st == StateAfterKill(v)
           IN  /\ v \in Slots /\ v # idle_proc
               /\ q \in Seq(Slots) /\ Distinct(q) /\ ToSet(q) = Live \ {v}
               /\ idle_proc \in ToSet(q)
               /\ st \in [Slots -> States]
               /\ ContextAfterKill(v) \in [Slots -> Contexts]
               /\ \A p \in ToSet(q) : pid[p] = 0 <=> p = idle_proc
               /\ \A p \in ToSet(q) : st[p] = PS_IDLE <=> p = idle_proc
               /\ \A p \in Slots : state[p] = PS_RUNABLE => st[p] = PS_RUNABLE
<1> DEFINE q == RemoveFirst(procs_list, v)
           st == StateAfterKill(v)
<1>1. procs_list \in Seq(Slots) /\ Distinct(procs_list) /\ idle_proc \in Live
      /\ state \in [Slots -> States] /\ context \in [Slots -> Contexts]
  BY DEF KernelInv, TypeOK, ListSound, Distinct, States
<1>2. Live \subseteq Slots
  BY <1>1, ElementOfSeq, LenProperties DEF ToSet, Live
<1>3. pid[v] # 0
  BY DEF CanKill, Protected
<1>4. v # idle_proc
  BY <1>1, <1>3 DEF KernelInv, ListSound
<1>5. q \in Seq(Slots) /\ Distinct(q) /\ ToSet(q) = Live \ {v}
  BY <1>1, RemoveList DEF Live
<1>6. /\ st \in [Slots -> States]
      /\ \A p \in Slots : state[p] = PS_RUNABLE => st[p] = PS_RUNABLE
      /\ \A p \in Slots : st[p] = PS_IDLE <=> state[p] = PS_IDLE
  BY <1>1 DEF StateAfterKill, States, PS_RUNABLE, PS_IDLE, PS_WFCHILD
<1>7. InUser \in Contexts
  BY DEF InUser, Contexts, Ascii, Nul
<1>8. ContextAfterKill(v) \in [Slots -> Contexts]
  BY <1>1, <1>7 DEF ContextAfterKill
<1> HIDE DEF q, st
<1>9. \A p \in ToSet(q) : (pid[p] = 0 <=> p = idle_proc) /\ (st[p] = PS_IDLE <=> p = idle_proc)
  BY <1>2, <1>5, <1>6 DEF KernelInv, ListSound
<1> QED BY <1>1, <1>2, <1>4, <1>5, <1>6, <1>8, <1>9 DEF q, st

\* get_proc returns a process of the list.
LEMMA FoundLive ==
    ASSUME KernelInv, NEW n, PidAt(n) # {}
    PROVE  GetProc(n) \in Live /\ GetProc(n) \in Slots
<1>1. procs_list \in Seq(Slots)
  BY DEF KernelInv, TypeOK
<1>2. DOMAIN procs_list = 1 .. Len(procs_list) /\ Len(procs_list) \in Nat
  BY <1>1, LenProperties
<1>3. PidAt(n) \subseteq Nat
  BY <1>2 DEF PidAt
<1>4. (CHOOSE i \in PidAt(n) : \A j \in PidAt(n) : i <= j) \in DOMAIN procs_list
  BY <1>3, LeastPosition DEF PidAt
<1> QED BY <1>1, <1>2, <1>4, ElementOfSeq DEF GetProc, Live, ToSet

\* The boot.
THEOREM BootSound == Init => KernelInv
<1> SUFFICES ASSUME Init PROVE KernelInv
  OBVIOUS
<1> USE Numbers DEF Init
<1>1. procs_list \in Seq(Slots) /\ DOMAIN procs_list = BootProcs
      /\ \A i \in BootProcs : procs_list[i] = i
  BY DEF BootProcs, Slots
<1>2. Live = BootProcs
  BY <1>1 DEF Live, ToSet
<1>3. TypeOK
  <2>1. pid \in [Slots -> 0 .. MAX_SLOTS] /\ console \in [Slots -> Consoles]
    BY DEF BootProcs, Slots, Consoles, idle_proc
  <2>2. state \in [Slots -> PS_RUNABLE .. PS_IDLE]
    BY DEF PS_RUNABLE, PS_IDLE, PS_DEAD
  <2>3. parent \in [Slots -> Slots \cup {NULL}] /\ context \in [Slots -> Contexts]
    BY DEF InUser, Contexts, Ascii, Nul
  <2>4. io_queue \in [Consoles -> Seq(Slots)] /\ pos \in [Consoles -> 0 .. LINE_MAX]
    OBVIOUS
  <2> QED BY <1>1, <2>1, <2>2, <2>3, <2>4 DEF TypeOK
<1>4. ListSound
  BY <1>1, <1>2 DEF ListSound, BootProcs, idle_proc, Slots, PS_IDLE, PS_RUNABLE
<1>5. CpuSound /\ PageDirLive
  BY <1>2 DEF CpuSound, PageDirLive, BootProcs, idle_proc
<1>6. IdleUnqueued
  BY DEF IdleUnqueued, ToSet
<1> QED BY <1>3, <1>4, <1>5, <1>6 DEF KernelInv

\* Handlers that reschedule without creating or killing anything.
LEMMA SwitchSteps ==
    ASSUME KernelInv,
           TimerTick \/ SysExitRefused \/ SysWaitpid \/ SysGetch
    PROVE  KernelInv'
<1> USE DEF KernelInv
<1>1. procs_list \in Seq(Slots) /\ Distinct(procs_list) /\ idle_proc \in Live
  BY DEF TypeOK, ListSound, Distinct
<1>2. Live \subseteq Slots
  BY <1>1, ElementOfSeq, LenProperties DEF ToSet, Live
<1>3. /\ Blocked("waitpid", 0) \in Contexts /\ Blocked("getch", 0) \in Contexts
  BY DEF Blocked, Contexts, Ascii, Nul
<1>4. ASSUME NEW st \in [Slots -> States], NEW cx \in [Slots -> Contexts],
             \A p \in Live : st[p] = PS_IDLE <=> p = idle_proc,
             SwitchTask(procs_list, st, cx), UNCHANGED pid
      PROVE  /\ procs_list' \in Seq(Slots)
             /\ state' \in [Slots -> States] /\ context' \in [Slots -> Contexts]
             /\ current_proc' \in Slots /\ cpu' \in Slots /\ cr3' \in Slots
             /\ ListSound' /\ CpuSound' /\ PageDirLive'
  <2>1. \A p \in Live : pid'[p] = 0 <=> p = idle_proc
    BY <1>4 DEF ListSound
  <2>2. pid' \in [Slots -> 0 .. MAX_SLOTS]
    BY <1>4 DEF TypeOK
  <2> QED BY <1>1, <1>4, <2>1, <2>2, SwitchSound DEF Live
<1>5. \A p \in Live : state[p] = PS_IDLE <=> p = idle_proc
  BY DEF ListSound
<1>6. state \in [Slots -> States] /\ context \in [Slots -> Contexts]
  BY DEF TypeOK, States
<1>7. CASE TimerTick
  <2>1. SwitchTask(procs_list, state, context) /\ UNCHANGED <<procVars, ttyVars, halted, dangling>>
    BY <1>7 DEF TimerTick
  <2>2. UNCHANGED <<pid, parent, console, current_console, io_queue, pos, halted, dangling>>
    BY <2>1 DEF procVars, ttyVars
  <2> QED BY <1>4, <1>5, <1>6, <2>1, <2>2 DEF TypeOK, States, IdleUnqueued
<1>8. CASE SysExitRefused
  <2>1. SwitchTask(procs_list, state, context) /\ UNCHANGED <<procVars, ttyVars, halted, dangling>>
    BY <1>8 DEF SysExitRefused
  <2>2. UNCHANGED <<pid, parent, console, current_console, io_queue, pos, halted, dangling>>
    BY <2>1 DEF procVars, ttyVars
  <2> QED BY <1>4, <1>5, <1>6, <2>1, <2>2 DEF TypeOK, States, IdleUnqueued
<1>9. CASE SysWaitpid
  <2> DEFINE st == WithCurrent(state, PS_WFCHILD)
             cx == WithCurrent(context, Blocked("waitpid", 0))
  <2>1. /\ SwitchTask(procs_list, st, cx)
        /\ UNCHANGED <<pid, parent, console, current_console, io_queue, pos, halted, dangling>>
    BY <1>9 DEF SysWaitpid, procVars, ttyVars
  <2>2. current_proc # NULL => current_proc # idle_proc
    BY <1>9 DEF SysWaitpid, UserMode, CpuSound
  <2>3. st \in [Slots -> States] /\ cx \in [Slots -> Contexts]
    <3>1. CASE current_proc = NULL
      BY <3>1, <1>6 DEF WithCurrent
    <3>2. CASE current_proc # NULL
      <4>1. current_proc \in Slots /\ PS_WFCHILD \in States
        BY <3>2 DEF TypeOK, States, PS_WFCHILD, PS_RUNABLE, PS_IDLE
      <4> QED BY <4>1, <3>2, <1>3, <1>6 DEF WithCurrent
    <3> QED BY <3>1, <3>2
  <2>4. \A p \in Live : st[p] = PS_IDLE <=> p = idle_proc
    BY <1>2, <1>5, <1>6, <2>2 DEF WithCurrent, PS_WFCHILD, PS_IDLE
  <2> HIDE DEF st, cx
  <2> QED BY <1>4, <2>1, <2>3, <2>4 DEF TypeOK, States, IdleUnqueued
<1>10. CASE SysGetch
  <2> DEFINE st == [state EXCEPT ![current_proc] = PS_STOPED]
             cx == [context EXCEPT ![current_proc] = Blocked("getch", 0)]
             c == console[current_proc]
  <2>1. /\ SwitchTask(procs_list, st, cx)
        /\ io_queue' = [io_queue EXCEPT ![c] = Append(@, current_proc)]
        /\ UNCHANGED <<pid, parent, console, current_console, pos, halted, dangling>>
    BY <1>10 DEF SysGetch, procVars, ReaderConsole
  <2>2. current_proc \in Slots /\ current_proc # idle_proc /\ c \in Consoles
    BY <1>10 DEF SysGetch, UserMode, CpuSound, TypeOK
  <2>3. st \in [Slots -> States] /\ cx \in [Slots -> Contexts]
    <3>1. PS_STOPED \in States
      BY DEF States, PS_STOPED, PS_RUNABLE, PS_IDLE
    <3> QED BY <3>1, <1>3, <1>6
  <2>4. \A p \in Live : st[p] = PS_IDLE <=> p = idle_proc
    BY <1>2, <1>5, <1>6, <2>2 DEF PS_STOPED, PS_IDLE
  <2> HIDE DEF st, cx, c
  <2>5. io_queue \in [Consoles -> Seq(Slots)]
    BY DEF TypeOK
  <2>6. /\ Append(io_queue[c], current_proc) \in Seq(Slots)
        /\ ToSet(Append(io_queue[c], current_proc)) = ToSet(io_queue[c]) \cup {current_proc}
    BY <2>2, <2>5, AppendList
  <2>7. io_queue' \in [Consoles -> Seq(Slots)] /\ IdleUnqueued'
    BY <2>1, <2>2, <2>5, <2>6 DEF IdleUnqueued
  <2> QED BY <1>4, <2>1, <2>3, <2>4, <2>7 DEF TypeOK, States
<1> QED BY <1>7, <1>8, <1>9, <1>10

\* Handlers that kill.
LEMMA KillSteps ==
    ASSUME KernelInv,
           NEW n, SysExit \/ SysExitFault \/ SysKill(n) \/ SysKillSelf(n)
    PROVE  KernelInv'
<1> USE DEF KernelInv
<1>1. procs_list \in Seq(Slots) /\ current_proc # NULL => current_proc \in Live
  BY DEF TypeOK, CpuSound
<1>2. CASE SysExit
  <2> DEFINE v == current_proc
             q == RemoveFirst(procs_list, v)
             st == StateAfterKill(v)
             cx == ContextAfterKill(v)
  <2>1. /\ v \in Live /\ CanKill(v) /\ SwitchTask(q, st, cx)
        /\ UNCHANGED <<pid, parent, console, current_console, io_queue, pos, halted>>
        /\ dangling' = IF Referenced(v) THEN dangling \cup {v} ELSE dangling
    BY <1>1, <1>2 DEF SysExit, Bury, procVars, ttyVars, CpuSound
  <2>2. /\ v \in Slots /\ q \in Seq(Slots) /\ Distinct(q) /\ idle_proc \in ToSet(q)
        /\ st \in [Slots -> States] /\ cx \in [Slots -> Contexts]
        /\ \A p \in ToSet(q) : pid[p] = 0 <=> p = idle_proc
        /\ \A p \in ToSet(q) : st[p] = PS_IDLE <=> p = idle_proc
    BY <2>1, KillSound
  <2> HIDE DEF v, q, st, cx
  <2>3. pid' \in [Slots -> 0 .. MAX_SLOTS] /\ \A p \in ToSet(q) : pid'[p] = 0 <=> p = idle_proc
    BY <2>1, <2>2 DEF TypeOK
  <2>4. /\ procs_list' \in Seq(Slots)
        /\ state' = st /\ context' \in [Slots -> Contexts]
        /\ current_proc' \in Slots /\ cpu' = current_proc' /\ cr3' = current_proc'
        /\ ListSound' /\ CpuSound' /\ PageDirLive'
    BY <2>1, <2>2, <2>3, SwitchSound
  <2> QED BY <2>1, <2>2, <2>4 DEF TypeOK, IdleUnqueued, States
<1>3. ASSUME CanKill(current_proc), current_proc # NULL, KillCurrent, halted' \in BOOLEAN
      PROVE  KernelInv'
  <2> DEFINE v == current_proc
             q == RemoveFirst(procs_list, v)
             st == StateAfterKill(v)
  <2>1. /\ v \in Live /\ procs_list' = q /\ state' = st /\ context' = ContextAfterKill(v)
        /\ current_proc' = NULL /\ cr3' = KERNEL /\ cpu' = cpu
        /\ UNCHANGED <<pid, parent, console, current_console, io_queue, pos>>
        /\ dangling' = IF Referenced(v) THEN dangling \cup {v} ELSE dangling
    BY <1>3 DEF KillCurrent, DirAfterKill, Bury, procVars, ttyVars, CpuSound
  <2>2. /\ v \in Slots /\ q \in Seq(Slots) /\ Distinct(q) /\ idle_proc \in ToSet(q)
        /\ st \in [Slots -> States] /\ ContextAfterKill(v) \in [Slots -> Contexts]
        /\ \A p \in ToSet(q) : pid[p] = 0 <=> p = idle_proc
        /\ \A p \in ToSet(q) : st[p] = PS_IDLE <=> p = idle_proc
    BY <1>3, <2>1, KillSound
  <2> HIDE DEF v, q, st
  <2>3. ListSound'
    BY <2>1, <2>2 DEF ListSound, Live, Distinct
  <2>4. CpuSound' /\ PageDirLive'
    BY <2>1 DEF CpuSound, PageDirLive
  <2> QED BY <1>3, <2>1, <2>2, <2>3, <2>4 DEF TypeOK, IdleUnqueued, States
<1>4. CASE SysExitFault
  BY <1>3, <1>4 DEF SysExitFault
<1>5. CASE SysKillSelf(n)
  <2>1. PidAt(n) # {} /\ GetProc(n) = current_proc /\ CanKill(current_proc) /\ KillCurrent
        /\ halted' \in BOOLEAN
    BY <1>5 DEF SysKillSelf
  <2>2. current_proc # NULL
    BY <2>1, FoundLive, Numbers
  <2> QED BY <1>3, <2>1, <2>2
<1>6. CASE SysKill(n)
  <2> DEFINE v == GetProc(n)
             q == RemoveFirst(procs_list, v)
             st == StateAfterKill(v)
  <2>1. /\ v \in Live /\ CanKill(v) /\ v # current_proc
        /\ procs_list' = q /\ state' = st /\ context' = ContextAfterKill(v)
        /\ UNCHANGED <<pid, parent, console, current_console, io_queue, pos, halted>>
        /\ UNCHANGED <<current_proc, cpu, cr3>>
        /\ dangling' = IF Referenced(v) THEN dangling \cup {v} ELSE dangling
    BY <1>6, FoundLive DEF SysKill, Bury, procVars, ttyVars, cpuVars
  <2>2. /\ v \in Slots /\ q \in Seq(Slots) /\ Distinct(q) /\ idle_proc \in ToSet(q)
        /\ ToSet(q) = Live \ {v}
        /\ st \in [Slots -> States] /\ ContextAfterKill(v) \in [Slots -> Contexts]
        /\ \A p \in ToSet(q) : pid[p] = 0 <=> p = idle_proc
        /\ \A p \in ToSet(q) : st[p] = PS_IDLE <=> p = idle_proc
        /\ \A p \in Slots : state[p] = PS_RUNABLE => st[p] = PS_RUNABLE
    BY <2>1, KillSound
  <2> HIDE DEF v, q, st
  <2>3. ListSound'
    BY <2>1, <2>2 DEF ListSound, Live, Distinct
  <2>4. CpuSound' /\ PageDirLive'
    BY <2>1, <2>2 DEF CpuSound, PageDirLive, Live, TypeOK
  <2> QED BY <2>1, <2>2, <2>3, <2>4 DEF TypeOK, IdleUnqueued, States
<1> QED BY <1>2, <1>4, <1>5, <1>6

\* sys_exec: a new process at the back of the list, and the wait for it.
LEMMA ExecStep ==
    ASSUME KernelInv, NEW p \in Slots, NEW wait \in BOOLEAN, SysExec(p, wait)
    PROVE  KernelInv'
<1> USE DEF KernelInv
<1> DEFINE q == Append(procs_list, p)
           child == Len(procs_list)
           born == [state EXCEPT ![p] = PS_RUNABLE]
           fresh == [context EXCEPT ![p] = InUser]
           st == WithCurrent(born, PS_WFCHILD)
           cx == WithCurrent(fresh, Blocked("exec", child))
<1>1. procs_list \in Seq(Slots) /\ Distinct(procs_list) /\ idle_proc \in Live
  BY DEF TypeOK, ListSound, Distinct
<1>2. /\ p \notin Live /\ p # idle_proc
      /\ q \in Seq(Slots) /\ Distinct(q) /\ ToSet(q) = Live \cup {p}
      /\ idle_proc \in ToSet(q)
  BY <1>1, AppendList DEF SysExec, Live
<1>3. child \in 1 .. MAX_SLOTS
  <2>1. child \in 0 .. MAX_SLOTS
    BY <1>1, ListFits DEF Slots
  <2>2. DOMAIN procs_list = 1 .. child
    BY <1>1, LenProperties
  <2> QED BY <1>1, <2>1, <2>2 DEF Live, ToSet
<1>4. Live \subseteq Slots
  BY <1>1, ElementOfSeq, LenProperties DEF ToSet, Live
<1>5. /\ pid' = [pid EXCEPT ![p] = child]
      /\ parent' = [parent EXCEPT ![p] = current_proc]
      /\ console' = [console EXCEPT ![p] = current_console]
      /\ UNCHANGED <<current_console, io_queue, pos, halted, dangling>>
      /\ UserMode
  BY DEF SysExec, ttyVars
<1>6. /\ state \in [Slots -> States] /\ context \in [Slots -> Contexts]
      /\ InUser \in Contexts /\ Blocked("exec", child) \in Contexts
      /\ PS_RUNABLE \in States /\ PS_WFCHILD \in States
  <2>1. PS_RUNABLE \in States /\ PS_WFCHILD \in States
    BY DEF States, PS_RUNABLE, PS_WFCHILD, PS_IDLE
  <2>2. InUser \in Contexts
    BY DEF InUser, Contexts, Ascii, Nul
  <2>3. Blocked("exec", child) \in Contexts
    <3> HIDE DEF child
    <3> QED BY <1>3 DEF Blocked, Contexts
  <2> QED BY <2>1, <2>2, <2>3 DEF TypeOK, States
<1>7. born \in [Slots -> States] /\ fresh \in [Slots -> Contexts]
  BY <1>6
<1>8. \A x \in ToSet(q) : born[x] = PS_IDLE <=> x = idle_proc
  BY <1>2, <1>4, <1>6 DEF ListSound, PS_RUNABLE, PS_IDLE
<1>9. /\ pid' \in [Slots -> 0 .. MAX_SLOTS]
      /\ \A x \in ToSet(q) : pid'[x] = 0 <=> x = idle_proc
  <2>1. \A x \in ToSet(q) : x = p \/ (x \in Live /\ x # p /\ x \in Slots)
    BY <1>2, <1>4
  <2>2. pid' = [pid EXCEPT ![p] = child] /\ pid \in [Slots -> 0 .. MAX_SLOTS]
    BY <1>5 DEF TypeOK
  <2> HIDE DEF q, child
  <2>3. pid' \in [Slots -> 0 .. MAX_SLOTS] /\ pid'[p] = child
        /\ \A x \in Slots : x # p => pid'[x] = pid[x]
    BY <1>3, <2>2
  <2> QED BY <1>2, <1>3, <2>1, <2>3 DEF ListSound
<1>10. /\ parent' \in [Slots -> Slots \cup {NULL}] /\ console' \in [Slots -> Consoles]
       /\ current_console' \in Consoles /\ io_queue' \in [Consoles -> Seq(Slots)]
       /\ pos' \in [Consoles -> 0 .. LINE_MAX] /\ halted' \in BOOLEAN
       /\ dangling' \subseteq Slots /\ IdleUnqueued'
  BY <1>5 DEF TypeOK, IdleUnqueued
<1>11. /\ wait /\ SwitchTask(q, st, cx)
       \/ /\ ~wait /\ procs_list' = q /\ state' = born /\ context' = fresh
          /\ UNCHANGED <<current_proc, cpu, cr3>>
  BY DEF SysExec, cpuVars
<1> HIDE DEF q, child, born, fresh
<1>12. CASE SwitchTask(q, st, cx)
  <2>1. st \in [Slots -> States] /\ cx \in [Slots -> Contexts]
    <3>1. CASE current_proc = NULL
      BY <3>1, <1>7 DEF WithCurrent
    <3>2. CASE current_proc # NULL
      <4>1. current_proc \in Slots
        BY <3>2 DEF TypeOK
      <4> QED BY <4>1, <3>2, <1>6, <1>7 DEF WithCurrent
    <3> QED BY <3>1, <3>2
  <2>2. current_proc # NULL => current_proc # idle_proc
    BY <1>5 DEF UserMode, CpuSound
  <2>3. \A x \in ToSet(q) : st[x] = PS_IDLE <=> x = idle_proc
    BY <1>2, <1>4, <1>7, <1>8, <2>2 DEF WithCurrent, PS_WFCHILD, PS_IDLE
  <2> HIDE DEF st, cx
  <2>4. /\ procs_list' \in Seq(Slots)
        /\ state' = st /\ context' \in [Slots -> Contexts]
        /\ current_proc' \in Slots /\ cpu' = current_proc' /\ cr3' = current_proc'
        /\ ListSound' /\ CpuSound' /\ PageDirLive'
    BY <1>2, <1>9, <1>12, <2>1, <2>3, SwitchSound
  <2> QED BY <2>1, <2>4, <1>9, <1>10 DEF TypeOK, States
<1>13. CASE /\ procs_list' = q /\ state' = born /\ context' = fresh
            /\ UNCHANGED <<current_proc, cpu, cr3>>
  <2>1. ListSound'
    BY <1>2, <1>8, <1>9, <1>13 DEF ListSound, Live, Distinct
  <2>2. CpuSound'
    <3> SUFFICES ASSUME current_proc # NULL
                 PROVE  /\ cpu = current_proc /\ current_proc \in Live'
                        /\ state'[current_proc] = PS_RUNABLE \/ current_proc = idle_proc
      BY <1>13 DEF CpuSound
    <3>1. cpu = current_proc /\ current_proc \in Live
      BY DEF CpuSound
    <3>2. Live' = Live \cup {p}
      BY <1>2, <1>13 DEF Live
    <3>3. state'[current_proc] = state[current_proc]
      BY <1>2, <1>4, <1>13, <3>1 DEF born, TypeOK
    <3> QED BY <3>1, <3>2, <3>3 DEF CpuSound
  <2>3. PageDirLive'
    BY <1>2, <1>13 DEF PageDirLive, Live
  <2> QED BY <2>1, <2>2, <2>3, <1>2, <1>7, <1>9, <1>10, <1>13 DEF TypeOK, States
<1> QED BY <1>11, <1>12, <1>13

\* The keyboard interrupt, and the two ways to stop.
LEMMA KeySteps ==
    ASSUME KernelInv,
           NEW num \in Consoles, NEW c \in Ascii,
           KeyFunction(num) \/ KeyAscii(c) \/ UserFault \/ PanicLoop
    PROVE  KernelInv'
<1> USE DEF KernelInv
<1>1. CASE KeyFunction(num)
  <2>1. /\ UNCHANGED <<procs_list, pid, parent, console, state, context, current_proc, cpu, cr3>>
        /\ UNCHANGED <<io_queue, pos, halted, dangling>>
        /\ current_console' \in Consoles
    BY <1>1 DEF KeyFunction, procVars, cpuVars
  <2>2. TypeOK'
    BY <2>1 DEF TypeOK
  <2> QED BY <2>1, <2>2 DEF ListSound, CpuSound, PageDirLive, IdleUnqueued, Live
<1>2. CASE UserFault \/ PanicLoop
  <2>1. /\ UNCHANGED <<procs_list, pid, parent, console, state, context, current_proc, cpu, cr3>>
        /\ UNCHANGED <<current_console, io_queue, pos, dangling>>
        /\ halted' \in BOOLEAN
    BY <1>2 DEF UserFault, PanicLoop, vars, procVars, cpuVars, ttyVars, TypeOK
  <2>2. TypeOK'
    BY <2>1 DEF TypeOK
  <2> QED BY <2>1, <2>2 DEF ListSound, CpuSound, PageDirLive, IdleUnqueued, Live
<1>3. CASE KeyAscii(c)
  <2> DEFINE k == current_console
  <2>1. /\ UNCHANGED <<procs_list, pid, parent, console, current_proc, cpu, cr3>>
        /\ UNCHANGED <<current_console, halted, dangling>>
        /\ pos' = [pos EXCEPT ![k] = NextPos(c)]
        /\ Accepted(c)
    BY <1>3 DEF KeyAscii, procVars, cpuVars
  <2>2. k \in Consoles /\ pos[k] \in 0 .. LINE_MAX
    BY DEF TypeOK
  <2>3. NextPos(c) \in 0 .. LINE_MAX
    BY <2>1, <2>2 DEF NextPos, Accepted
  <2>4. pos' \in [Consoles -> 0 .. LINE_MAX]
    BY <2>1, <2>3 DEF TypeOK
  <2>5. /\ io_queue' \in [Consoles -> Seq(Slots)] /\ IdleUnqueued'
        /\ state' \in [Slots -> States] /\ context' \in [Slots -> Contexts]
        /\ \A p \in Slots : state'[p] = state[p] \/ (p # idle_proc /\ state'[p] = PS_RUNABLE)
    <3>1. CASE UNCHANGED <<io_queue, state, context>>
      BY <3>1 DEF TypeOK, IdleUnqueued, States
    <3>2. CASE /\ io_queue' = [io_queue EXCEPT ![k] = <<>>]
               /\ state' = [p \in Slots |-> IF p \in Readers THEN PS_RUNABLE ELSE state[p]]
               /\ context' = [p \in Slots |-> IF p \in Readers
                               THEN [context[p] EXCEPT !.eax = Delivered(c)] ELSE context[p]]
      <4>1. idle_proc \notin Readers
        BY <2>2 DEF IdleUnqueued, Readers, Waiting
      <4>2. Delivered(c) \in Ascii
        BY DEF Delivered, Ascii, Nul
      <4>3. io_queue' \in [Consoles -> Seq(Slots)]
        BY <3>2, EmptySeq DEF TypeOK
      <4>4. IdleUnqueued'
        BY <3>2, <2>2 DEF IdleUnqueued, ToSet, TypeOK
      <4>5. state' \in [Slots -> States]
        BY <3>2 DEF TypeOK, States, PS_RUNABLE, PS_IDLE
      <4>6. context' \in [Slots -> Contexts]
        BY <3>2, <4>2 DEF TypeOK, Contexts
      <4> QED BY <3>2, <4>1, <4>3, <4>4, <4>5, <4>6
    <3> QED BY <1>3, <3>1, <3>2 DEF KeyAscii
  <2>6. TypeOK'
    BY <2>1, <2>4, <2>5 DEF TypeOK, States
  <2>7. Live' = Live /\ Live \subseteq Slots
    BY <2>1, ElementOfSeq, LenProperties DEF Live, ToSet, TypeOK
  <2>8. ListSound'
    BY <2>1, <2>5, <2>7 DEF ListSound, PS_RUNABLE, PS_IDLE
  <2>9. CpuSound' /\ PageDirLive'
    BY <2>1, <2>5, <2>7 DEF CpuSound, PageDirLive
  <2> QED BY <2>5, <2>6, <2>8, <2>9
<1> QED BY <1>1, <1>2, <1>3

THEOREM KernelStep == KernelInv /\ [Next]_vars => KernelInv'
<1> SUFFICES ASSUME KernelInv, [Next]_vars PROVE KernelInv'
  OBVIOUS
<1>1. CASE TimerTick \/ SysExitRefused \/ SysWaitpid \/ SysGetch
  BY <1>1, SwitchSteps
<1>2. CASE SysExit \/ SysExitFault
  BY <1>2, KillSteps
<1>3. CASE \E n \in 0 .. MAX_SLOTS : SysKill(n) \/ SysKillSelf(n)
  BY <1>3, KillSteps
<1>4. CASE \E p \in Slots, wait \in BOOLEAN : SysExec(p, wait)
  BY <1>4, ExecStep
<1>5. CASE UserFault \/ PanicLoop
  BY <1>5, KeySteps, Numbers DEF Ascii
<1>6. CASE \E num \in Consoles : KeyFunction(num)
  BY <1>6, KeySteps DEF Ascii
<1>7. CASE \E c \in Ascii : KeyAscii(c)
  BY <1>7, KeySteps, Numbers
<1>8. CASE UNCHANGED vars
  <2>1. UNCHANGED <<procs_list, pid, parent, console, state, context, current_proc, cpu, cr3,
                    current_console, io_queue, pos, halted, dangling>>
    BY <1>8 DEF vars, procVars, cpuVars, ttyVars
  <2> QED BY <2>1 DEF KernelInv, TypeOK, ListSound, CpuSound, PageDirLive, IdleUnqueued, Live
<1> QED BY <1>1, <1>2, <1>3, <1>4, <1>5, <1>6, <1>7, <1>8 DEF Next

\* The kernel invariant holds in every reachable state.
THEOREM KernelCorrect == Spec => []KernelInv
BY BootSound, KernelStep, PTL DEF Spec

\* The type invariant, pos within the limit of a line included.
THEOREM TypeCorrect == Spec => []TypeOK
<1>1. KernelInv => TypeOK
  BY DEF KernelInv
<1> QED BY <1>1, KernelCorrect, PTL

\* shedule (proc.c:123) always finds a process in the list, whoever was killed:
\* nobody is there twice, and the idle process never leaves.
THEOREM ListKept == Spec => []ListSound
<1>1. KernelInv => ListSound
  BY DEF KernelInv
<1> QED BY <1>1, KernelCorrect, PTL

\* The CPU runs a live process that may run (switch_task, proc.c:139).
THEOREM SchedulerSound == Spec => []CpuSound
<1>1. KernelInv => CpuSound
  BY DEF KernelInv
<1> QED BY <1>1, KernelCorrect, PTL

\* kill_proc replaces the loaded page directory before it frees it
\* (proc.c:114).
THEOREM DirectoryLive == Spec => []PageDirLive
<1>1. KernelInv => PageDirLive
  BY DEF KernelInv
<1> QED BY <1>1, KernelCorrect, PTL

(***************************************************************************)
(* Bounded bypass                                                          *)
(***************************************************************************)

\* In a list without duplicates Index is the position.
LEMMA IndexIs ==
    ASSUME procs_list \in Seq(Slots), Distinct(procs_list), NEW i \in DOMAIN procs_list
    PROVE  Index(procs_list[i]) = i
BY DEF Index, Distinct

\* A runnable process that shedule passes over ends up closer to the front.
LEMMA PassedOver ==
    ASSUME NEW q \in Seq(Slots), Distinct(q), NEW st, NEW j \in DOMAIN q,
           st[q[j]] = PS_RUNABLE, Chosen(q, st) # q[j]
    PROVE  \E i \in DOMAIN Turned(q, st) : Turned(q, st)[i] = q[j] /\ i < j
<1> DEFINE R == RunableAt(q, st)
           k == FirstRunable(q, st)
           n == Len(q)
<1>1. n \in Nat /\ DOMAIN q = 1 .. n
  BY LenProperties
<1>2. j \in R /\ R \subseteq 1 .. n /\ R \subseteq Nat
  BY <1>1 DEF RunableAt
<1>3. k \in R /\ \A i \in R : k <= i
  BY <1>2, LeastPosition DEF FirstRunable
<1>4. Chosen(q, st) = q[k] /\ Turned(q, st) = Rotate(q, k)
  BY <1>2 DEF Chosen, Turned
<1> HIDE DEF R, k
<1>5. k \in 1 .. n /\ j \in 1 .. n /\ k < j
  BY <1>1, <1>2, <1>3, <1>4
<1>6. /\ Rotate(q, k) \in Seq(Slots) /\ Len(Rotate(q, k)) = n
      /\ \A i \in 1 .. n :
           Rotate(q, k)[i] = IF i <= n - k THEN q[i + k] ELSE q[i - (n - k)]
  BY <1>5, SwapParts DEF Rotate
<1>7. DOMAIN Rotate(q, k) = 1 .. n
  BY <1>6, LenProperties
<1> HIDE DEF n
<1>8. j - k \in 1 .. n /\ j - k <= n - k /\ (j - k) + k = j /\ j - k < j
  BY <1>1, <1>5
<1>9. Rotate(q, k)[j - k] = q[j]
  BY <1>6, <1>8
<1> QED BY <1>4, <1>7, <1>8, <1>9

\* The same for a handler that calls switch_task with the list q, in which no
\* process is further back than it was.
LEMMA SwitchAdvances ==
    ASSUME KernelInv, KernelInv',
           NEW q \in Seq(Slots), Distinct(q), NEW st, NEW cx, SwitchTask(q, st, cx),
           NEW p \in Live, state[p] = PS_RUNABLE, st[p] = PS_RUNABLE, p # cpu',
           \E j \in DOMAIN q : q[j] = p /\ j <= Index(p)
    PROVE  Index(p)' < Index(p)
<1>1. PICK j \in DOMAIN q : q[j] = p /\ j <= Index(p)
  OBVIOUS
<1>2. /\ procs_list' = Turned(q, st) /\ cpu' = Chosen(q, st)
  BY DEF SwitchTask
<1>3. PICK i \in DOMAIN procs_list' : procs_list'[i] = p /\ i < j
  BY <1>1, <1>2, PassedOver
<1>4. /\ procs_list \in Seq(Slots) /\ Distinct(procs_list)
      /\ procs_list' \in Seq(Slots) /\ Distinct(procs_list')
  BY DEF KernelInv, TypeOK, ListSound, Distinct
<1>5. Index(p)' = i
  BY <1>3, <1>4 DEF Index, Distinct
<1>6. Index(p) \in Nat /\ i \in Nat /\ j \in Nat
  <2>1. PICK m \in DOMAIN procs_list : procs_list[m] = p
    BY DEF Live, ToSet
  <2>2. Index(p) = m
    BY <2>1, <1>4, IndexIs
  <2>3. DOMAIN procs_list \subseteq Nat /\ DOMAIN procs_list' \subseteq Nat /\ DOMAIN q \subseteq Nat
    BY <1>4, LenProperties
  <2> QED BY <2>1, <2>2, <2>3
<1> QED BY <1>1, <1>3, <1>5, <1>6

\* A process of the list is at its Index; after list_delete of another one it is
\* not further back, and after list_push_back it is where it was.
LEMMA Positions ==
    ASSUME KernelInv, NEW p \in Live
    PROVE  /\ \E j \in DOMAIN procs_list : procs_list[j] = p /\ j <= Index(p)
           /\ \A v \in Live \ {p} :
                \E j \in DOMAIN RemoveFirst(procs_list, v) :
                    RemoveFirst(procs_list, v)[j] = p /\ j <= Index(p)
           /\ \A x \in Slots :
                \E j \in DOMAIN Append(procs_list, x) :
                    Append(procs_list, x)[j] = p /\ j <= Index(p)
<1> DEFINE n == Len(procs_list)
<1>1. procs_list \in Seq(Slots) /\ Distinct(procs_list)
  BY DEF KernelInv, TypeOK, ListSound, Distinct
<1>2. n \in Nat /\ DOMAIN procs_list = 1 .. n
  BY <1>1, LenProperties
<1>3. PICK m \in 1 .. n : procs_list[m] = p
  BY <1>2 DEF Live, ToSet
<1>4. Index(p) = m
  BY <1>1, <1>2, <1>3, IndexIs
<1>5. ASSUME NEW v \in Live \ {p}
      PROVE  \E j \in DOMAIN RemoveFirst(procs_list, v) :
                 RemoveFirst(procs_list, v)[j] = p /\ j <= m
  <2> DEFINE r == RemoveFirst(procs_list, v)
  <2>1. /\ r \in Seq(Slots) /\ Len(r) = n - 1
        /\ \E k \in 1 .. n :
             /\ procs_list[k] = v
             /\ \A i \in 1 .. n - 1 :
                  r[i] = IF i < k THEN procs_list[i] ELSE procs_list[i + 1]
    BY <1>1, RemoveList DEF Live
  <2>2. DOMAIN r = 1 .. n - 1
    BY <2>1, LenProperties
  <2> HIDE DEF r, n
  <2>3. PICK k \in 1 .. n :
             /\ procs_list[k] = v
             /\ \A i \in 1 .. n - 1 :
                  r[i] = IF i < k THEN procs_list[i] ELSE procs_list[i + 1]
    BY <2>1
  <2>4. CASE m < k
    <3>1. m \in 1 .. n - 1
      BY <2>4, <1>2
    <3> QED BY <3>1, <2>2, <2>3, <2>4, <1>3 DEF r
  <2>5. CASE m > k
    <3>1. m - 1 \in 1 .. n - 1 /\ ~(m - 1 < k) /\ (m - 1) + 1 = m /\ m - 1 <= m
      BY <2>5, <1>2
    <3>2. r[m - 1] = p
      BY <3>1, <2>3, <1>3
    <3> QED BY <3>1, <3>2, <2>2 DEF r
  <2>6. m # k
    BY <2>3, <1>3
  <2> QED BY <2>4, <2>5, <2>6, <1>2
<1>6. ASSUME NEW x \in Slots
      PROVE  \E j \in DOMAIN Append(procs_list, x) : Append(procs_list, x)[j] = p /\ j <= m
  <2> DEFINE r == Append(procs_list, x)
  <2>1. /\ r \in Seq(Slots) /\ Len(r) = n + 1 /\ \A i \in 1 .. n : r[i] = procs_list[i]
    BY <1>1, AppendProperties
  <2>2. DOMAIN r = 1 .. n + 1
    BY <2>1, LenProperties
  <2> HIDE DEF r, n
  <2>3. m \in 1 .. n + 1 /\ r[m] = p /\ m <= m
    BY <2>1, <1>2, <1>3
  <2> QED BY <2>2, <2>3 DEF r
<1> QED BY <1>2, <1>3, <1>4, <1>5, <1>6

LEMMA BypassStep == KernelInv /\ KernelInv' /\ [Next]_vars => [Bypass]_vars
<1> SUFFICES ASSUME KernelInv, KernelInv', Next,
                    NEW p \in Live, p \in Live', state[p] = PS_RUNABLE,
                    p # cpu, p # cpu', cpu' # cpu
             PROVE  Index(p)' < Index(p)
  BY DEF Bypass
<1>1. /\ procs_list \in Seq(Slots) /\ Distinct(procs_list) /\ p \in Slots
      /\ state \in [Slots -> States] /\ (current_proc # NULL => current_proc = cpu)
      /\ (current_proc # NULL => current_proc \in Live)
  <2>1. procs_list \in Seq(Slots)
    BY DEF KernelInv, TypeOK
  <2>2. p \in Slots
    BY <2>1, ElementOfSeq, LenProperties DEF Live, ToSet
  <2>3. Distinct(procs_list) /\ state \in [Slots -> States]
    BY DEF KernelInv, TypeOK, ListSound, Distinct, States
  <2>4. current_proc # NULL => current_proc = cpu /\ current_proc \in Live
    BY DEF KernelInv, CpuSound
  <2> QED BY <2>1, <2>2, <2>3, <2>4
<1>2. CASE TimerTick \/ SysExitRefused
  <2>1. SwitchTask(procs_list, state, context)
    BY <1>2 DEF TimerTick, SysExitRefused
  <2> QED BY <2>1, <1>1, Positions, SwitchAdvances
<1>3. CASE SysWaitpid
  <2>1. SwitchTask(procs_list, WithCurrent(state, PS_WFCHILD),
                   WithCurrent(context, Blocked("waitpid", 0)))
    BY <1>3 DEF SysWaitpid
  <2>2. WithCurrent(state, PS_WFCHILD)[p] = PS_RUNABLE
    BY <1>1 DEF WithCurrent
  <2> QED BY <2>1, <2>2, <1>1, Positions, SwitchAdvances
<1>4. CASE SysGetch
  <2>1. SwitchTask(procs_list, [state EXCEPT ![current_proc] = PS_STOPED],
                   [context EXCEPT ![current_proc] = Blocked("getch", 0)])
        /\ current_proc # NULL
    BY <1>4 DEF SysGetch
  <2>2. [state EXCEPT ![current_proc] = PS_STOPED][p] = PS_RUNABLE
    BY <2>1, <1>1
  <2> QED BY <2>1, <2>2, <1>1, Positions, SwitchAdvances
<1>5. CASE SysExit
  <2> DEFINE v == current_proc
             q == RemoveFirst(procs_list, v)
  <2>1. /\ SwitchTask(q, StateAfterKill(v), ContextAfterKill(v))
        /\ v # NULL /\ CanKill(v)
    BY <1>5 DEF SysExit
  <2>2. v \in Live \ {p}
    BY <2>1, <1>1
  <2>3. q \in Seq(Slots) /\ Distinct(q) /\ StateAfterKill(v)[p] = PS_RUNABLE
    BY <2>1, <2>2, <1>1, KillSound
  <2>4. \E j \in DOMAIN q : q[j] = p /\ j <= Index(p)
    BY <2>2, Positions
  <2> HIDE DEF q, v
  <2> QED BY <2>1, <2>3, <2>4, SwitchAdvances
<1>6. CASE \E x \in Slots, wait \in BOOLEAN : SysExec(x, wait)
  <2>1. PICK x \in Slots, wait \in BOOLEAN : SysExec(x, wait)
    BY <1>6
  <2> DEFINE q == Append(procs_list, x)
             born == [state EXCEPT ![x] = PS_RUNABLE]
             st == WithCurrent(born, PS_WFCHILD)
             cx == WithCurrent([context EXCEPT ![x] = InUser], Blocked("exec", Len(procs_list)))
  <2>2. SwitchTask(q, st, cx) /\ x \notin Live
    BY <2>1 DEF SysExec, cpuVars
  <2>3. q \in Seq(Slots) /\ Distinct(q)
    BY <2>2, <1>1, AppendList DEF Live
  <2>4. st[p] = PS_RUNABLE
    BY <1>1 DEF WithCurrent
  <2>5. \E j \in DOMAIN q : q[j] = p /\ j <= Index(p)
    BY Positions
  <2> HIDE DEF q, st, cx
  <2> QED BY <2>2, <2>3, <2>4, <2>5, SwitchAdvances
<1>7. ASSUME \/ SysExitFault \/ UserFault \/ PanicLoop
             \/ \E n \in 0 .. MAX_SLOTS : SysKill(n) \/ SysKillSelf(n)
             \/ \E num \in Consoles : KeyFunction(num)
             \/ \E c \in Ascii : KeyAscii(c)
      PROVE  cpu' = cpu
  BY <1>7 DEF SysExitFault, UserFault, PanicLoop, SysKill, SysKillSelf, KillCurrent,
              KeyFunction, KeyAscii, cpuVars, vars
<1> QED BY <1>2, <1>3, <1>4, <1>5, <1>6, <1>7 DEF Next

\* Each time the CPU changes hands, every runnable process that was not chosen
\* is closer to the front of procs_list, however many processes there are and
\* whatever the other handlers do in between.
THEOREM NoStarvation == Spec => BoundedBypass
BY KernelCorrect, BypassStep, PTL DEF Spec, BoundedBypass

(***************************************************************************)
(* The processes that wait                                                 *)
(***************************************************************************)
\* Who waits for a child did not call getch: a wake by kill_proc never
\* completes a getch.
WaitContext == \A p \in Live : state[p] = PS_WFCHILD => context[p].at # "getch"

\* The inductive invariant.
WaitInv ==
    /\ KernelInv
    /\ WaiterQueued
    /\ QueueSound
    /\ GetchAnswered
    /\ WaitContext
    /\ ExecHasChild

\* What a handler may do to a process that it neither creates nor queues:
\* leave it, except that switch_task may resume it ...
Kept(p) ==
    /\ state'[p] = state[p]
    /\ \/ context'[p] = context[p]
       \/ context'[p] = InUser /\ state'[p] \in {PS_RUNABLE, PS_IDLE}

\* ... end its wait for a child ...
Woken(p) ==
    /\ state[p] = PS_WFCHILD /\ state'[p] = PS_RUNABLE
    /\ context'[p] \in {context[p], InUser}

\* ... or begin one.
Waits(p) ==
    /\ state[p] = PS_RUNABLE /\ state'[p] = PS_WFCHILD
    /\ context'[p] = Blocked("waitpid", 0)

StateValues == {PS_RUNABLE, PS_STOPED, PS_WFCHILD, PS_IDLE}

\* Types of what the proofs below look up.
LEMMA Typed ==
    ASSUME KernelInv
    PROVE  /\ Live \subseteq Slots
           /\ procs_list \in Seq(Slots) /\ Distinct(procs_list) /\ idle_proc \in Live
           /\ state \in [Slots -> States] /\ context \in [Slots -> Contexts]
           /\ parent \in [Slots -> Slots \cup {NULL}] /\ pid \in [Slots -> 0 .. MAX_SLOTS]
           /\ console \in [Slots -> Consoles]
           /\ io_queue \in [Consoles -> Seq(Slots)]
           /\ \A c \in Consoles : /\ Len(io_queue[c]) \in Nat
                                  /\ DOMAIN io_queue[c] = 1 .. Len(io_queue[c])
           /\ current_proc # NULL => /\ current_proc = cpu /\ current_proc \in Live
                                     /\ state[current_proc] = PS_RUNABLE \/ current_proc = idle_proc
           /\ \A p \in Live : state[p] = PS_IDLE <=> p = idle_proc
<1>1. procs_list \in Seq(Slots)
  BY DEF KernelInv, TypeOK
<1>2. Live \subseteq Slots
  BY <1>1, ElementOfSeq, LenProperties DEF ToSet, Live
<1>3. io_queue \in [Consoles -> Seq(Slots)]
  BY DEF KernelInv, TypeOK
<1>4. \A c \in Consoles : Len(io_queue[c]) \in Nat /\ DOMAIN io_queue[c] = 1 .. Len(io_queue[c])
  BY <1>3, LenProperties
<1>5. /\ state \in [Slots -> States] /\ context \in [Slots -> Contexts]
      /\ parent \in [Slots -> Slots \cup {NULL}] /\ pid \in [Slots -> 0 .. MAX_SLOTS]
      /\ console \in [Slots -> Consoles]
  BY DEF KernelInv, TypeOK, States
<1>6. Distinct(procs_list) /\ idle_proc \in Live
      /\ \A p \in Live : state[p] = PS_IDLE <=> p = idle_proc
  BY DEF KernelInv, ListSound, Distinct
<1>7. current_proc # NULL => /\ current_proc = cpu /\ current_proc \in Live
                             /\ state[current_proc] = PS_RUNABLE \/ current_proc = idle_proc
  BY DEF KernelInv, CpuSound
<1> QED BY <1>1, <1>2, <1>3, <1>4, <1>5, <1>6, <1>7

\* An entry that is not dangling is a process that waits for a key.
LEMMA EntryWaits ==
    ASSUME WaitInv, NEW c \in Consoles, NEW p \in ToSet(io_queue[c]), p \notin dangling
    PROVE  p \in Live /\ state[p] = PS_STOPED /\ console[p] = c /\ context[p].at = "getch"
<1>1. PICK i \in DOMAIN io_queue[c] : io_queue[c][i] = p
  BY DEF ToSet
<1> QED BY <1>1 DEF WaitInv, QueueSound

\* What switch_task changes, from a handler that leaves a sound list behind.
LEMMA Switched ==
    ASSUME NEW q \in Seq(Slots), Distinct(q), idle_proc \in ToSet(q),
           NEW st, NEW cx \in [Slots -> Contexts], SwitchTask(q, st, cx)
    PROVE  /\ Live' = ToSet(q) /\ state' = st
           /\ \A p \in Slots :
                \/ context'[p] = cx[p]
                \/ context'[p] = InUser /\ (st[p] = PS_RUNABLE \/ p = idle_proc)
<1> DEFINE next == Chosen(q, st)
<1>1. /\ procs_list' = Turned(q, st) /\ state' = st
      /\ context' = [cx EXCEPT ![next] = InUser]
  BY DEF SwitchTask
<1>2. Live' = ToSet(q) /\ (st[next] = PS_RUNABLE \/ next = idle_proc)
  BY <1>1, Schedule DEF Live
<1> HIDE DEF next
<1>3. \A p \in Slots : context'[p] = IF p = next THEN InUser ELSE cx[p]
  BY <1>1
<1> QED BY <1>1, <1>2, <1>3

\* A handler that creates no process and touches no queue preserves WaitInv when
\* it only keeps, wakes or blocks processes as above, remembers in dangling who
\* it removed from under a queue, and wakes the parent of whom it removed.
LEMMA Undisturbed ==
    ASSUME WaitInv, KernelInv',
           Live' \subseteq Live, dangling \subseteq dangling',
           UNCHANGED <<pid, parent, console, io_queue>>,
           \A v \in Live \ Live', c \in Consoles : v \in ToSet(io_queue[c]) => v \in dangling',
           \A v \in Live \ Live' : parent[v] \in Live' => state'[parent[v]] # PS_WFCHILD,
           \A p \in Live' : Kept(p) \/ Woken(p) \/ Waits(p)
    PROVE  WaitInv'
<1> USE DEF PS_RUNABLE, PS_STOPED, PS_WFCHILD, PS_IDLE
<1>1. Live \subseteq Slots /\ Live' \subseteq Slots
  BY Typed DEF WaitInv
<1>2. InUser.at = "user" /\ Blocked("waitpid", 0).at = "waitpid"
  BY DEF InUser, Blocked
<1>3. WaiterQueued'
  BY DEF WaiterQueued, WaitInv, Kept, Woken, Waits
<1>4. QueueSound'
  <2> SUFFICES ASSUME NEW c \in Consoles, NEW i \in DOMAIN io_queue[c],
                      io_queue[c][i] \notin dangling'
               PROVE  LET p == io_queue[c][i]
                      IN  /\ p \in Live' /\ state'[p] = PS_STOPED /\ console[p] = c
                          /\ context'[p].at = "getch"
                          /\ \A j \in DOMAIN io_queue[c] : io_queue[c][j] = p => j = i
    BY DEF QueueSound
  <2> DEFINE p == io_queue[c][i]
  <2>1. /\ p \in Live /\ state[p] = PS_STOPED /\ console[p] = c /\ context[p].at = "getch"
        /\ \A j \in DOMAIN io_queue[c] : io_queue[c][j] = p => j = i
    BY DEF WaitInv, QueueSound
  <2>2. p \in ToSet(io_queue[c])
    BY DEF ToSet
  <2> HIDE DEF p
  <2>3. p \in Live'
    BY <2>1, <2>2 DEF p
  <2>4. state'[p] = PS_STOPED /\ context'[p] = context[p]
    BY <2>1, <2>3 DEF Kept, Woken, Waits
  <2> QED BY <2>1, <2>3, <2>4 DEF p
<1>5. GetchAnswered'
  BY <1>2 DEF GetchAnswered, WaitContext, WaitInv, Kept, Woken, Waits
<1>6. WaitContext'
  BY <1>2 DEF WaitContext, WaitInv, Kept, Woken, Waits
<1>7. ExecHasChild'
  <2> SUFFICES ASSUME NEW p \in Live', state'[p] = PS_WFCHILD, context'[p].at = "exec"
               PROVE  \E ch \in Live' : parent'[ch] = p /\ pid'[ch] = context'[p].eax
    BY DEF ExecHasChild
  <2>1. state[p] = PS_WFCHILD /\ context'[p] = context[p]
    BY <1>2 DEF Kept, Woken, Waits
  <2>2. PICK ch \in Live : parent[ch] = p /\ pid[ch] = context[p].eax
    BY <2>1 DEF WaitInv, ExecHasChild
  <2>3. ch \in Live'
    BY <2>2
  <2> QED BY <2>1, <2>2, <2>3
<1> QED BY <1>3, <1>4, <1>5, <1>6, <1>7 DEF WaitInv

\* The handlers that only reschedule or do nothing to a process.
LEMMA QuietSteps ==
    ASSUME WaitInv, KernelInv',
           \/ TimerTick \/ SysExitRefused \/ SysWaitpid \/ UserFault \/ PanicLoop
           \/ \E num \in Consoles : KeyFunction(num)
           \/ UNCHANGED vars
    PROVE  WaitInv' /\ Live' = Live /\ \A p \in Live : Kept(p) \/ Waits(p)
<1> USE Typed DEF WaitInv
<1> HIDE DEF KernelInv
<1> SUFFICES /\ Live' = Live
             /\ UNCHANGED <<pid, parent, console, io_queue, dangling>>
             /\ \A p \in Live : Kept(p) \/ Waits(p)
  BY Undisturbed
<1>1. CASE TimerTick \/ SysExitRefused
  <2>1. /\ SwitchTask(procs_list, state, context)
        /\ UNCHANGED <<pid, parent, console, io_queue, dangling>>
    BY <1>1 DEF TimerTick, SysExitRefused, procVars, ttyVars
  <2>2. /\ Live' = Live /\ state' = state
        /\ \A p \in Slots : \/ context'[p] = context[p]
                            \/ context'[p] = InUser /\ (state[p] = PS_RUNABLE \/ p = idle_proc)
    BY <2>1, Switched DEF Live
  <2>3. \A p \in Live : Kept(p)
    BY <2>2 DEF Kept
  <2> QED BY <2>1, <2>2, <2>3
<1>2. CASE SysWaitpid
  <2> DEFINE st == WithCurrent(state, PS_WFCHILD)
             cx == WithCurrent(context, Blocked("waitpid", 0))
  <2>1. /\ SwitchTask(procs_list, st, cx) /\ UserMode
        /\ UNCHANGED <<pid, parent, console, io_queue, dangling>>
    BY <1>2 DEF SysWaitpid, procVars, ttyVars
  <2>2. Blocked("waitpid", 0) \in Contexts
    BY DEF Blocked, Contexts, Ascii, Nul
  <2>3. cx \in [Slots -> Contexts]
    BY <2>2 DEF WithCurrent
  <2>4. /\ current_proc # NULL => /\ current_proc \in Live /\ state[current_proc] = PS_RUNABLE
                                  /\ current_proc # idle_proc
    BY <2>1 DEF UserMode
  <2>5. \A p \in Live :
          \/ st[p] = state[p] /\ cx[p] = context[p]
          \/ /\ state[p] = PS_RUNABLE /\ p # idle_proc
             /\ st[p] = PS_WFCHILD /\ cx[p] = Blocked("waitpid", 0)
    BY <2>4 DEF WithCurrent
  <2> HIDE DEF st, cx
  <2>6. /\ Live' = Live /\ state' = st
        /\ \A p \in Slots : \/ context'[p] = cx[p]
                            \/ context'[p] = InUser /\ (st[p] = PS_RUNABLE \/ p = idle_proc)
    BY <2>1, <2>3, Switched DEF Live
  <2>7. ASSUME NEW p \in Live PROVE Kept(p) \/ Waits(p)
    <3>1. CASE st[p] = state[p] /\ cx[p] = context[p]
      BY <3>1, <2>6 DEF Kept
    <3>2. CASE /\ state[p] = PS_RUNABLE /\ p # idle_proc
               /\ st[p] = PS_WFCHILD /\ cx[p] = Blocked("waitpid", 0)
      <4>1. p \in Slots
        OBVIOUS
      <4>2. PS_WFCHILD # PS_RUNABLE
        BY DEF PS_RUNABLE, PS_WFCHILD
      <4>3. context'[p] = cx[p] /\ state'[p] = PS_WFCHILD
        BY <3>2, <4>1, <4>2, <2>6
      <4> QED BY <3>2, <4>3 DEF Waits
    <3> QED BY <3>1, <3>2, <2>5
  <2> QED BY <2>1, <2>6, <2>7
<1>3. CASE \/ UserFault \/ PanicLoop \/ UNCHANGED vars
           \/ \E num \in Consoles : KeyFunction(num)
  <2>1. UNCHANGED <<procs_list, pid, parent, console, io_queue, dangling, state, context>>
    BY <1>3 DEF UserFault, PanicLoop, KeyFunction, vars, procVars, ttyVars
  <2> QED BY <2>1 DEF Live, Kept
<1> QED BY <1>1, <1>2, <1>3

\* kill_proc: whatever handler calls it, the victim leaves the list, its parent
\* is woken if it waits, and a queue that still has the victim is remembered.
LEMMA KillQuiet ==
    ASSUME WaitInv, KernelInv', NEW v \in Live, CanKill(v),
           Bury(v), state' = StateAfterKill(v),
           \/ procs_list' = RemoveFirst(procs_list, v) /\ context' = ContextAfterKill(v)
           \/ SwitchTask(RemoveFirst(procs_list, v), StateAfterKill(v), ContextAfterKill(v))
    PROVE  /\ WaitInv'
           /\ Live' = Live \ {v}
           /\ \A p \in Live' : Kept(p) \/ (Woken(p) /\ p = parent[v])
<1> DEFINE q == RemoveFirst(procs_list, v)
           st == StateAfterKill(v)
           cx == ContextAfterKill(v)
<1>1. /\ q \in Seq(Slots) /\ Distinct(q) /\ ToSet(q) = Live \ {v} /\ idle_proc \in ToSet(q)
      /\ cx \in [Slots -> Contexts] /\ v \in Slots
      /\ \A p \in ToSet(q) : st[p] = PS_IDLE <=> p = idle_proc
  BY KillSound DEF WaitInv
<1>2. \A p \in Slots : p # v => cx[p] = context[p]
  BY Typed DEF ContextAfterKill, WaitInv
<1>3. Live \subseteq Slots
  BY Typed DEF WaitInv
<1> HIDE DEF q, cx
<1>4. /\ Live' = Live \ {v}
      /\ \A p \in Live' : \/ context'[p] = context[p]
                          \/ context'[p] = InUser /\ (st[p] = PS_RUNABLE \/ p = idle_proc)
  <2>1. CASE procs_list' = q /\ context' = cx
    BY <2>1, <1>1, <1>2, <1>3 DEF Live
  <2>2. CASE SwitchTask(q, st, cx)
    <3>1. /\ Live' = ToSet(q)
          /\ \A p \in Slots :
               \/ context'[p] = cx[p]
               \/ context'[p] = InUser /\ (st[p] = PS_RUNABLE \/ p = idle_proc)
      BY <2>2, <1>1, Switched
    <3> QED BY <3>1, <1>1, <1>2, <1>3
  <2> QED BY <2>1, <2>2 DEF q, cx
<1>5. /\ UNCHANGED <<pid, parent, console, io_queue>>
      /\ dangling \subseteq dangling'
      /\ \A c \in Consoles : v \in ToSet(io_queue[c]) => v \in dangling'
  BY DEF Bury, Referenced, procVars, ttyVars
<1>6. \A p \in Slots : st[p] = IF p = parent[v] /\ state[p] = PS_WFCHILD
                               THEN PS_RUNABLE ELSE state[p]
  BY DEF StateAfterKill
<1> HIDE DEF st
<1>7. state' = st
  BY DEF st
<1>8. ASSUME NEW p \in Live' PROVE Kept(p) \/ (Woken(p) /\ p = parent[v])
  <2>1. p \in Slots /\ p \in ToSet(q)
    BY <1>1, <1>3, <1>4
  <2>2. CASE p = parent[v] /\ state[p] = PS_WFCHILD
    <3>1. state'[p] = PS_RUNABLE
      BY <2>1, <2>2, <1>6, <1>7
    <3> QED BY <3>1, <2>2, <1>4 DEF Woken
  <2>3. CASE ~(p = parent[v] /\ state[p] = PS_WFCHILD)
    <3>1. state'[p] = state[p]
      BY <2>1, <2>3, <1>6, <1>7
    <3>2. p = idle_proc => state'[p] = PS_IDLE
      BY <2>1, <1>1, <1>7
    <3> QED BY <3>1, <3>2, <1>4, <1>7 DEF Kept
  <2> QED BY <2>2, <2>3
<1>9. parent[v] \in Live' => state'[parent[v]] # PS_WFCHILD
  BY <1>3, <1>4, <1>6, <1>7 DEF PS_RUNABLE, PS_WFCHILD
<1>10. WaitInv'
  <2>1. Live' \subseteq Live /\ Live \ Live' = {v}
    BY <1>4
  <2> QED BY <2>1, <1>5, <1>8, <1>9, Undisturbed
<1> QED BY <1>4, <1>8, <1>10

LEMMA KillHandlers ==
    ASSUME WaitInv, KernelInv',
           \/ SysExit \/ SysExitFault
           \/ \E n \in 0 .. MAX_SLOTS : SysKill(n) \/ SysKillSelf(n)
    PROVE  \E v \in Live : /\ CanKill(v) /\ Bury(v) /\ state' = StateAfterKill(v)
                           /\ \/ /\ procs_list' = RemoveFirst(procs_list, v)
                                 /\ context' = ContextAfterKill(v)
                              \/ SwitchTask(RemoveFirst(procs_list, v),
                                            StateAfterKill(v), ContextAfterKill(v))
<1>1. KernelInv /\ (current_proc # NULL => current_proc \in Live)
  BY Typed DEF WaitInv
<1>2. CASE SysExit
  BY <1>1, <1>2 DEF SysExit, SwitchTask
<1>3. CASE SysExitFault
  BY <1>1, <1>3 DEF SysExitFault, KillCurrent
<1>4. CASE \E n \in 0 .. MAX_SLOTS : SysKill(n)
  <2>1. PICK n \in 0 .. MAX_SLOTS : SysKill(n)
    BY <1>4
  <2>2. GetProc(n) \in Live
    BY <2>1, <1>1, FoundLive DEF SysKill
  <2> QED BY <2>1, <2>2 DEF SysKill
<1>5. CASE \E n \in 0 .. MAX_SLOTS : SysKillSelf(n)
  <2>1. PICK n \in 0 .. MAX_SLOTS : SysKillSelf(n)
    BY <1>5
  <2>2. current_proc \in Live
    BY <2>1, <1>1, FoundLive DEF SysKillSelf
  <2> QED BY <2>1, <2>2 DEF SysKillSelf, KillCurrent
<1> QED BY <1>2, <1>3, <1>4, <1>5

\* sys_getch: the reader joins the queue of its console, once.
LEMMA GetchStep ==
    ASSUME WaitInv, KernelInv', SysGetch
    PROVE  /\ WaitInv' /\ Live' = Live
           /\ \A p \in Live : state[p] \in {PS_STOPED, PS_WFCHILD} => Kept(p)
<1> USE DEF PS_RUNABLE, PS_STOPED, PS_WFCHILD, PS_IDLE
<1> DEFINE r == current_proc
           k == console[current_proc]
           q == Append(io_queue[k], r)
           st == [state EXCEPT ![r] = PS_STOPED]
           cx == [context EXCEPT ![r] = Blocked("getch", 0)]
<1>1. /\ SwitchTask(procs_list, st, cx) /\ io_queue' = [io_queue EXCEPT ![k] = q]
      /\ UNCHANGED <<pid, parent, console, dangling>>
      /\ r # NULL /\ r # idle_proc
  BY Typed DEF SysGetch, ReaderConsole, procVars, UserMode, WaitInv
<1>2. r \in Live /\ state[r] = PS_RUNABLE /\ Live \subseteq Slots
  BY <1>1, Typed DEF WaitInv
<1>3. k \in Consoles /\ io_queue[k] \in Seq(Slots) /\ DOMAIN io_queue = Consoles
  BY <1>2, Typed DEF WaitInv
<1>4. /\ q \in Seq(Slots) /\ Len(q) = Len(io_queue[k]) + 1 /\ q[Len(q)] = r
      /\ \A i \in 1 .. Len(io_queue[k]) : q[i] = io_queue[k][i]
      /\ ToSet(q) = ToSet(io_queue[k]) \cup {r}
  BY <1>2, <1>3, AppendProperties, AppendList
<1>5. /\ Blocked("getch", 0) \in Contexts /\ Blocked("getch", 0).at = "getch"
      /\ InUser.at = "user"
  BY DEF Blocked, Contexts, Ascii, Nul, InUser
<1>6. /\ cx \in [Slots -> Contexts] /\ st[r] = PS_STOPED /\ cx[r].at = "getch"
      /\ \A p \in Slots : p # r => st[p] = state[p] /\ cx[p] = context[p]
  BY <1>2, <1>5, Typed DEF WaitInv
<1> HIDE DEF st, cx, q, k, r
<1>7. /\ Live' = Live /\ state' = st
      /\ \A p \in Slots : \/ context'[p] = cx[p]
                          \/ context'[p] = InUser /\ (st[p] = PS_RUNABLE \/ p = idle_proc)
  BY <1>1, <1>6, Typed, Switched DEF Live, WaitInv
<1>8. state'[r] = PS_STOPED /\ context'[r].at = "getch"
  BY <1>1, <1>2, <1>6, <1>7
<1>9. ASSUME NEW p \in Live, p # r PROVE Kept(p)
  <2>1. state'[p] = state[p] /\ (p = idle_proc => state[p] = PS_IDLE)
    BY <1>2, <1>6, <1>7, <1>9, Typed DEF WaitInv
  <2>2. context'[p] = context[p] \/ (context'[p] = InUser /\ state'[p] \in {PS_RUNABLE, PS_IDLE})
    BY <2>1, <1>2, <1>6, <1>7, <1>9
  <2> QED BY <2>1, <2>2 DEF Kept
<1>10. /\ io_queue'[k] = q
       /\ \A c \in Consoles : c # k => io_queue'[c] = io_queue[c]
  BY <1>1, <1>3
<1>11. WaiterQueued'
  <2> SUFFICES ASSUME NEW p \in Live, state'[p] = PS_STOPED
               PROVE  p \in ToSet(io_queue'[console[p]])
    BY <1>1, <1>7 DEF WaiterQueued
  <2>1. CASE p = r
    BY <2>1, <1>4, <1>10 DEF k, r
  <2>2. CASE p # r
    <3>1. p \in ToSet(io_queue[console[p]]) /\ console[p] \in Consoles
      BY <2>2, <1>2, <1>9, Typed DEF Kept, WaitInv, WaiterQueued
    <3> QED BY <3>1, <1>4, <1>10
  <2> QED BY <2>1, <2>2
<1>12. QueueSound'
  <2> SUFFICES ASSUME NEW c \in Consoles, NEW i \in DOMAIN io_queue'[c],
                      io_queue'[c][i] \notin dangling
               PROVE  LET p == io_queue'[c][i]
                      IN  /\ p \in Live' /\ state'[p] = PS_STOPED /\ console'[p] = c
                          /\ context'[p].at = "getch"
                          /\ \A j \in DOMAIN io_queue'[c] : io_queue'[c][j] = p => j = i
    BY <1>1 DEF QueueSound
  <2> DEFINE p == io_queue'[c][i]
             n == Len(io_queue[c])
  <2>1. /\ io_queue[c] \in Seq(Slots) /\ n \in Nat /\ DOMAIN io_queue[c] = 1 .. n
    BY Typed DEF WaitInv
  <2>2. ASSUME NEW x \in Live, x \in ToSet(io_queue[c]), x \notin dangling
        PROVE  state[x] = PS_STOPED /\ x # r
    BY <2>2, <1>2, EntryWaits
  <2>3. \A j \in 1 .. n : io_queue'[c][j] = io_queue[c][j]
    BY <1>4, <1>10
  <2>4. \/ c # k /\ DOMAIN io_queue'[c] = 1 .. n
        \/ /\ c = k /\ DOMAIN io_queue'[c] = 1 .. n + 1 /\ io_queue'[c][n + 1] = r
    BY <1>4, <1>10, <2>1, LenProperties
  <2> HIDE DEF p, n
  <2>5. CASE i \in 1 .. n
    <3>1. p = io_queue[c][i] /\ p \notin dangling /\ i \in DOMAIN io_queue[c]
      BY <2>1, <2>3, <2>5 DEF p
    <3>2. /\ p \in Live /\ state[p] = PS_STOPED /\ console[p] = c /\ context[p].at = "getch"
          /\ \A j \in DOMAIN io_queue[c] : io_queue[c][j] = p => j = i
      BY <3>1 DEF WaitInv, QueueSound
    <3>3. p # r
      BY <3>2, <1>2
    <3>4. state'[p] = PS_STOPED /\ context'[p].at = "getch"
      BY <3>2, <3>3, <1>9 DEF Kept
    <3>5. \A j \in DOMAIN io_queue'[c] : io_queue'[c][j] = p => j = i
      <4> SUFFICES ASSUME NEW j \in DOMAIN io_queue'[c], io_queue'[c][j] = p PROVE j = i
        OBVIOUS
      <4>1. j \in 1 .. n
        BY <2>1, <2>4, <3>3
      <4> QED BY <4>1, <2>1, <2>3, <3>2
    <3> QED BY <3>2, <3>4, <3>5, <1>1, <1>7 DEF p
  <2>6. CASE i \notin 1 .. n
    <3>1. c = k /\ i = n + 1 /\ p = r /\ DOMAIN io_queue'[c] = 1 .. n + 1
      BY <2>1, <2>4, <2>6 DEF p
    <3>2. \A j \in 1 .. n : io_queue[c][j] # r
      <4> SUFFICES ASSUME NEW j \in 1 .. n, io_queue[c][j] = r PROVE FALSE
        OBVIOUS
      <4>1. r \in ToSet(io_queue[c])
        BY <2>1 DEF ToSet
      <4>2. r \notin dangling
        BY <3>1 DEF p
      <4> QED BY <4>1, <4>2, <2>2, <1>2
    <3>3. \A j \in DOMAIN io_queue'[c] : io_queue'[c][j] = p => j = i
      BY <2>1, <2>3, <3>1, <3>2
    <3>4. p \in Live' /\ console'[p] = c
      BY <3>1, <1>1, <1>2, <1>7 DEF k, r
    <3> QED BY <3>1, <3>3, <3>4, <1>8 DEF p
  <2> QED BY <2>5, <2>6
<1>13. GetchAnswered' /\ WaitContext'
  BY <1>5, <1>7, <1>8, <1>9 DEF GetchAnswered, WaitContext, WaitInv, Kept
<1>14. ExecHasChild'
  BY <1>1, <1>5, <1>7, <1>8, <1>9 DEF ExecHasChild, WaitInv, Kept
<1>15. \A p \in Live : state[p] \in {PS_STOPED, PS_WFCHILD} => Kept(p)
  BY <1>2, <1>9
<1> QED BY <1>7, <1>11, <1>12, <1>13, <1>14, <1>15 DEF WaitInv

\* sys_exec: the new process is in no queue unless as a stale entry, and its
\* parent, when it waits, waits for it.
LEMMA ExecWaits ==
    ASSUME WaitInv, KernelInv', NEW x \in Slots, NEW wait \in BOOLEAN, SysExec(x, wait)
    PROVE  /\ WaitInv' /\ Live \subseteq Live'
           /\ \A p \in Live : state[p] \in {PS_STOPED, PS_WFCHILD} => Kept(p)
<1> USE DEF PS_RUNABLE, PS_STOPED, PS_WFCHILD, PS_IDLE
<1> DEFINE q == Append(procs_list, x)
           child == Len(procs_list)
           born == [state EXCEPT ![x] = PS_RUNABLE]
           fresh == [context EXCEPT ![x] = InUser]
           st == WithCurrent(born, PS_WFCHILD)
           cx == WithCurrent(fresh, Blocked("exec", child))
\* How the caller's wait for its new child looks.
           ExecWait(p) == /\ state[p] = PS_RUNABLE /\ state'[p] = PS_WFCHILD
                          /\ context'[p] = Blocked("exec", child)
                          /\ p = current_proc
<1>1. /\ x \notin Live
      /\ pid' = [pid EXCEPT ![x] = child]
      /\ parent' = [parent EXCEPT ![x] = current_proc]
      /\ console' = [console EXCEPT ![x] = current_console]
      /\ UNCHANGED <<io_queue, dangling>>
      /\ UserMode
      /\ \/ SwitchTask(q, st, cx)
         \/ procs_list' = q /\ state' = born /\ context' = fresh
  BY DEF SysExec, ttyVars
<1>2. /\ Live \subseteq Slots /\ procs_list \in Seq(Slots) /\ idle_proc \in Live
      /\ state \in [Slots -> States] /\ context \in [Slots -> Contexts]
      /\ parent \in [Slots -> Slots \cup {NULL}] /\ pid \in [Slots -> 0 .. MAX_SLOTS]
      /\ console \in [Slots -> Consoles] /\ Distinct(procs_list)
      /\ state[idle_proc] = PS_IDLE
      /\ current_proc # NULL => /\ current_proc \in Live /\ current_proc # idle_proc
                                /\ state[current_proc] = PS_RUNABLE
  BY <1>1, Typed DEF WaitInv, UserMode
<1>3. q \in Seq(Slots) /\ Distinct(q) /\ ToSet(q) = Live \cup {x} /\ idle_proc \in ToSet(q)
  BY <1>1, <1>2, AppendList DEF Live
<1>4. /\ pid'[x] = child /\ parent'[x] = current_proc
      /\ \A p \in Live : /\ pid'[p] = pid[p] /\ parent'[p] = parent[p]
                         /\ console'[p] = console[p] /\ p # x
  BY <1>1, <1>2
<1>5. /\ InUser \in Contexts /\ Blocked("exec", child) \in Contexts
      /\ InUser.at = "user" /\ Blocked("exec", child).at = "exec"
      /\ Blocked("exec", child).eax = child
  <2>1. child \in 0 .. MAX_SLOTS
    BY <1>2, ListFits DEF Slots
  <2> HIDE DEF child
  <2> QED BY <2>1 DEF InUser, Blocked, Contexts, Ascii, Nul
<1>6. /\ born \in [Slots -> States] /\ fresh \in [Slots -> Contexts]
      /\ born[x] = PS_RUNABLE /\ fresh[x] = InUser
      /\ \A p \in Live : born[p] = state[p] /\ fresh[p] = context[p]
  <2>1. PS_RUNABLE \in States
    BY DEF States
  <2> QED BY <1>1, <1>2, <1>5, <2>1
<1> HIDE DEF q, child, born, fresh
<1>7. /\ cx \in [Slots -> Contexts] /\ st[x] = PS_RUNABLE /\ cx[x] = InUser
      /\ \A p \in Live : \/ st[p] = state[p] /\ cx[p] = context[p]
                         \/ /\ p = current_proc /\ state[p] = PS_RUNABLE /\ p # idle_proc
                            /\ st[p] = PS_WFCHILD /\ cx[p] = Blocked("exec", child)
  <2>1. CASE current_proc = NULL
    BY <2>1, <1>6 DEF WithCurrent
  <2>2. CASE current_proc # NULL
    <3>1. /\ st = [born EXCEPT ![current_proc] = PS_WFCHILD]
          /\ cx = [fresh EXCEPT ![current_proc] = Blocked("exec", child)]
      BY <2>2 DEF WithCurrent
    <3>2. current_proc \in Slots /\ current_proc # x
      BY <2>2, <1>1, <1>2
    <3> HIDE DEF st, cx
    <3>3. /\ st[current_proc] = PS_WFCHILD /\ cx[current_proc] = Blocked("exec", child)
          /\ cx \in [Slots -> Contexts]
          /\ \A p \in Slots : p # current_proc => st[p] = born[p] /\ cx[p] = fresh[p]
      BY <3>1, <3>2, <1>5, <1>6
    <3> QED BY <3>2, <3>3, <2>2, <1>2, <1>6
  <2> QED BY <2>1, <2>2
<1> HIDE DEF st, cx
<1>8. /\ Live' = Live \cup {x}
      /\ state'[x] = PS_RUNABLE /\ context'[x] = InUser
      /\ \A p \in Live : Kept(p) \/ ExecWait(p)
  <2>1. CASE procs_list' = q /\ state' = born /\ context' = fresh
    BY <2>1, <1>3, <1>6 DEF Live, Kept
  <2>2. CASE SwitchTask(q, st, cx)
    <3>1. /\ Live' = ToSet(q) /\ state' = st
          /\ \A p \in Slots : \/ context'[p] = cx[p]
                              \/ context'[p] = InUser /\ (st[p] = PS_RUNABLE \/ p = idle_proc)
      BY <2>2, <1>3, <1>7, Switched
    <3>2. state'[x] = PS_RUNABLE /\ context'[x] = InUser
      BY <3>1, <1>7
    <3>3. ASSUME NEW p \in Live PROVE Kept(p) \/ ExecWait(p)
      <4>1. p \in Slots /\ (p = idle_proc => state[p] = PS_IDLE)
        BY <1>2
      <4>2. CASE st[p] = state[p] /\ cx[p] = context[p]
        BY <4>1, <4>2, <3>1 DEF Kept
      <4>3. CASE /\ p = current_proc /\ state[p] = PS_RUNABLE /\ p # idle_proc
                 /\ st[p] = PS_WFCHILD /\ cx[p] = Blocked("exec", child)
        <5>1. context'[p] = cx[p] /\ state'[p] = PS_WFCHILD
          BY <4>1, <4>3, <3>1
        <5> QED BY <4>3, <5>1
      <4> QED BY <4>2, <4>3, <1>7
    <3> QED BY <3>1, <3>2, <3>3, <1>3
  <2> QED BY <1>1, <2>1, <2>2
<1>9. WaiterQueued'
  <2> SUFFICES ASSUME NEW p \in Live', state'[p] = PS_STOPED
               PROVE  p \in ToSet(io_queue'[console'[p]])
    BY DEF WaiterQueued
  <2>1. p \in Live /\ state[p] = PS_STOPED
    BY <1>8 DEF Kept
  <2> QED BY <2>1, <1>1, <1>4 DEF WaitInv, WaiterQueued
<1>10. QueueSound'
  <2> SUFFICES ASSUME NEW c \in Consoles, NEW i \in DOMAIN io_queue[c],
                      io_queue[c][i] \notin dangling
               PROVE  LET p == io_queue[c][i]
                      IN  /\ p \in Live' /\ state'[p] = PS_STOPED /\ console'[p] = c
                          /\ context'[p].at = "getch"
                          /\ \A j \in DOMAIN io_queue[c] : io_queue[c][j] = p => j = i
    BY <1>1 DEF QueueSound
  <2> DEFINE p == io_queue[c][i]
  <2>1. /\ p \in Live /\ state[p] = PS_STOPED /\ console[p] = c /\ context[p].at = "getch"
        /\ \A j \in DOMAIN io_queue[c] : io_queue[c][j] = p => j = i
    BY DEF WaitInv, QueueSound
  <2> HIDE DEF p
  <2>2. state'[p] = PS_STOPED /\ context'[p] = context[p]
    BY <2>1, <1>8 DEF Kept
  <2> QED BY <2>1, <2>2, <1>4, <1>8 DEF p
<1>11. GetchAnswered' /\ WaitContext'
  BY <1>5, <1>8 DEF GetchAnswered, WaitContext, WaitInv, Kept
<1>12. ExecHasChild'
  <2> SUFFICES ASSUME NEW p \in Live', state'[p] = PS_WFCHILD, context'[p].at = "exec"
               PROVE  \E ch \in Live' : parent'[ch] = p /\ pid'[ch] = context'[p].eax
    BY DEF ExecHasChild
  <2>1. p \in Live
    BY <1>8
  <2>2. CASE Kept(p)
    <3>1. state[p] = PS_WFCHILD /\ context'[p] = context[p]
      BY <2>2, <1>5 DEF Kept
    <3>2. PICK ch \in Live : parent[ch] = p /\ pid[ch] = context[p].eax
      BY <2>1, <3>1 DEF WaitInv, ExecHasChild
    <3> QED BY <3>1, <3>2, <1>4, <1>8
  <2>3. CASE ExecWait(p)
    BY <2>3, <1>4, <1>5, <1>8
  <2> QED BY <2>1, <2>2, <2>3, <1>8
<1>13. \A p \in Live : state[p] \in {PS_STOPED, PS_WFCHILD} => Kept(p)
  BY <1>8
<1> QED BY <1>8, <1>9, <1>10, <1>11, <1>12, <1>13 DEF WaitInv

\* The keyboard: every reader of the displayed console gets the character.
LEMMA KeyStep ==
    ASSUME WaitInv, KernelInv', NEW c \in Ascii, KeyAscii(c)
    PROVE  /\ WaitInv' /\ Live' = Live
           /\ \A p \in Live \ dangling :
                state'[p] # state[p] => /\ state[p] = PS_STOPED /\ console[p] = current_console
                                        /\ p \notin ToSet(io_queue'[current_console])
<1> USE DEF PS_RUNABLE, PS_STOPED, PS_WFCHILD, PS_IDLE
<1>1. /\ UNCHANGED <<procs_list, pid, parent, console, current_console, dangling>>
      /\ \/ UNCHANGED <<io_queue, state, context>>
         \/ /\ Wakes(c)
            /\ io_queue' = [io_queue EXCEPT ![current_console] = <<>>]
            /\ state' = [p \in Slots |-> IF p \in Readers THEN PS_RUNABLE ELSE state[p]]
            /\ context' = [p \in Slots |-> IF p \in Readers
                             THEN [context[p] EXCEPT !.eax = Delivered(c)] ELSE context[p]]
  BY DEF KeyAscii, procVars
<1>2. Live' = Live
  BY <1>1 DEF Live
<1>3. CASE UNCHANGED <<io_queue, state, context>>
  <2>1. \A p \in Live : Kept(p)
    BY <1>3 DEF Kept
  <2> QED BY <1>1, <1>2, <1>3, <2>1, Undisturbed
<1>4. CASE /\ Wakes(c)
           /\ io_queue' = [io_queue EXCEPT ![current_console] = <<>>]
           /\ state' = [p \in Slots |-> IF p \in Readers THEN PS_RUNABLE ELSE state[p]]
           /\ context' = [p \in Slots |-> IF p \in Readers
                            THEN [context[p] EXCEPT !.eax = Delivered(c)] ELSE context[p]]
  <2>1. /\ current_console \in Consoles /\ Live \subseteq Slots
        /\ io_queue \in [Consoles -> Seq(Slots)] /\ context \in [Slots -> Contexts]
        /\ console \in [Slots -> Consoles]
    BY Typed DEF WaitInv, KernelInv, TypeOK
  <2>2. Readers = ToSet(io_queue[current_console])
    BY DEF Readers, Waiting
  <2>3. Delivered(c) \in Ascii \ {Nul}
    BY <1>4 DEF Wakes, Delivered, Ascii
  <2>4. /\ io_queue'[current_console] = <<>>
        /\ \A k \in Consoles : k # current_console => io_queue'[k] = io_queue[k]
    BY <1>4, <2>1
  <2>5. \A p \in Slots :
          \/ /\ p \in Readers /\ state'[p] = PS_RUNABLE
             /\ context'[p].at = context[p].at /\ context'[p].eax = Delivered(c)
          \/ p \notin Readers /\ state'[p] = state[p] /\ context'[p] = context[p]
    BY <1>4, <2>1 DEF Contexts
  <2>6. ToSet(io_queue'[current_console]) = {}
    BY <2>4 DEF ToSet
  <2>7. \A p \in Live \ dangling :
          p \in Readers => state[p] = PS_STOPED /\ console[p] = current_console
    BY <2>1, <2>2, EntryWaits
  <2>8. WaiterQueued'
    <3> SUFFICES ASSUME NEW p \in Live, state'[p] = PS_STOPED
                 PROVE  p \in ToSet(io_queue'[console[p]])
      BY <1>1, <1>2 DEF WaiterQueued
    <3>1. p \notin Readers /\ state[p] = PS_STOPED /\ console[p] \in Consoles
      BY <2>1, <2>5
    <3>2. p \in ToSet(io_queue[console[p]])
      BY <3>1 DEF WaitInv, WaiterQueued
    <3> QED BY <3>1, <3>2, <2>2, <2>4
  <2>9. QueueSound'
    <3> SUFFICES ASSUME NEW k \in Consoles, NEW i \in DOMAIN io_queue'[k],
                        io_queue'[k][i] \notin dangling
                 PROVE  LET p == io_queue'[k][i]
                        IN  /\ p \in Live /\ state'[p] = PS_STOPED /\ console[p] = k
                            /\ context'[p].at = "getch"
                            /\ \A j \in DOMAIN io_queue'[k] : io_queue'[k][j] = p => j = i
      BY <1>1, <1>2 DEF QueueSound
    <3> DEFINE p == io_queue'[k][i]
    <3>1. k # current_console /\ io_queue'[k] = io_queue[k]
      BY <2>4
    <3>2. /\ p \in Live /\ state[p] = PS_STOPED /\ console[p] = k /\ context[p].at = "getch"
          /\ \A j \in DOMAIN io_queue[k] : io_queue[k][j] = p => j = i
      BY <3>1 DEF WaitInv, QueueSound
    <3>3. p \notin dangling
      OBVIOUS
    <3> HIDE DEF p
    <3>4. p \notin Readers
      BY <3>1, <3>2, <3>3, <2>7
    <3> QED BY <3>1, <3>2, <3>4, <2>1, <2>5 DEF p
  <2>10. GetchAnswered' /\ WaitContext'
    <3>1. ASSUME NEW p \in Live, state'[p] = PS_RUNABLE, context'[p].at = "getch"
          PROVE  context'[p].eax \in Ascii \ {Nul}
      <4>1. CASE p \in Readers
        BY <4>1, <2>1, <2>3, <2>5
      <4>2. CASE p \notin Readers
        BY <4>2, <3>1, <2>1, <2>5 DEF WaitInv, GetchAnswered
      <4> QED BY <4>1, <4>2
    <3>2. ASSUME NEW p \in Live, state'[p] = PS_WFCHILD PROVE context'[p].at # "getch"
      <4>1. p \notin Readers /\ state[p] = PS_WFCHILD /\ context'[p] = context[p]
        BY <3>2, <2>1, <2>5
      <4> QED BY <4>1 DEF WaitInv, WaitContext
    <3> QED BY <3>1, <3>2, <1>2 DEF GetchAnswered, WaitContext
  <2>11. ExecHasChild'
    <3>1. ASSUME NEW p \in Live, state'[p] = PS_WFCHILD, context'[p].at = "exec"
          PROVE  \E ch \in Live : parent[ch] = p /\ pid[ch] = context'[p].eax
      <4>1. p \notin Readers /\ state[p] = PS_WFCHILD /\ context'[p] = context[p]
        BY <3>1, <2>1, <2>5
      <4> QED BY <4>1, <3>1 DEF WaitInv, ExecHasChild
    <3> QED BY <3>1, <1>1, <1>2 DEF ExecHasChild
  <2> QED BY <1>2, <2>1, <2>5, <2>6, <2>7, <2>8, <2>9, <2>10, <2>11 DEF WaitInv
<1> QED BY <1>1, <1>3, <1>4

(***************************************************************************)
(* The theorems                                                            *)
(***************************************************************************)

\* The boot: nobody waits.
THEOREM BootWaits == Init => WaitInv
<1> SUFFICES ASSUME Init PROVE WaitInv
  OBVIOUS
<1>1. KernelInv
  BY BootSound
<1>2. \A p \in Live : state[p] \in {PS_IDLE, PS_RUNABLE} /\ context[p].at = "user"
  <2>1. Live = BootProcs
    BY DEF Init, Live, ToSet
  <2> QED BY <2>1, <1>1, Typed DEF Init, InUser
<1>3. WaiterQueued /\ GetchAnswered /\ WaitContext /\ ExecHasChild
  BY <1>2 DEF WaiterQueued, GetchAnswered, WaitContext, ExecHasChild,
              PS_RUNABLE, PS_STOPED, PS_WFCHILD, PS_IDLE
<1>4. QueueSound
  BY DEF Init, QueueSound
<1> QED BY <1>1, <1>3, <1>4 DEF WaitInv

\* Every handler preserves the invariant of the waits.
THEOREM WaitStep == WaitInv /\ [Next]_vars => WaitInv'
<1> SUFFICES ASSUME WaitInv, [Next]_vars PROVE WaitInv'
  OBVIOUS
<1>1. KernelInv'
  BY KernelStep DEF WaitInv
<1>2. CASE \/ TimerTick \/ SysExitRefused \/ SysWaitpid \/ UserFault \/ PanicLoop
           \/ \E num \in Consoles : KeyFunction(num)
           \/ UNCHANGED vars
  BY <1>1, <1>2, QuietSteps
<1>3. CASE \/ SysExit \/ SysExitFault
           \/ \E n \in 0 .. MAX_SLOTS : SysKill(n) \/ SysKillSelf(n)
  <2>1. PICK v \in Live :
          /\ CanKill(v) /\ Bury(v) /\ state' = StateAfterKill(v)
          /\ \/ procs_list' = RemoveFirst(procs_list, v) /\ context' = ContextAfterKill(v)
             \/ SwitchTask(RemoveFirst(procs_list, v), StateAfterKill(v), ContextAfterKill(v))
    BY <1>1, <1>3, KillHandlers
  <2> QED BY <2>1, <1>1, KillQuiet
<1>4. CASE SysGetch
  BY <1>1, <1>4, GetchStep
<1>5. CASE \E x \in Slots, wait \in BOOLEAN : SysExec(x, wait)
  BY <1>1, <1>5, ExecWaits
<1>6. CASE \E c \in Ascii : KeyAscii(c)
  BY <1>1, <1>6, KeyStep
<1> QED BY <1>2, <1>3, <1>4, <1>5, <1>6 DEF Next

\* The waits are sound in every reachable state.
THEOREM WaitCorrect == Spec => []WaitInv
BY BootWaits, WaitStep, PTL DEF Spec

\* No key is lost: a reader is in the queue where process_key will look for it
\* (console.c:157, sys.c:38).
THEOREM KeysReachReaders == Spec => []WaiterQueued
<1>1. WaitInv => WaiterQueued
  BY DEF WaitInv
<1> QED BY <1>1, WaitCorrect, PTL

\* An entry of a queue that is not dangling is a reader of that console, and is
\* there once.
THEOREM QueuesHoldReaders == Spec => []QueueSound
<1>1. WaitInv => QueueSound
  BY DEF WaitInv
<1> QED BY <1>1, WaitCorrect, PTL

\* getch returns a character, never the 0 that sys_getch put into eax first.
THEOREM GetchReturns == Spec => []GetchAnswered
<1>1. WaitInv => GetchAnswered
  BY DEF WaitInv
<1> QED BY <1>1, WaitCorrect, PTL

\* exec(file, 1) never waits for a child that is gone.
THEOREM ExecWakeable == Spec => []ExecHasChild
<1>1. WaitInv => ExecHasChild
  BY DEF WaitInv
<1> QED BY <1>1, WaitCorrect, PTL

\* In one step the state of a waiting process changes only as the two action
\* properties of Proc allow.
LEMMA WakeStep == WaitInv /\ WaitInv' /\ [Next]_vars => [ChildWake]_vars /\ [KeyWake]_vars
<1> SUFFICES ASSUME WaitInv, WaitInv', Next PROVE ChildWake /\ KeyWake
  OBVIOUS
<1> USE DEF PS_RUNABLE, PS_STOPED, PS_WFCHILD, PS_IDLE
<1>1. KernelInv'
  BY DEF WaitInv
<1>2. ASSUME \A p \in Live : state[p] \in {PS_STOPED, PS_WFCHILD} => state'[p] = state[p]
      PROVE  ChildWake /\ KeyWake
  BY <1>2 DEF ChildWake, KeyWake
<1>3. CASE \/ TimerTick \/ SysExitRefused \/ SysWaitpid \/ UserFault \/ PanicLoop
           \/ \E num \in Consoles : KeyFunction(num)
  <2>1. \A p \in Live : Kept(p) \/ Waits(p)
    BY <1>1, <1>3, QuietSteps
  <2> QED BY <2>1, <1>2 DEF Kept, Waits
<1>4. CASE SysGetch \/ \E x \in Slots, wait \in BOOLEAN : SysExec(x, wait)
  <2>1. \A p \in Live : state[p] \in {PS_STOPED, PS_WFCHILD} => Kept(p)
    BY <1>1, <1>4, GetchStep, ExecWaits
  <2> QED BY <2>1, <1>2 DEF Kept
<1>5. CASE \/ SysExit \/ SysExitFault
           \/ \E n \in 0 .. MAX_SLOTS : SysKill(n) \/ SysKillSelf(n)
  <2>1. PICK v \in Live :
          /\ CanKill(v) /\ Bury(v) /\ state' = StateAfterKill(v)
          /\ \/ procs_list' = RemoveFirst(procs_list, v) /\ context' = ContextAfterKill(v)
             \/ SwitchTask(RemoveFirst(procs_list, v), StateAfterKill(v), ContextAfterKill(v))
    BY <1>1, <1>5, KillHandlers
  <2>2. /\ Live' = Live \ {v}
        /\ \A p \in Live' : Kept(p) \/ (Woken(p) /\ p = parent[v])
    BY <2>1, <1>1, KillQuiet
  <2> QED BY <2>2 DEF ChildWake, KeyWake, Kept, Woken
<1>6. CASE \E c \in Ascii : KeyAscii(c)
  <2>1. \A p \in Live \ dangling :
          state'[p] # state[p] => /\ state[p] = PS_STOPED /\ console[p] = current_console
                                  /\ p \notin ToSet(io_queue'[current_console])
    BY <1>1, <1>6, KeyStep
  <2> QED BY <2>1 DEF ChildWake, KeyWake
<1> QED BY <1>3, <1>4, <1>5, <1>6 DEF Next

\* A wait for a child ends by the death of a child, a wait for a key by a key
\* typed on the reader's own console, and by nothing else.
THEOREM OnlyTheRightWake == Spec => ChildWakeOnly /\ KeyWakeOnly
<1>1. Spec => [][ChildWake]_vars /\ [][KeyWake]_vars
  BY WaitCorrect, WakeStep, PTL DEF Spec
<1> QED BY <1>1 DEF ChildWakeOnly, KeyWakeOnly

(***************************************************************************)
(* Refinement: what the programs see of all this                           *)
(***************************************************************************)
\* What a task shows of its process.
LEMMA SeenAs ==
    /\ DOMAIN AsTasks = Live
    /\ \A p \in Live : AsTasks[p] = [wait |-> WaitsFor(p), parent |-> parent[p], line |-> console[p]]
BY DEF AsTasks

\* What a task waits for, by the state of its process.
LEMMA Waiting4 ==
    ASSUME NEW p \in Slots
    PROVE  /\ (WaitsFor(p) = "key") <=> (state[p] = PS_STOPED)
           /\ (WaitsFor(p) = "child") <=> (state[p] = PS_WFCHILD)
           /\ (WaitsFor(p) = "nothing") <=> (state[p] \in {PS_RUNABLE, PS_IDLE})
BY DEF WaitsFor, PS_RUNABLE, PS_STOPED, PS_WFCHILD, PS_IDLE

\* switch_task gives the CPU to a task that is ready, or to the idle one when
\* none is.
LEMMA Dispatches ==
    ASSUME KernelInv', NEW q \in Seq(Slots), Distinct(q), idle_proc \in ToSet(q),
           NEW st, NEW cx, SwitchTask(q, st, cx)
    PROVE  Promise!Dispatch
<1> DEFINE R == RunableAt(q, st)
           k == FirstRunable(q, st)
           ready == {p \in Live' : p # idle_proc /\ state'[p] = PS_RUNABLE}
<1>1. /\ procs_list' = Turned(q, st) /\ current_proc' = Chosen(q, st) /\ state' = st
  BY DEF SwitchTask
<1>2. /\ Live' = ToSet(q) /\ Chosen(q, st) \in ToSet(q)
      /\ st[Chosen(q, st)] = PS_RUNABLE \/ Chosen(q, st) = idle_proc
  BY <1>1, Schedule DEF Live
<1>3. /\ Live' \subseteq Slots /\ \A p \in Live' : state'[p] = PS_IDLE <=> p = idle_proc
  <2>1. ToSet(q) \subseteq Slots
    BY ElementOfSeq, LenProperties DEF ToSet
  <2> QED BY <2>1, <1>2 DEF KernelInv, ListSound
<1>4. Promise!Ready' = ready
  <2>1. \A p \in Live' : (WaitsFor(p)' = "nothing") <=> (state'[p] \in {PS_RUNABLE, PS_IDLE})
    BY <1>3 DEF WaitsFor, PS_RUNABLE, PS_STOPED, PS_WFCHILD, PS_IDLE
  <2>2. DOMAIN AsTasks' = Live' /\ \A p \in Live' : AsTasks'[p].wait = WaitsFor(p)'
    BY DEF AsTasks
  <2> QED BY <2>1, <2>2, <1>3 DEF Promise!Ready
<1>5. CASE R = {}
  <2>1. current_proc' = idle_proc
    BY <1>1, <1>5 DEF Chosen
  <2>2. \A p \in ToSet(q) : st[p] # PS_RUNABLE
    BY <1>5 DEF RunableAt, ToSet
  <2>3. ready = {}
    BY <2>2, <1>1, <1>2
  <2> HIDE DEF ready
  <2> QED BY <2>1, <2>3, <1>4 DEF Promise!Dispatch
<1>6. CASE R # {}
  <2>1. Len(q) \in Nat /\ DOMAIN q = 1 .. Len(q)
    BY LenProperties
  <2>2. R \subseteq Nat
    BY <2>1 DEF RunableAt
  <2>3. k \in R
    BY <1>6, <2>2, LeastPosition DEF FirstRunable
  <2>4. st[q[k]] = PS_RUNABLE /\ Chosen(q, st) = q[k]
    BY <1>6, <2>3 DEF RunableAt, Chosen
  <2>5. PS_RUNABLE # PS_IDLE
    BY DEF PS_RUNABLE, PS_IDLE
  <2> HIDE DEF k
  <2>6. q[k] \in ready
    BY <1>1, <1>2, <1>3, <2>4, <2>5
  <2> HIDE DEF ready
  <2> QED BY <1>1, <1>4, <2>4, <2>6 DEF Promise!Dispatch
<1> QED BY <1>5, <1>6

\* The boot leaves the idle task and a shell on each line.
LEMMA SeenInit == Init => Promise!Init
<1> SUFFICES ASSUME Init PROVE Promise!Init
  OBVIOUS
<1> USE Numbers
<1>1. Live = BootProcs /\ idle_proc \in BootProcs
  BY DEF Init, Live, ToSet, BootProcs, idle_proc
<1>2. DOMAIN AsTasks = BootProcs /\ AsTasks[idle_proc].wait = "nothing"
  BY <1>1 DEF AsTasks, WaitsFor, Init, PS_RUNABLE, PS_STOPED, PS_WFCHILD, PS_IDLE
<1>3. \A p \in BootProcs \ {idle_proc} :
        /\ p - 2 \in Consoles
        /\ AsTasks[p] = [wait |-> "nothing", parent |-> idle_proc, line |-> p - 2]
  <2>1. \A p \in BootProcs \ {idle_proc} :
          /\ state[p] = PS_RUNABLE /\ parent[p] = idle_proc /\ console[p] = p - 2
          /\ p - 2 \in Consoles
    BY DEF Init, BootProcs, Consoles, idle_proc, Slots
  <2>2. \A p \in BootProcs \ {idle_proc} : WaitsFor(p) = "nothing"
    BY <2>1, Waiting4
  <2> QED BY <1>1, <2>1, <2>2, SeenAs
<1>4. \A on \in Consoles : on + 2 \in BootProcs \ {idle_proc} /\ on = (on + 2) - 2
  BY DEF Consoles, BootProcs, idle_proc
<1>5. ASSUME NEW on \in Consoles
      PROVE  \E p \in BootProcs \ {idle_proc} : AsTasks[p].line = on
  <2>1. PICK p \in BootProcs \ {idle_proc} : on = p - 2
    BY <1>4
  <2>2. AsTasks[p] = [wait |-> "nothing", parent |-> idle_proc, line |-> on]
    BY <2>1, <1>3
  <2> QED BY <2>2
<1>6. current_proc = idle_proc /\ current_console \in Consoles /\ dangling = {}
  BY DEF Init
<1> QED BY <1>2, <1>3, <1>5, <1>6 DEF Promise!Init, Promise!Task

\* A handler that leaves list, states, parents and consoles alone shows nothing.
LEMMA SeenSame ==
    ASSUME Live' = Live, UNCHANGED <<parent, console>>, \A p \in Live : state'[p] = state[p]
    PROVE  AsTasks' = AsTasks
<1>1. \A p \in Live : WaitsFor(p)' = WaitsFor(p)
  BY DEF WaitsFor
<1> QED BY <1>1 DEF AsTasks

\* A blocking call: the caller waits, no other task is touched.
LEMMA SeenWait ==
    ASSUME WaitInv, Live' = Live, UNCHANGED <<parent, console>>,
           NEW s \in {PS_STOPED, PS_WFCHILD}, current_proc \in Live,
           state' = [state EXCEPT ![current_proc] = s]
    PROVE  AsTasks' = [AsTasks EXCEPT ![current_proc].wait =
                          IF s = PS_STOPED THEN "key" ELSE "child"]
<1>1. Live \subseteq Slots /\ state \in [Slots -> States]
  BY Typed DEF WaitInv
<1>2. \A p \in Live : state'[p] = IF p = current_proc THEN s ELSE state[p]
  BY <1>1
<1>3. \A p \in Live : WaitsFor(p)' = IF p # current_proc THEN WaitsFor(p)
                                     ELSE IF s = PS_STOPED THEN "key" ELSE "child"
  BY <1>2 DEF WaitsFor, PS_RUNABLE, PS_STOPED, PS_WFCHILD, PS_IDLE
<1> QED BY <1>3 DEF AsTasks

\* The timer, the calls that only yield, and what stops the machine.
LEMMA SeenQuiet ==
    ASSUME WaitInv, KernelInv',
           \/ TimerTick \/ SysExitRefused \/ UserFault \/ PanicLoop
           \/ \E num \in Consoles : KeyFunction(num)
           \/ UNCHANGED vars
    PROVE  \/ Promise!Next
           \/ UNCHANGED <<AsTasks, current_proc, current_console, dangling>>
<1> USE Typed DEF WaitInv
<1> HIDE DEF KernelInv
<1>1. CASE TimerTick \/ SysExitRefused
  <2>1. /\ SwitchTask(procs_list, state, context)
        /\ UNCHANGED <<parent, console, current_console, dangling>>
    BY <1>1 DEF TimerTick, SysExitRefused, procVars, ttyVars
  <2>2. Live' = Live /\ state' = state
    BY <2>1, Switched DEF Live
  <2>3. AsTasks' = AsTasks
    BY <2>1, <2>2, SeenSame
  <2>4. Promise!Dispatch
    BY <2>1, Dispatches DEF Live
  <2> QED BY <2>1, <2>3, <2>4 DEF Promise!Next, Promise!Tick
<1>2. CASE \E num \in Consoles : KeyFunction(num)
  <2>1. PICK num \in Consoles : KeyFunction(num)
    BY <1>2
  <2>2. /\ UNCHANGED <<procs_list, parent, console, state, current_proc, dangling>>
        /\ current_console' = num
    BY <2>1 DEF KeyFunction, procVars, cpuVars
  <2>3. AsTasks' = AsTasks
    BY <2>2, SeenSame DEF Live
  <2> QED BY <2>2, <2>3 DEF Promise!Next, Promise!Show
<1>3. CASE UserFault \/ PanicLoop \/ UNCHANGED vars
  <2>1. UNCHANGED <<procs_list, parent, console, state, current_proc, current_console, dangling>>
    BY <1>3 DEF UserFault, PanicLoop, vars, procVars, cpuVars, ttyVars
  <2>2. AsTasks' = AsTasks
    BY <2>1, SeenSame DEF Live
  <2> QED BY <2>1, <2>2
<1> QED BY <1>1, <1>2, <1>3

\* waitpid blocks its caller, if there is one; getch always does.
LEMMA SeenBlock ==
    ASSUME WaitInv, KernelInv', SysWaitpid \/ SysGetch
    PROVE  Promise!Next
<1> USE Typed DEF WaitInv
<1> HIDE DEF KernelInv
<1>1. UserMode /\ UNCHANGED <<parent, console, current_console, dangling>>
  BY DEF SysWaitpid, SysGetch, procVars, ttyVars
<1>2. current_proc # NULL => current_proc \in Live /\ Promise!Caller
  BY <1>1 DEF UserMode, Promise!Caller
<1>3. ASSUME NEW st, NEW cx \in [Slots -> Contexts], SwitchTask(procs_list, st, cx)
      PROVE  Live' = Live /\ state' = st /\ Promise!Dispatch
  <2>1. Live' = Live /\ state' = st
    BY <1>3, Switched DEF Live
  <2>2. Promise!Dispatch
    BY <1>3, Dispatches DEF Live
  <2> QED BY <2>1, <2>2
<1>4. Blocked("waitpid", 0) \in Contexts /\ Blocked("getch", 0) \in Contexts
  BY DEF Blocked, Contexts, Ascii, Nul
<1>5. PS_STOPED # PS_WFCHILD
  BY DEF PS_STOPED, PS_WFCHILD
<1>6. CASE SysWaitpid /\ current_proc = NULL
  <2>1. SwitchTask(procs_list, state, context)
    BY <1>6 DEF SysWaitpid, WithCurrent
  <2>2. AsTasks' = AsTasks /\ Promise!Dispatch
    BY <2>1, <1>1, <1>3, SeenSame
  <2> QED BY <2>2, <1>1 DEF Promise!Next, Promise!Tick
<1>7. CASE SysWaitpid /\ current_proc # NULL
  <2> DEFINE st == [state EXCEPT ![current_proc] = PS_WFCHILD]
             cx == [context EXCEPT ![current_proc] = Blocked("waitpid", 0)]
  <2>1. SwitchTask(procs_list, st, cx)
    BY <1>7 DEF SysWaitpid, WithCurrent
  <2>2. cx \in [Slots -> Contexts]
    BY <1>4
  <2>3. Live' = Live /\ state' = st /\ Promise!Dispatch
    BY <2>1, <2>2, <1>3
  <2>4. AsTasks' = [AsTasks EXCEPT ![current_proc].wait = "child"]
    BY <2>3, <1>1, <1>2, <1>5, <1>7, SeenWait
  <2> QED BY <2>3, <2>4, <1>1, <1>2, <1>7 DEF Promise!Next, Promise!Wait
<1>8. CASE SysGetch
  <2> DEFINE st == [state EXCEPT ![current_proc] = PS_STOPED]
             cx == [context EXCEPT ![current_proc] = Blocked("getch", 0)]
  <2>1. SwitchTask(procs_list, st, cx) /\ current_proc # NULL
    BY <1>8 DEF SysGetch
  <2>2. cx \in [Slots -> Contexts]
    BY <1>4
  <2>3. Live' = Live /\ state' = st /\ Promise!Dispatch
    BY <2>1, <2>2, <1>3
  <2>4. AsTasks' = [AsTasks EXCEPT ![current_proc].wait = "key"]
    BY <2>1, <2>3, <1>1, <1>2, SeenWait
  <2> QED BY <2>1, <2>3, <2>4, <1>1, <1>2 DEF Promise!Next, Promise!Wait
<1> QED BY <1>6, <1>7, <1>8

\* exit and kill: the victim is neither the idle task nor a shell, and its
\* parent no longer waits.
LEMMA SeenDie ==
    ASSUME WaitInv, KernelInv',
           \/ SysExit \/ SysExitFault
           \/ \E n \in 0 .. MAX_SLOTS : SysKill(n) \/ SysKillSelf(n)
    PROVE  Promise!Next
<1> USE Typed DEF WaitInv
<1> HIDE DEF KernelInv
<1>1. PICK v \in Live :
        /\ CanKill(v) /\ Bury(v) /\ state' = StateAfterKill(v)
        /\ \/ /\ v = current_proc /\ current_proc' = NULL
              /\ procs_list' = RemoveFirst(procs_list, v)
           \/ /\ v # current_proc /\ UNCHANGED current_proc
              /\ procs_list' = RemoveFirst(procs_list, v)
           \/ /\ v = current_proc
              /\ SwitchTask(RemoveFirst(procs_list, v), StateAfterKill(v), ContextAfterKill(v))
  <2>1. CASE SysExit
    BY <2>1 DEF SysExit, SwitchTask
  <2>2. CASE SysExitFault
    BY <2>2 DEF SysExitFault, KillCurrent
  <2>3. CASE \E n \in 0 .. MAX_SLOTS : SysKillSelf(n)
    <3>1. PICK n \in 0 .. MAX_SLOTS : SysKillSelf(n)
      BY <2>3
    <3>2. current_proc \in Live
      BY <3>1, FoundLive DEF SysKillSelf
    <3> QED BY <3>1, <3>2 DEF SysKillSelf, KillCurrent
  <2>4. CASE \E n \in 0 .. MAX_SLOTS : SysKill(n)
    <3>1. PICK n \in 0 .. MAX_SLOTS : SysKill(n)
      BY <2>4
    <3>2. GetProc(n) \in Live
      BY <3>1, FoundLive DEF SysKill
    <3> QED BY <3>1, <3>2 DEF SysKill, cpuVars
  <2> QED BY <2>1, <2>2, <2>3, <2>4
<1> DEFINE q == RemoveFirst(procs_list, v)
<1>2. /\ v \in Slots /\ v # idle_proc
      /\ q \in Seq(Slots) /\ Distinct(q) /\ ToSet(q) = Live \ {v} /\ idle_proc \in ToSet(q)
      /\ ContextAfterKill(v) \in [Slots -> Contexts]
  BY <1>1, KillSound
<1>3. Live' = Live \ {v}
  <2>1. CASE procs_list' = q
    BY <2>1, <1>2 DEF Live
  <2>2. CASE SwitchTask(q, StateAfterKill(v), ContextAfterKill(v))
    BY <2>2, <1>2, Switched
  <2> QED BY <1>1, <2>1, <2>2
<1>4. IF v = current_proc THEN current_proc' = NULL \/ Promise!Dispatch ELSE UNCHANGED current_proc
  <2>1. CASE SwitchTask(q, StateAfterKill(v), ContextAfterKill(v)) /\ v = current_proc
    BY <2>1, <1>2, Dispatches
  <2> QED BY <1>1, <2>1
<1>5. /\ UNCHANGED <<parent, console, current_console>>
      /\ dangling' \in {dangling, dangling \cup {v}}
  BY <1>1 DEF Bury, procVars, ttyVars
<1>6. parent[v] # idle_proc
  <2>1. pid[idle_proc] = 0 /\ idle_proc # NULL
    BY Numbers DEF KernelInv, ListSound
  <2> QED BY <1>1, <2>1 DEF CanKill, ParentPid, Protected
<1>7. \A p \in Live' : WaitsFor(p)' = IF p = parent[v] /\ WaitsFor(p) = "child"
                                      THEN "nothing" ELSE WaitsFor(p)
  BY <1>1, <1>3 DEF StateAfterKill, WaitsFor, PS_RUNABLE, PS_STOPED, PS_WFCHILD, PS_IDLE
<1>8. AsTasks' = [p \in Live \ {v} |->
                    IF p = parent[v] /\ AsTasks[p].wait = "child"
                    THEN [AsTasks[p] EXCEPT !.wait = "nothing"] ELSE AsTasks[p]]
  BY <1>3, <1>5, <1>7 DEF AsTasks
<1>9. AsTasks[v].parent = parent[v] /\ DOMAIN AsTasks = Live
  BY SeenAs
<1>10. Promise!Die(v)
  BY <1>2, <1>4, <1>5, <1>6, <1>8, <1>9 DEF Promise!Die
<1> QED BY <1>9, <1>10 DEF Promise!Next

\* exec: a new task, for which its parent may wait.
LEMMA SeenStart ==
    ASSUME WaitInv, KernelInv', NEW x \in Slots, NEW wait \in BOOLEAN, SysExec(x, wait)
    PROVE  Promise!Next
<1> USE Typed DEF WaitInv
<1> HIDE DEF KernelInv
<1> DEFINE child == Len(procs_list)
           born  == [state EXCEPT ![x] = PS_RUNABLE]
           fresh == [context EXCEPT ![x] = InUser]
           q     == Append(procs_list, x)
<1>1. /\ UserMode /\ x \notin Live
      /\ parent' = [parent EXCEPT ![x] = current_proc]
      /\ console' = [console EXCEPT ![x] = current_console]
      /\ UNCHANGED <<current_console, dangling>>
      /\ \/ SwitchTask(q, WithCurrent(born, PS_WFCHILD), WithCurrent(fresh, Blocked("exec", child)))
         \/ procs_list' = q /\ state' = born /\ UNCHANGED current_proc
  BY DEF SysExec, ttyVars, cpuVars
<1>2. /\ current_proc # idle_proc
      /\ current_proc # NULL => /\ current_proc \in Live /\ Promise!Caller /\ x # current_proc
                                /\ state[current_proc] = PS_RUNABLE
  BY <1>1, Numbers DEF UserMode, Promise!Caller
<1>3. /\ q \in Seq(Slots) /\ Distinct(q) /\ ToSet(q) = Live \cup {x} /\ idle_proc \in ToSet(q)
  BY <1>1, AppendList DEF Live
<1>4. ASSUME Live' = Live \cup {x}, state' = born
      PROVE  AsTasks' = [p \in Live \cup {x} |->
                IF p = x THEN [wait |-> "nothing", parent |-> current_proc, line |-> current_console]
                ELSE AsTasks[p]]
  <2>1. \A p \in Live' : WaitsFor(p)' = IF p = x THEN "nothing" ELSE WaitsFor(p)
    BY <1>4 DEF WaitsFor, PS_RUNABLE, PS_STOPED, PS_WFCHILD, PS_IDLE
  <2>2. \A p \in Live' : /\ parent'[p] = IF p = x THEN current_proc ELSE parent[p]
                         /\ console'[p] = IF p = x THEN current_console ELSE console[p]
    BY <1>1, <1>4
  <2> QED BY <1>4, <2>1, <2>2 DEF AsTasks
<1>5. CASE procs_list' = q /\ state' = born /\ UNCHANGED current_proc
  <2>1. Live' = Live \cup {x}
    BY <1>3, <1>5 DEF Live
  <2>2. Promise!Start(x)
    BY <1>1, <1>2, <1>4, <1>5, <2>1, SeenAs DEF Promise!Start, Promise!Task
  <2> QED BY <2>2 DEF Promise!Next
<1>6. CASE SwitchTask(q, WithCurrent(born, PS_WFCHILD), WithCurrent(fresh, Blocked("exec", child)))
  <2>1. Live' = Live \cup {x} /\ state' = WithCurrent(born, PS_WFCHILD) /\ Promise!Dispatch
    <3>1. procs_list' = Turned(q, WithCurrent(born, PS_WFCHILD)) /\ state' = WithCurrent(born, PS_WFCHILD)
      BY <1>6 DEF SwitchTask
    <3>2. Live' = ToSet(q)
      BY <3>1, <1>3, Schedule DEF Live
    <3>3. Promise!Dispatch
      BY <1>3, <1>6, Dispatches
    <3> QED BY <3>1, <3>2, <3>3, <1>3
  <2>2. CASE current_proc = NULL
    <3>1. state' = born
      BY <2>1, <2>2 DEF WithCurrent
    <3>2. Promise!Start(x)
      BY <1>1, <1>2, <1>4, <2>1, <2>2, <3>1, SeenAs DEF Promise!Start, Promise!Task
    <3> QED BY <3>2 DEF Promise!Next
  <2>3. CASE current_proc # NULL
    <3>1. state' = [born EXCEPT ![current_proc] = PS_WFCHILD]
      BY <2>1, <2>3 DEF WithCurrent
    <3>2. PICK r \in Live : r = current_proc /\ r # x
      BY <1>2, <2>3
    <3>3. /\ state'[x] = PS_RUNABLE /\ state'[r] = PS_WFCHILD
          /\ \A p \in Live \ {r} : state'[p] = state[p]
      BY <1>1, <3>1, <3>2
    <3>4. \A p \in Live' : WaitsFor(p)' = IF p = x THEN "nothing"
                                          ELSE IF p = r THEN "child" ELSE WaitsFor(p)
      <4>1. WaitsFor(x)' = "nothing" /\ WaitsFor(r)' = "child"
        BY <3>3 DEF WaitsFor, PS_RUNABLE, PS_STOPED, PS_WFCHILD, PS_IDLE
      <4>2. \A p \in Live \ {r} : WaitsFor(p)' = WaitsFor(p)
        BY <3>3 DEF WaitsFor
      <4> QED BY <4>1, <4>2, <2>1, <3>2
    <3>5. \A p \in Live' : /\ parent'[p] = IF p = x THEN current_proc ELSE parent[p]
                           /\ console'[p] = IF p = x THEN current_console ELSE console[p]
      BY <1>1, <2>1
    <3>6. AsTasks' = [p \in Live \cup {x} |->
            IF p = x THEN [wait |-> "nothing", parent |-> current_proc, line |-> current_console]
            ELSE IF p = current_proc THEN [AsTasks[p] EXCEPT !.wait = "child"] ELSE AsTasks[p]]
      BY <2>1, <3>2, <3>4, <3>5 DEF AsTasks
    <3>7. Promise!StartAndWait(x)
      BY <1>1, <1>2, <2>1, <2>3, <3>6, SeenAs DEF Promise!StartAndWait, Promise!Task
    <3> QED BY <3>7 DEF Promise!Next
  <2> QED BY <2>2, <2>3
<1> QED BY <1>1, <1>5, <1>6

\* A key: the readers in the queue are the tasks that wait for it, and bearers of
\* a stale name.
LEMMA SeenKey ==
    ASSUME WaitInv, KernelInv', NEW c \in Ascii, KeyAscii(c)
    PROVE  \/ Promise!Next
           \/ UNCHANGED <<AsTasks, current_proc, current_console, dangling>>
<1> USE Typed DEF WaitInv
<1> HIDE DEF KernelInv
<1>1. /\ UNCHANGED <<procs_list, parent, console, current_proc, current_console, dangling>>
      /\ \/ UNCHANGED state
         \/ state' = [p \in Slots |-> IF p \in Readers THEN PS_RUNABLE ELSE state[p]]
  BY DEF KeyAscii, procVars, cpuVars
<1>2. Live' = Live
  BY <1>1 DEF Live
<1>3. CASE UNCHANGED state
  BY <1>1, <1>2, <1>3, SeenSame
<1>4. CASE state' = [p \in Slots |-> IF p \in Readers THEN PS_RUNABLE ELSE state[p]]
  <2> DEFINE late == (Readers \cap dangling) \ {idle_proc}
  <2>1. current_console \in Consoles /\ Readers = ToSet(io_queue[current_console])
    BY DEF KernelInv, TypeOK, Readers, Waiting
  <2>2. idle_proc \notin Readers
    BY <2>1 DEF KernelInv, IdleUnqueued
  <2>3. \A p \in Live : /\ AsTasks[p].wait = WaitsFor(p) /\ AsTasks[p].line = console[p]
                        /\ Promise!Reads(p) <=> (state[p] = PS_STOPED /\ console[p] = current_console)
    BY Waiting4, SeenAs DEF Promise!Reads
  <2>4. \A p \in Live : p \in Readers <=> (Promise!Reads(p) \/ p \in late)
    <3>1. \A p \in Live : p \in Readers \ dangling => Promise!Reads(p)
      BY <2>1, <2>3, EntryWaits
    <3>2. \A p \in Live : Promise!Reads(p) => p \in Readers
      BY <2>1, <2>3 DEF WaiterQueued
    <3> QED BY <2>2, <3>1, <3>2
  <2> HIDE DEF late
  <2>5. \A p \in Live : WaitsFor(p)' = IF p \in Readers THEN "nothing" ELSE WaitsFor(p)
    BY <1>4 DEF WaitsFor, PS_RUNABLE, PS_STOPED, PS_WFCHILD, PS_IDLE
  <2>6. AsTasks' = [p \in Live |-> IF p \in Readers THEN [AsTasks[p] EXCEPT !.wait = "nothing"]
                                   ELSE AsTasks[p]]
    BY <1>1, <1>2, <2>5 DEF AsTasks
  <2>7. AsTasks' = [p \in Live |-> IF Promise!Reads(p) \/ p \in late
                                   THEN [AsTasks[p] EXCEPT !.wait = "nothing"] ELSE AsTasks[p]]
    BY <2>4, <2>6
  <2>8. late \in SUBSET (dangling \ {idle_proc})
    BY DEF late
  <2> QED BY <1>1, <2>7, <2>8, SeenAs DEF Promise!Next, Promise!Key
<1> QED BY <1>1, <1>3, <1>4

\* Every handler is one step of the abstract task system, or none.
LEMMA SeenStep ==
    WaitInv /\ [Next]_vars =>
        [Promise!Next]_<<AsTasks, current_proc, current_console, dangling>>
<1> SUFFICES ASSUME WaitInv, [Next]_vars
             PROVE  Promise!Next \/ UNCHANGED <<AsTasks, current_proc, current_console, dangling>>
  OBVIOUS
<1>1. KernelInv'
  BY KernelStep DEF WaitInv
<1>2. CASE \/ TimerTick \/ SysExitRefused \/ UserFault \/ PanicLoop
           \/ \E num \in Consoles : KeyFunction(num)
           \/ UNCHANGED vars
  BY <1>1, <1>2, SeenQuiet
<1>3. CASE SysWaitpid \/ SysGetch
  BY <1>1, <1>3, SeenBlock
<1>4. CASE \/ SysExit \/ SysExitFault
           \/ \E n \in 0 .. MAX_SLOTS : SysKill(n) \/ SysKillSelf(n)
  BY <1>1, <1>4, SeenDie
<1>5. CASE \E x \in Slots, wait \in BOOLEAN : SysExec(x, wait)
  BY <1>1, <1>5, SeenStart
<1>6. CASE \E c \in Ascii : KeyAscii(c)
  BY <1>1, <1>6, SeenKey
<1> QED BY <1>2, <1>3, <1>4, <1>5, <1>6 DEF Next

\* The kernel implements the abstract task system: whoever is ready may get the
\* CPU and no one else, and a wait ends when what was waited for happens, not
\* before and not later (proc.c, sys.c, console.c:117-186).
THEOREM TasksImplemented == Spec => TaskSystem
<1>1. Init => Promise!Init
  BY SeenInit
<1>2. Spec => [][Promise!Next]_<<AsTasks, current_proc, current_console, dangling>>
  BY WaitCorrect, SeenStep, PTL DEF Spec
<1> QED BY <1>1, <1>2, PTL DEF Spec, TaskSystem, Promise!Spec
=============================================================================
