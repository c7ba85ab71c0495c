---------------------------- MODULE GatesProofs ----------------------------
(***************************************************************************)
(* Proofs about the gates, for any number of processes and any set of      *)
(* lines that devices raise: what interrupts has a handler, and every      *)
(* process finds its own registers again.                                  *)
(***************************************************************************)
EXTENDS Gates, TLAPS

USE GatesAssumption DEF BOOTED

-----------------------------------------------------------------------------
(* The table of handlers and the masks *)

\* What the boot has done so far: lines 2 to 7 are never opened, and the
\* handlers of lines 0 and 1 are there before the last step.
TableInv ==
    /\ booted \in 0 .. BOOTED
    /\ DOMAIN handlers = Vectors
    /\ halted # "unhandled"
    /\ booted >= 1 => 2 .. 7 \subseteq primary_mask
    /\ booted >= 3 => handlers[IRQ_START + 1] = "kbd"
    /\ booted >= 5 => handlers[IRQ_START] = "timer"

\* After boot no open line is left with the handler dummy.
LEMMA TableHandled == TableInv => Handled
<1> SUFFICES ASSUME TableInv, booted = BOOTED, NEW l \in Lines, Open(l)
             PROVE  handlers[IRQ_START + l] # "dummy"
  BY DEF Handled, TableInv
<1>1. l \in 0 .. 15 /\ 2 .. 7 \subseteq primary_mask
  BY DEF TableInv, Lines
<1>2. CASE l >= 8
  <2>1. 2 \in primary_mask
    BY <1>1
  <2> QED BY <1>1, <1>2, <2>1 DEF Open
<1>3. CASE l < 8
  <2>1. l \in {0, 1}
    BY <1>1, <1>3 DEF Open
  <2> QED BY <2>1 DEF TableInv, IRQ_START
<1> QED BY <1>1, <1>2, <1>3

\* The only line whose request may be withdrawn stops the kernel with another
\* word than "unhandled"; any other needs an open line with the handler dummy.
LEMMA TableStep == TableInv /\ [Next]_vars => TableInv'
<1> SUFFICES ASSUME TableInv, [Next]_vars
             PROVE  TableInv'
  OBVIOUS
<1>0. Handled
  BY TableHandled
<1> USE DEF TableInv
<1>1. CASE UNCHANGED vars
  BY <1>1 DEF vars, boot, pic
<1>2. CASE Boot
  <2>1. CASE ArchInit
    BY <2>1 DEF ArchInit, Step, PicInit, MaskedByInit
  <2>2. CASE InterruptsInit
    BY <2>2 DEF InterruptsInit, Step, pic_enable_irq, Bit
  <2>3. CASE ConsoleInit
    BY <2>3 DEF ConsoleInit, Driver, Step, pic_enable_irq, Bit, Vectors, IRQ_START
  <2>4. CASE SyscallsInit
    BY <2>4 DEF SyscallsInit, Step, pic_enable_irq, Bit
  <2>5. CASE TimerInit
    BY <2>5 DEF TimerInit, Driver, Step, pic_enable_irq, Bit, Vectors, IRQ_START
  <2>6. CASE KMain
    BY <2>6 DEF KMain, Step, pic, Vectors, IRQ_START
  <2>7. CASE FirstIret
    BY <2>7 DEF FirstIret, Step, pic
  <2> QED BY <1>2, <2>1, <2>2, <2>3, <2>4, <2>5, <2>6, <2>7 DEF Boot
<1>3. CASE \E l \in Raised : Raise(l)
  BY <1>3 DEF Raise, boot
<1>4. CASE TimerIrq \/ KeyboardIrq
  BY <1>4 DEF TimerIrq, KeyboardIrq, Acknowledge, boot
<1>5. ASSUME NEW l \in Lines, UnhandledIrq(l)
      PROVE  TableInv'
  <2>1. UNCHANGED <<booted, handlers, primary_mask>>
    BY <1>5 DEF UnhandledIrq, Acknowledge, boot, pic
  <2>2. ~ Delivered(l)
    BY <1>0, <1>5 DEF UnhandledIrq, Running, Handled, Delivered, Deliverable
  <2>3. halted' = "spurious"
    BY <1>5, <2>2 DEF UnhandledIrq
  <2> QED BY <2>1, <2>3
<1>6. CASE Exeption
  BY <1>6 DEF Exeption, boot, pic
<1>7. CASE SysCall \/ UserStep
  BY <1>7 DEF SysCall, UserStep, SysReturns, SysBlocks, SysExit, SysExitRefused, SysKill,
              SysExec, boot, pic
<1> QED BY <1>1, <1>2, <1>3, <1>4, <1>5, <1>6, <1>7 DEF Next

\* From the first iret on the kernel never stops in dummy for a line that was
\* delivered, and every line that can interrupt has a handler (interrupts.c).
THEOREM EveryLineHandled == Spec => []Handled
<1>1. Init => TableInv
  BY DEF Init, TableInv, Vectors
<1> QED BY <1>1, TableStep, TableHandled, PTL DEF Spec

-----------------------------------------------------------------------------
(* Frames *)

States == {"none", "idle", "runable", "stoped", "wfchild"}
Frames == [owner : Procs \union {NULL}, at : 0 .. 1, eax : {"old", "result", "key"}]

\* Where the gate of p pushes: the stack of p, or that at address 1024 if the
\* first gate after boot interrupts the idle process.
Gate(p, place) == place = Entry(p) \/ (p = idle_proc /\ place = Low)

\* Where a frame of p may wait.
Mine(p, place) == place = Initial(p) \/ Gate(p, place)

Types ==
    /\ state \in [Procs -> States]
    /\ esp \in [Procs -> Places] /\ context \in [Procs -> Places] /\ esp0 \in Places
    /\ frame \in [Places -> Frames] /\ regs \in Frames
    /\ due \in [Procs -> Frames] /\ \A p \in Procs : due[p].owner = p
    /\ stale \subseteq Procs \ {idle_proc}

\* Even the context of a dead process points to a place of its own: a key that
\* goes through it changes no frame of another slot.
ContextsMine == \A p \in Procs : Mine(p, context[p])

\* p waits, with its frame in its own place; a reader's context, through which
\* its key is stored, points to that frame.
Parked(p) ==
    /\ Mine(p, esp[p]) /\ Found(frame[esp[p]], due[p], p \in stale)
    /\ state[p] = "stoped" => context[p] = esp[p]

Scheduled ==
    /\ current_proc \in Procs /\ state[current_proc] \in {"runable", "idle"}
    /\ state[idle_proc] = "idle"
    /\ Gate(current_proc, esp0)
    /\ Found(regs, due[current_proc], current_proc \in stale)
    /\ ContextsMine
    /\ \A p \in Procs \ {current_proc} : state[p] # "none" => Parked(p)

Booting ==
    /\ esp0 = Low
    /\ \A p \in Procs : /\ esp[p] = Initial(p) /\ context[p] = Initial(p)
                        /\ due[p] = Frame(p)
    /\ booted = 6 => /\ current_proc = idle_proc /\ state[idle_proc] = "idle"
                     /\ \A p \in Procs : frame[Initial(p)] = Frame(p)

\* The inductive invariant.
FrameInv ==
    /\ booted \in 0 .. BOOTED
    /\ Types
    /\ booted < BOOTED => Booting
    /\ booted = BOOTED => Scheduled

\* The places of two processes are disjoint.
LEMMA Apart ==
    ASSUME NEW p \in Procs, NEW q \in Procs, p # q,
           NEW place, Mine(p, place), NEW other, Mine(q, other)
    PROVE  place # other
BY DEF Mine, Gate, Initial, Entry, Low

LEMMA PlacesOf ==
    ASSUME NEW p \in Procs
    PROVE  /\ Initial(p) \in Places /\ Entry(p) \in Places /\ Low \in Places
           /\ \A place : Mine(p, place) => place \in Places
           /\ \A place : Gate(p, place) => Mine(p, place) /\ place # Initial(p)
BY DEF Mine, Gate, Initial, Entry, Low, Places

\* A key or the result of a call overwrites what a stale entry did to eax.
LEMMA FoundFacts ==
    ASSUME NEW d \in Frames, NEW f \in Frames, NEW hit \in BOOLEAN, Found(f, d, hit)
    PROVE  /\ [f EXCEPT !.eax = "key"] = [d EXCEPT !.eax = "key"]
           /\ [f EXCEPT !.eax = "result"] = [d EXCEPT !.eax = "result"]
           /\ f.owner = d.owner /\ f.at = d.at
<1>1. f = d \/ f = [d EXCEPT !.eax = "key"]
  BY DEF Found
<1>2. f = [owner |-> f.owner, at |-> f.at, eax |-> f.eax]
      /\ d = [owner |-> d.owner, at |-> d.at, eax |-> d.eax]
  BY DEF Frames
<1>3. f.owner = d.owner /\ f.at = d.at
  BY <1>1, <1>2
<1>4. \A x : /\ [f EXCEPT !.eax = x] = [owner |-> f.owner, at |-> f.at, eax |-> x]
             /\ [d EXCEPT !.eax = x] = [owner |-> d.owner, at |-> d.at, eax |-> x]
  BY <1>2
<1> QED BY <1>3, <1>4

LEMMA EaxTyped ==
    ASSUME NEW f \in Frames
    PROVE  /\ [f EXCEPT !.eax = "key"] \in Frames /\ [f EXCEPT !.eax = "key"].owner = f.owner
           /\ [f EXCEPT !.eax = "result"] \in Frames
           /\ [f EXCEPT !.eax = "result"].owner = f.owner
BY DEF Frames

\* switch_task with a frame table fr, the states st and the fields es and cx: it
\* is enough that the old process and every other that lives have their frames
\* in fr.
LEMMA SwitchSound ==
    ASSUME Types, NEW current \in Procs \union {NULL},
           NEW fr \in [Places -> Frames], NEW st \in [Procs -> States],
           NEW es \in [Procs -> Places], NEW cx \in [Procs -> Places],
           \A p \in Procs : Mine(p, cx[p]),
           st[idle_proc] = "idle", stale' \subseteq Procs \ {idle_proc},
           due' \in [Procs -> Frames], \A p \in Procs : due'[p].owner = p,
           current # NULL => /\ Gate(current, esp0)
                             /\ Found(fr[esp0], due'[current], current \in stale'),
           \A p \in Procs \ {current} : st[p] # "none" =>
               /\ Mine(p, es[p]) /\ Found(fr[es[p]], due'[p], p \in stale')
               /\ st[p] = "stoped" => cx[p] = es[p],
           SwitchTask(current, fr, st, es, cx)
    PROVE  Types' /\ Scheduled'
<1> DEFINE old == IF current = NULL THEN {} ELSE {current}
<1>0. PICK next \in Chosen(st) :
        /\ esp' = [p \in Procs |-> IF p \in old THEN esp0 ELSE es[p]]
        /\ context' = [p \in Procs |-> IF p \in old THEN esp0 ELSE cx[p]]
        /\ esp0' = Entry(next)
        /\ current_proc' = next
        /\ state' = st
        /\ regs' = fr[esp'[next]]
        /\ frame' = [fr EXCEPT ![esp'[next]] = Garbage]
  BY Zenon DEF SwitchTask, Iret, EntryStack
<1>1. /\ esp' \in [Procs -> Places] /\ context' \in [Procs -> Places] /\ esp0' \in Places
      /\ \A p \in Procs : /\ esp'[p] = IF p = current THEN esp0 ELSE es[p]
                         /\ context'[p] = IF p = current THEN esp0 ELSE cx[p]
  <2>1. next \in Procs
    BY DEF Chosen
  <2>2. \A p \in Procs : p \in old <=> p = current
    OBVIOUS
  <2> HIDE DEF old
  <2> QED BY <1>0, <2>1, <2>2, PlacesOf DEF Types
<1>2. next \in Procs /\ st[next] \in {"runable", "idle"}
  BY DEF Chosen
<1>3. \A p \in Procs : st[p] # "none" =>
        /\ Mine(p, esp'[p]) /\ Found(fr[esp'[p]], due'[p], p \in stale')
        /\ st[p] = "stoped" => context'[p] = esp'[p]
  <2> SUFFICES ASSUME NEW p \in Procs, st[p] # "none"
               PROVE  /\ Mine(p, esp'[p]) /\ Found(fr[esp'[p]], due'[p], p \in stale')
                      /\ st[p] = "stoped" => context'[p] = esp'[p]
    OBVIOUS
  <2>1. CASE p = current
    BY <1>1, <2>1, PlacesOf
  <2>2. CASE p # current
    BY <1>1, <2>2
  <2> QED BY <2>1, <2>2
<1>4. regs' \in Frames /\ frame' \in [Places -> Frames]
  <2>1. Garbage \in Frames
    BY DEF Garbage, Frame, Frames
  <2> QED BY <1>0, <1>1, <1>2, <2>1
<1>5. Types'
  BY <1>0, <1>1, <1>4 DEF Types
<1>6. ASSUME NEW p \in Procs \ {next}, st[p] # "none"
      PROVE  Parked(p)'
  <2>1. esp'[p] # esp'[next] /\ esp'[p] \in Places
    BY <1>2, <1>3, <1>6, Apart, PlacesOf
  <2>2. frame'[esp'[p]] = fr[esp'[p]]
    BY <1>0, <2>1
  <2> QED BY <1>0, <1>3, <1>6, <2>2 DEF Parked, Mine, Gate, Initial, Entry, Low
<1>7. Found(regs', due'[next], next \in stale')
  BY <1>0, <1>2, <1>3
<1>8. ContextsMine'
  <2>1. \A p \in Procs : Mine(p, context'[p])
    BY <1>1, PlacesOf
  <2> QED BY <2>1 DEF ContextsMine, Mine, Gate, Initial, Entry, Low
<1> QED BY <1>0, <1>2, <1>5, <1>6, <1>7, <1>8 DEF Scheduled, Gate, Entry, Found

\* What a gate pushes lies where no frame waits.
LEMMA PushedSound ==
    ASSUME Types, Scheduled
    PROVE  /\ Pushed \in [Places -> Frames]
           /\ Found(Pushed[esp0], due[current_proc], current_proc \in stale)
           /\ \A pl \in Places \ {esp0} : Pushed[pl] = frame[pl]
           /\ \A p \in Procs \ {current_proc} : state[p] # "none" =>
                 /\ Mine(p, esp[p]) /\ esp[p] \in Places /\ esp[p] # esp0
                 /\ Found(Pushed[esp[p]], due[p], p \in stale)
<1>1. \A p \in Procs \ {current_proc} : state[p] # "none" =>
        /\ Mine(p, esp[p]) /\ esp[p] \in Places /\ esp[p] # esp0
        /\ Found(frame[esp[p]], due[p], p \in stale)
  BY PlacesOf, Apart DEF Scheduled, Parked
<1>2. frame \in [Places -> Frames] /\ esp0 \in Places /\ regs \in Frames
      /\ Found(regs, due[current_proc], current_proc \in stale)
  BY DEF Types, Scheduled
<1>3. /\ Pushed \in [Places -> Frames] /\ Pushed[esp0] = regs
      /\ \A pl \in Places \ {esp0} : Pushed[pl] = frame[pl]
  BY <1>2 DEF Pushed
<1> QED BY <1>1, <1>2, <1>3

\* The dispatcher of int 0x30 changes the frame of its caller and no other.
LEMMA ResultSound ==
    ASSUME Types, Scheduled
    PROVE  /\ Result \in [Places -> Frames] /\ Result[esp0] = DueResult[current_proc]
           /\ \A pl \in Places \ {esp0} : Result[pl] = frame[pl]
           /\ DueResult \in [Procs -> Frames] /\ \A p \in Procs : DueResult[p].owner = p
           /\ \A p \in Procs \ {current_proc} : DueResult[p] = due[p]
           /\ Context \in [Procs -> Places] /\ \A p \in Procs : Mine(p, Context[p])
           /\ \A p \in Procs \ {current_proc} : Context[p] = context[p]
<1>1. current_proc \in Procs /\ esp0 \in Places /\ context \in [Procs -> Places]
      /\ due \in [Procs -> Frames] /\ (\A p \in Procs : due[p].owner = p)
      /\ Gate(current_proc, esp0) /\ (\A p \in Procs : Mine(p, context[p]))
  BY DEF Types, Scheduled, ContextsMine
<1>2. /\ Context \in [Procs -> Places] /\ Context[current_proc] = esp0
      /\ \A p \in Procs \ {current_proc} : Context[p] = context[p]
  BY <1>1 DEF Context
<1>3. \A p \in Procs : Mine(p, Context[p])
  BY <1>1, <1>2, PlacesOf
<1>4. /\ DueResult \in [Procs -> Frames] /\ \A p \in Procs : DueResult[p].owner = p
      /\ DueResult[current_proc] = [due[current_proc] EXCEPT !.eax = "result"]
      /\ \A p \in Procs \ {current_proc} : DueResult[p] = due[p]
  BY <1>1, EaxTyped DEF DueResult
<1>5. Result = [Pushed EXCEPT ![esp0].eax = "result"]
  BY <1>2 DEF Result
<1>6. Pushed \in [Places -> Frames] /\ (\A pl \in Places \ {esp0} : Pushed[pl] = frame[pl])
      /\ Pushed[esp0] \in Frames
      /\ Found(Pushed[esp0], due[current_proc], current_proc \in stale)
  BY <1>1, PushedSound
<1>7. [Pushed[esp0] EXCEPT !.eax = "result"] = [due[current_proc] EXCEPT !.eax = "result"]
  <2>1. (current_proc \in stale) \in BOOLEAN /\ due[current_proc] \in Frames
    BY <1>1
  <2> HIDE DEF Pushed
  <2> QED BY <1>6, <2>1, FoundFacts
<1>8. [Pushed[esp0] EXCEPT !.eax = "result"] \in Frames
  BY <1>6, EaxTyped
<1>9. /\ Result \in [Places -> Frames]
      /\ Result[esp0] = [due[current_proc] EXCEPT !.eax = "result"]
      /\ \A pl \in Places \ {esp0} : Result[pl] = frame[pl]
  BY <1>1, <1>5, <1>6, <1>7, <1>8
<1> QED BY <1>2, <1>3, <1>4, <1>9

\* A gate that pops the frame it pushed, with the frame table fr and the states
\* st: the running process goes on, the others keep their frames.
LEMMA ReturnSound ==
    ASSUME Types, Scheduled, NEW fr \in [Places -> Frames],
           Found(fr[esp0], due'[current_proc], current_proc \in stale'),
           state' \in [Procs -> States], state'[current_proc] \in {"runable", "idle"},
           state'[idle_proc] = "idle", UNCHANGED <<current_proc, esp0>>,
           esp' \in [Procs -> Places], context' \in [Procs -> Places],
           \A p \in Procs : Mine(p, context'[p]), stale' \subseteq Procs \ {idle_proc},
           due' \in [Procs -> Frames], \A p \in Procs : due'[p].owner = p,
           \A p \in Procs \ {current_proc} : state'[p] # "none" =>
               /\ Mine(p, esp'[p]) /\ Found(fr[esp'[p]], due'[p], p \in stale')
               /\ state'[p] = "stoped" => context'[p] = esp'[p],
           Iret(fr, esp0)
    PROVE  Types' /\ Scheduled'
<1>1. current_proc \in Procs /\ Gate(current_proc, esp0) /\ esp0 \in Places
  BY DEF Scheduled, Types
<1>2. Garbage \in Frames
  BY DEF Garbage, Frame, Frames
<1>3. /\ regs' = fr[esp0] /\ frame' \in [Places -> Frames]
      /\ \A pl \in Places \ {esp0} : frame'[pl] = fr[pl]
  BY <1>1, <1>2 DEF Iret
<1>4. Types'
  BY <1>1, <1>3 DEF Types
<1>5. ASSUME NEW p \in Procs \ {current_proc}, state'[p] # "none"
      PROVE  Parked(p)'
  <2>1. esp'[p] \in Places \ {esp0}
    BY <1>1, <1>5, Apart, PlacesOf
  <2> QED BY <1>3, <1>5, <2>1 DEF Parked, Mine, Gate, Initial, Entry, Low
<1>6. Gate(current_proc, esp0)'
  BY <1>1 DEF Gate, Entry, Low
<1>7. ContextsMine'
  BY DEF ContextsMine, Mine, Gate, Initial, Entry, Low
<1> QED BY <1>1, <1>3, <1>4, <1>5, <1>6, <1>7 DEF Scheduled, Found

\* The first gate of each process pops the frame of create_proc; every other
\* step of the kernel keeps the frames that wait.
LEMMA FrameStep == FrameInv /\ [Next]_vars => FrameInv'
<1> SUFFICES ASSUME FrameInv, [Next]_vars
             PROVE  FrameInv'
  OBVIOUS
<1>0. Types /\ booted \in 0 .. 7
  BY DEF FrameInv
<1>1. ASSUME UNCHANGED <<booted, tasks>>
      PROVE  FrameInv'
  BY <1>1 DEF tasks, FrameInv, Types, Scheduled, Booting, Parked, Mine, Gate, ContextsMine
<1>2. CASE Boot
  <2>1. \A p \in Procs : Frame(p) \in Frames /\ Initial(p) \in Places
    BY PlacesOf DEF Frame, Frames
  <2>2. CASE ArchInit \/ InterruptsInit \/ ConsoleInit \/ SyscallsInit \/ TimerInit
    <3>1. /\ booted \in 0 .. 4 /\ booted' = booted + 1
          /\ UNCHANGED <<current_proc, state, esp, context, frame, regs, due, stale>>
          /\ esp0' \in {esp0, Low}
      BY <2>2 DEF ArchInit, InterruptsInit, ConsoleInit, SyscallsInit, TimerInit, Driver,
                  Step, tasks
    <3>2. Low \in Places
      BY DEF Places
    <3>3. Types'
      BY <1>0, <3>1, <3>2 DEF Types
    <3>4. Booting'
      BY <3>1 DEF FrameInv, Booting
    <3> QED BY <3>1, <3>3, <3>4 DEF FrameInv
  <2>3. CASE KMain
    <3>1. booted = 5 /\ booted' = 6 /\ Booting
      BY <2>3 DEF KMain, Step, FrameInv
    <3>2. state' \in [Procs -> States] /\ state'[idle_proc] = "idle" /\ current_proc' = idle_proc
      BY <2>3 DEF KMain, States
    <3>3. frame' \in [Places -> Frames]
          /\ \A p \in Procs : frame'[Initial(p)] = Frame(p)
      <4>1. \A p \in Procs : Initial(p)[1] = p
        BY DEF Initial
      <4>2. frame' = [pl \in Places |-> IF \E p \in Procs : pl = Initial(p)
                                        THEN Frame(pl[1]) ELSE frame[pl]]
        BY <2>3 DEF KMain
      <4>3. frame \in [Places -> Frames]
        BY <1>0 DEF Types
      <4> HIDE DEF Initial
      <4> QED BY <2>1, <4>1, <4>2, <4>3
    <3>4. UNCHANGED <<esp, context, esp0, regs, due, stale>>
      BY <2>3 DEF KMain
    <3>5. Types'
      BY <1>0, <3>2, <3>3, <3>4 DEF Types
    <3>6. Booting'
      BY <3>1, <3>2, <3>3, <3>4 DEF Booting
    <3> QED BY <3>1, <3>5, <3>6 DEF FrameInv
  <2>4. CASE FirstIret
    <3>1. booted = 6 /\ booted' = 7 /\ Booting /\ current_proc = idle_proc
          /\ UNCHANGED <<current_proc, state, esp, context, esp0, due, stale>>
          /\ Iret(frame, esp[current_proc])
      BY <2>4 DEF FirstIret, Step, FrameInv, Booting
    <3>2. regs' = frame[Initial(idle_proc)]
          /\ frame' = [frame EXCEPT ![Initial(idle_proc)] = Garbage]
      BY <3>1 DEF Iret, Booting
    <3>3. Garbage \in Frames
      BY DEF Garbage, Frame, Frames
    <3>4. Types'
      BY <1>0, <2>1, <3>1, <3>2, <3>3 DEF Types
    <3>5. ASSUME NEW p \in Procs \ {idle_proc}
          PROVE  Parked(p)'
      <4>1. Initial(p) \in Places /\ Initial(p) # Initial(idle_proc)
        BY <2>1, <3>5 DEF Initial
      <4>2. frame'[Initial(p)] = due[p]
        BY <1>0, <3>1, <3>2, <4>1 DEF Booting, Types
      <4> QED BY <3>1, <4>2 DEF Parked, Mine, Gate, Booting, Initial, Found
    <3>6. Scheduled'
      BY <3>1, <3>2, <3>5 DEF Scheduled, Booting, Gate, Low, Found, ContextsMine, Mine, Initial
    <3> QED BY <3>1, <3>4, <3>6 DEF FrameInv
  <2> QED BY <1>2, <2>2, <2>3, <2>4 DEF Boot
<1>3. ASSUME Running, Types' /\ Scheduled', booted' = booted
      PROVE  FrameInv'
  BY <1>3 DEF FrameInv, Running
<1>4. ASSUME Running
      PROVE  /\ Scheduled /\ current_proc \in Procs /\ esp0 \in Places
             /\ current_proc # NULL /\ NULL \notin Procs
             /\ state \in [Procs -> States] /\ state[idle_proc] = "idle"
             /\ \A p \in Procs \ {current_proc} : state[p] # "none" => Parked(p)
             /\ state[current_proc] \in {"runable", "idle"} /\ Gate(current_proc, esp0)
             /\ esp \in [Procs -> Places] /\ context \in [Procs -> Places]
             /\ due \in [Procs -> Frames] /\ \A p \in Procs : due[p].owner = p
  BY <1>4 DEF FrameInv, Running, Scheduled, Types
<1>5. CASE TimerIrq
  <2>1. /\ Running /\ SwitchTask(current_proc, Pushed, state, esp, context)
        /\ UNCHANGED <<due, stale, booted>>
    BY <1>5 DEF TimerIrq, boot
  <2>2. \A p \in Procs \ {current_proc} : state[p] # "none" =>
          /\ Mine(p, esp[p]) /\ Found(Pushed[esp[p]], due'[p], p \in stale')
          /\ state[p] = "stoped" => context[p] = esp[p]
    BY <1>0, <1>4, <2>1, PushedSound DEF Parked
  <2>3. /\ Pushed \in [Places -> Frames] /\ Gate(current_proc, esp0)
        /\ Found(Pushed[esp0], due[current_proc], current_proc \in stale)
        /\ due \in [Procs -> Frames] /\ (\A p \in Procs : due[p].owner = p)
        /\ stale \subseteq Procs \ {idle_proc} /\ (\A p \in Procs : Mine(p, context[p]))
    BY <1>0, <1>4, <2>1, PushedSound DEF Types, Scheduled, ContextsMine
  <2>4. due' = due /\ stale' = stale
    BY <2>1
  <2>5. Types' /\ Scheduled'
    BY <1>0, <1>4, <2>1, <2>2, <2>3, <2>4, SwitchSound
  <2> QED BY <1>3, <2>1, <2>5
<1>6. CASE KeyboardIrq
  <2>1. PICK entries \in SUBSET (Readers \union stale) :
          /\ Iret(Answer(Pushed, entries), esp0)
          /\ state' = [p \in Procs |-> IF p \in entries /\ state[p] # "none"
                                       THEN "runable" ELSE state[p]]
          /\ due' = [p \in Procs |-> IF p \in entries \cap Readers
                                     THEN [due[p] EXCEPT !.eax = "key"] ELSE due[p]]
    BY <1>6 DEF KeyboardIrq
  <2>2. Running /\ UNCHANGED <<booted, current_proc, esp, context, esp0, stale>>
    BY <1>6 DEF KeyboardIrq, boot
  <2>3. /\ entries \subseteq Procs /\ stale \subseteq Procs \ {idle_proc}
        /\ \A p \in Readers : state[p] = "stoped" /\ p \in Procs \ {current_proc}
        /\ \A p \in entries : p \in Readers \/ p \in stale
    BY <1>0, <1>4, <2>2 DEF Readers, Types
  <2>4. /\ state' \in [Procs -> States] /\ state'[current_proc] \in {"runable", "idle"}
        /\ \A p \in Procs : state'[p] # "none" => state[p] # "none"
        /\ \A p \in Procs : state'[p] = "stoped" => state[p] = "stoped" /\ p \notin entries
    BY <1>4, <2>1, <2>2, <2>3 DEF States
  <2>5. /\ due' \in [Procs -> Frames] /\ \A p \in Procs : due'[p].owner = p
        /\ \A p \in Procs \ (entries \cap Readers) : due'[p] = due[p]
        /\ \A p \in entries \cap Readers : due'[p] = [due[p] EXCEPT !.eax = "key"]
    BY <1>4, <2>1, <2>2, <2>3, EaxTyped
  <2>6. /\ Pushed \in [Places -> Frames] /\ Found(Pushed[esp0], due[current_proc], current_proc \in stale)
        /\ \A p \in Procs \ {current_proc} : state[p] # "none" =>
             /\ Mine(p, esp[p]) /\ esp[p] \in Places
             /\ Found(Pushed[esp[p]], due[p], p \in stale)
             /\ state[p] = "stoped" => context[p] = esp[p]
        /\ \A p \in Procs : Mine(p, context[p])
    BY <1>0, <1>4, <2>2, PushedSound DEF Scheduled, ContextsMine, Parked
  <2> DEFINE fr == Answer(Pushed, entries)
  <2>7. fr \in [Places -> Frames]
    <3>1. \A pl \in Places : Pushed[pl] \in Frames /\ [Pushed[pl] EXCEPT !.eax = "key"] \in Frames
      BY <2>6, EaxTyped
    <3> HIDE DEF Pushed
    <3> QED BY <3>1 DEF Answer
  \* A key reaches the frame of p only through an entry of p itself.
  <2>8. ASSUME NEW p \in Procs, NEW pl \in Places, Mine(p, pl)
        PROVE  \/ fr[pl] = Pushed[pl] /\ ~ (p \in entries /\ context[p] = pl)
               \/ /\ p \in entries /\ context[p] = pl
                  /\ fr[pl] = [Pushed[pl] EXCEPT !.eax = "key"]
    <3>1. \A q \in entries : context[q] = pl => q = p
      BY <2>3, <2>6, <2>8, Apart
    <3>2. fr[pl] = IF \E q \in entries : context[q] = pl
                   THEN [Pushed[pl] EXCEPT !.eax = "key"] ELSE Pushed[pl]
      BY DEF Answer
    <3> HIDE DEF fr, Pushed
    <3>3. CASE \E q \in entries : context[q] = pl
      BY <3>1, <3>2, <3>3
    <3>4. CASE ~ \E q \in entries : context[q] = pl
      BY <3>2, <3>4
    <3> QED BY <3>3, <3>4
  <2>9. ASSUME NEW p \in Procs, NEW pl \in Places, Mine(p, pl),
               Found(Pushed[pl], due[p], p \in stale),
               p \in Readers => context[p] = pl
        PROVE  Found(fr[pl], due'[p], p \in stale')
    <3>1. Pushed[pl] \in Frames /\ due[p] \in Frames /\ (p \in stale) \in BOOLEAN
          /\ stale' = stale
      BY <1>4, <2>2, <2>6
    <3>2. [Pushed[pl] EXCEPT !.eax = "key"] = [due[p] EXCEPT !.eax = "key"]
      <4>1. PICK f \in Frames, d \in Frames, hit \in BOOLEAN :
              f = Pushed[pl] /\ d = due[p] /\ hit = (p \in stale)
        BY <3>1
      <4>2. Found(f, d, hit)
        BY <2>9, <4>1
      <4>3. [f EXCEPT !.eax = "key"] = [d EXCEPT !.eax = "key"]
        BY <4>2, FoundFacts
      <4> QED BY <4>1, <4>3
    <3> HIDE DEF fr, Pushed
    <3>3. CASE p \in entries \cap Readers
      <4>1. fr[pl] = [Pushed[pl] EXCEPT !.eax = "key"]
        BY <2>8, <2>9, <3>3
      <4>2. due'[p] = [due[p] EXCEPT !.eax = "key"]
        BY <2>5, <3>3
      <4> QED BY <3>2, <4>1, <4>2 DEF Found
    <3>4. CASE p \notin entries \cap Readers
      <4>1. due'[p] = due[p]
        BY <2>5, <3>4
      <4>2. fr[pl] = Pushed[pl] \/ (p \in stale /\ fr[pl] = [Pushed[pl] EXCEPT !.eax = "key"])
        BY <2>3, <2>8, <2>9, <3>4
      <4> QED BY <2>9, <3>1, <3>2, <4>1, <4>2 DEF Found
    <3> QED BY <3>3, <3>4
  <2>10. Found(fr[esp0], due'[current_proc], current_proc \in stale')
    <3>1. Mine(current_proc, esp0) /\ current_proc \notin Readers
      BY <1>4, <2>2, <2>3, PlacesOf
    <3> HIDE DEF fr, Pushed
    <3> QED BY <1>4, <2>2, <2>6, <2>9, <3>1
  <2>11. ASSUME NEW p \in Procs \ {current_proc}, state'[p] # "none"
         PROVE  /\ Mine(p, esp[p]) /\ Found(fr[esp[p]], due'[p], p \in stale')
                /\ state'[p] = "stoped" => context[p] = esp[p]
    <3>1. /\ Mine(p, esp[p]) /\ esp[p] \in Places
          /\ Found(Pushed[esp[p]], due[p], p \in stale)
          /\ state[p] = "stoped" => context[p] = esp[p]
      BY <2>4, <2>6, <2>11
    <3> HIDE DEF fr, Pushed
    <3> QED BY <2>3, <2>4, <2>9, <2>11, <3>1
  <2>12. state'[idle_proc] = "idle"
    <3>1. idle_proc \notin entries
      BY <1>4, <2>2, <2>3
    <3> QED BY <1>4, <2>1, <2>2, <3>1
  <2>13. Types' /\ Scheduled'
    <3>1. Types /\ Scheduled /\ Iret(fr, esp0)
      BY <1>0, <1>4, <2>1, <2>2
    <3> HIDE DEF fr
    <3> QED BY <1>4, <2>2, <2>3, <2>4, <2>5, <2>6, <2>7, <2>10, <2>11, <2>12, <3>1, ReturnSound
  <2> QED BY <1>3, <2>2, <2>13
<1>7. ASSUME Running
      PROVE  /\ Result \in [Places -> Frames] /\ Result[esp0] = DueResult[current_proc]
             /\ DueResult \in [Procs -> Frames] /\ \A p \in Procs : DueResult[p].owner = p
             /\ Context \in [Procs -> Places] /\ \A p \in Procs : Mine(p, Context[p])
             /\ stale \subseteq Procs \ {idle_proc}
             /\ \A p \in Procs \ {current_proc} :
                  /\ DueResult[p] = due[p] /\ Context[p] = context[p]
                  /\ state[p] # "none" =>
                       /\ Mine(p, esp[p]) /\ Found(Result[esp[p]], due[p], p \in stale)
                       /\ state[p] = "stoped" => Context[p] = esp[p]
  <2>1. Types /\ Scheduled
    BY <1>0, <1>4, <1>7
  <2>2. /\ Result \in [Places -> Frames] /\ Result[esp0] = DueResult[current_proc]
        /\ \A pl \in Places \ {esp0} : Result[pl] = frame[pl]
        /\ DueResult \in [Procs -> Frames] /\ \A p \in Procs : DueResult[p].owner = p
        /\ \A p \in Procs \ {current_proc} : DueResult[p] = due[p]
        /\ Context \in [Procs -> Places] /\ \A p \in Procs : Mine(p, Context[p])
        /\ \A p \in Procs \ {current_proc} : Context[p] = context[p]
    BY <2>1, ResultSound
  <2>3. \A p \in Procs \ {current_proc} : state[p] # "none" =>
          Mine(p, esp[p]) /\ esp[p] \in Places /\ esp[p] # esp0
    BY <2>1, PushedSound
  <2> QED BY <1>0, <1>4, <1>7, <2>2, <2>3 DEF Parked, Types
\* A call that goes on with other processes woken or dead.
<1>8. ASSUME Running, NEW st \in [Procs -> States], state' = st,
             st[idle_proc] = "idle", st[current_proc] = state[current_proc],
             \A p \in Procs : st[p] # "none" => state[p] # "none",
             \A p \in Procs : st[p] = "stoped" => state[p] = "stoped",
             stale \subseteq stale', stale' \subseteq Procs \ {idle_proc},
             UNCHANGED <<booted, current_proc, esp, esp0>>,
             Iret(Result, esp0), context' = Context, due' = DueResult
      PROVE  FrameInv'
  <2>1. \A p \in Procs \ {current_proc} : st[p] # "none" =>
          /\ Mine(p, esp[p]) /\ Found(Result[esp[p]], due'[p], p \in stale')
          /\ st[p] = "stoped" => Context[p] = esp[p]
    BY <1>7, <1>8 DEF Found
  <2>2. Found(Result[esp0], due'[current_proc], current_proc \in stale')
    BY <1>7, <1>8 DEF Found
  <2>3. Types' /\ Scheduled'
    BY <1>0, <1>4, <1>7, <1>8, <2>1, <2>2, ReturnSound
  <2> QED BY <1>3, <1>8, <2>3
\* A call that switches, with the caller alive.
<1>9. ASSUME Running, NEW st \in [Procs -> States], st[idle_proc] = "idle",
             \A p \in Procs \ {current_proc} : st[p] = state[p],
             SwitchTask(current_proc, Result, st, esp, Context),
             due' = DueResult, UNCHANGED <<booted, stale>>
      PROVE  FrameInv'
  <2>1. \A p \in Procs \ {current_proc} : st[p] # "none" =>
          /\ Mine(p, esp[p]) /\ Found(Result[esp[p]], due'[p], p \in stale')
          /\ st[p] = "stoped" => Context[p] = esp[p]
    BY <1>7, <1>9
  <2>2. /\ Gate(current_proc, esp0)
        /\ Found(Result[esp0], due'[current_proc], current_proc \in stale')
    BY <1>4, <1>7, <1>9 DEF Found
  <2>3. Types' /\ Scheduled'
    BY <1>0, <1>4, <1>7, <1>9, <2>1, <2>2, SwitchSound
  <2> QED BY <1>3, <1>9, <2>3
\* What kill_proc does to the states.
<1>10. ASSUME Running, NEW v \in Procs \ {idle_proc}, NEW st \in AfterKill(v)
       PROVE  /\ st \in [Procs -> States] /\ st[idle_proc] = "idle" /\ st[v] = "none"
              /\ v # current_proc => st[current_proc] = state[current_proc]
              /\ \A p \in Procs : st[p] # "none" => state[p] # "none"
              /\ \A p \in Procs : st[p] = "stoped" => state[p] = "stoped"
  <2>1. PICK parent \in SUBSET {p \in Procs : state[p] = "wfchild"} :
          st = [p \in Procs |-> IF p = v THEN "none"
                                ELSE IF p \in parent THEN "runable" ELSE state[p]]
    BY DEF AfterKill
  <2> QED BY <1>4, <1>10, <2>1 DEF States
<1>11. CASE SysCall
  <2>1. CASE SysReturns
    BY <1>4, <1>7, <1>8, <2>1 DEF SysReturns, boot
  <2>2. ASSUME NEW s \in {"stoped", "wfchild"}, SysBlocks(s)
        PROVE  FrameInv'
    <3> DEFINE st == [state EXCEPT ![current_proc] = s]
    <3>1. /\ Running /\ current_proc # idle_proc /\ UNCHANGED <<booted, stale>>
          /\ SwitchTask(current_proc, Result, st, esp, Context) /\ due' = DueResult
      BY <2>2 DEF SysBlocks, boot
    <3>2. /\ st \in [Procs -> States] /\ st[idle_proc] = "idle"
          /\ \A p \in Procs \ {current_proc} : st[p] = state[p]
      BY <1>4, <3>1 DEF States
    <3> HIDE DEF st
    <3> QED BY <1>9, <3>1, <3>2
  <2>3. CASE SysExitRefused
    BY <1>4, <1>9, <2>3 DEF SysExitRefused, boot
  <2>4. CASE SysExit
    <3>1. /\ Running /\ current_proc # idle_proc /\ UNCHANGED <<booted, due, stale>>
      BY <2>4 DEF SysExit, Protected, boot
    <3>2. PICK st \in AfterKill(current_proc) : SwitchTask(NULL, frame, st, esp, Context)
      BY <2>4 DEF SysExit
    <3>3. /\ st \in [Procs -> States] /\ st[idle_proc] = "idle" /\ st[current_proc] = "none"
          /\ \A p \in Procs : st[p] # "none" => state[p] # "none"
          /\ \A p \in Procs : st[p] = "stoped" => state[p] = "stoped"
      BY <1>4, <1>10, <3>1, <3>2
    <3>4. \A p \in Procs \ {NULL} : st[p] # "none" =>
            /\ Mine(p, esp[p]) /\ Found(frame[esp[p]], due'[p], p \in stale')
            /\ st[p] = "stoped" => Context[p] = esp[p]
      BY <1>4, <1>7, <3>1, <3>3 DEF Parked
    <3>5. frame \in [Places -> Frames]
      BY <1>0 DEF Types
    <3>6. Types' /\ Scheduled'
      BY <1>0, <1>4, <1>7, <3>1, <3>2, <3>3, <3>4, <3>5, SwitchSound
    <3> QED BY <1>3, <3>1, <3>6
  <2>5. ASSUME NEW v \in Procs, SysKill(v)
        PROVE  FrameInv'
    <3>1. /\ Running /\ v \in Procs \ {idle_proc} /\ v # current_proc
          /\ state' \in AfterKill(v) /\ stale' = stale \union ({v} \cap Readers)
          /\ Iret(Result, esp0) /\ context' = Context /\ due' = DueResult
          /\ UNCHANGED <<booted, current_proc, esp, esp0>>
      BY <2>5 DEF SysKill, Protected, boot
    <3>2. stale \subseteq stale' /\ stale' \subseteq Procs \ {idle_proc}
      BY <1>0, <3>1 DEF Types
    <3>3. PICK st \in AfterKill(v) : state' = st
      BY <3>1
    <3> QED BY <1>8, <1>10, <3>1, <3>2, <3>3
  <2>6. ASSUME NEW n \in Procs, NEW wait \in BOOLEAN, SysExec(n, wait)
        PROVE  FrameInv'
    <3> DEFINE born == [state EXCEPT ![n] = "runable"]
               es == [esp EXCEPT ![n] = Initial(n)]
               cx == [Context EXCEPT ![n] = Initial(n)]
               fr == [Result EXCEPT ![Initial(n)] = Frame(n)]
    <3>1. /\ Running /\ state[n] = "none" /\ current_proc # idle_proc
          /\ due' = [DueResult EXCEPT ![n] = Frame(n)] /\ UNCHANGED <<booted, stale>>
      BY <2>6 DEF SysExec, boot
    <3>2. \/ SwitchTask(current_proc, fr, [born EXCEPT ![current_proc] = "wfchild"], es, cx)
          \/ /\ state' = born /\ esp' = es /\ context' = cx /\ Iret(fr, esp0)
             /\ UNCHANGED <<current_proc, esp0>>
      BY <2>6 DEF SysExec
    <3>3. n # current_proc /\ n # idle_proc
      BY <1>4, <3>1
    <3>4. Frame(n) \in Frames /\ Frame(n).owner = n /\ Initial(n) \in Places
      BY PlacesOf DEF Frame, Frames
    <3>5. /\ due' \in [Procs -> Frames] /\ \A p \in Procs : due'[p].owner = p
          /\ due'[current_proc] = DueResult[current_proc] /\ due'[n] = Frame(n)
          /\ \A p \in Procs \ {n} : due'[p] = DueResult[p]
      BY <1>4, <1>7, <3>1, <3>3, <3>4
    <3>6. /\ es \in [Procs -> Places] /\ es[n] = Initial(n)
          /\ \A p \in Procs \ {n} : es[p] = esp[p]
      BY <1>4, <3>1, <3>4
    <3>7. /\ cx \in [Procs -> Places] /\ cx[n] = Initial(n)
          /\ \A p \in Procs \ {n} : cx[p] = Context[p]
      BY <1>7, <3>1, <3>4
    <3>8. /\ fr \in [Places -> Frames] /\ fr[Initial(n)] = Frame(n)
          /\ \A pl \in Places \ {Initial(n)} : fr[pl] = Result[pl]
      BY <1>7, <3>1, <3>4
    <3>9. /\ born \in [Procs -> States] /\ born[idle_proc] = "idle"
          /\ born[current_proc] = state[current_proc]
          /\ \A p \in Procs \ {n} : born[p] = state[p]
      BY <1>4, <3>1, <3>3 DEF States
    <3> HIDE DEF born, es, cx, fr
    <3>10. \A p \in Procs : Mine(p, cx[p])
      BY <1>7, <3>1, <3>7 DEF Mine
    <3>11. ASSUME NEW p \in Procs \ {current_proc}, born[p] # "none"
           PROVE  /\ Mine(p, es[p]) /\ Found(fr[es[p]], due'[p], p \in stale')
                  /\ born[p] = "stoped" => cx[p] = es[p]
      <4>1. CASE p = n
        BY <3>5, <3>6, <3>7, <3>8, <4>1 DEF Mine, Found
      <4>2. CASE p # n
        <5>1. /\ es[p] = esp[p] /\ cx[p] = Context[p] /\ due'[p] = due[p]
              /\ born[p] = state[p] /\ stale' = stale
          BY <1>7, <3>1, <3>5, <3>6, <3>7, <3>9, <3>11, <4>2
        <5>2. /\ Mine(p, esp[p]) /\ Found(Result[esp[p]], due[p], p \in stale)
              /\ state[p] = "stoped" => Context[p] = esp[p]
          BY <1>7, <3>1, <3>11, <5>1
        <5>3. esp[p] \in Places /\ esp[p] # Initial(n)
          BY <4>2, <5>2, Apart, PlacesOf DEF Mine
        <5>4. fr[esp[p]] = Result[esp[p]]
          BY <3>8, <5>3
        <5> QED BY <5>1, <5>2, <5>4
      <4> QED BY <4>1, <4>2
    <3>12. Found(fr[esp0], due'[current_proc], current_proc \in stale')
      <4>1. esp0 # Initial(n) /\ esp0 \in Places
        BY <1>4, <3>1, <3>3, Apart, PlacesOf DEF Mine
      <4>2. fr[esp0] = due'[current_proc]
        BY <1>7, <3>1, <3>5, <3>8, <4>1
      <4> QED BY <4>2 DEF Found
    <3>13. Types /\ Scheduled /\ stale' \subseteq Procs \ {idle_proc}
           /\ current_proc \in Procs /\ Gate(current_proc, esp0)
      BY <1>0, <1>4, <1>7, <3>1
    <3>14. CASE SwitchTask(current_proc, fr, [born EXCEPT ![current_proc] = "wfchild"], es, cx)
      <4> DEFINE st == [born EXCEPT ![current_proc] = "wfchild"]
      <4>1. /\ st \in [Procs -> States] /\ st[idle_proc] = "idle"
            /\ \A p \in Procs \ {current_proc} : st[p] = born[p]
        BY <3>1, <3>9, <3>13 DEF States
      <4>2. \A p \in Procs \ {current_proc} : st[p] # "none" =>
              /\ Mine(p, es[p]) /\ Found(fr[es[p]], due'[p], p \in stale')
              /\ st[p] = "stoped" => cx[p] = es[p]
        BY <3>11, <4>1
      <4>3. SwitchTask(current_proc, fr, st, es, cx)
        BY <3>14
      <4> HIDE DEF st
      <4>4. Types' /\ Scheduled'
        BY <3>5, <3>6, <3>7, <3>8, <3>10, <3>12, <3>13, <4>1, <4>2, <4>3, SwitchSound
      <4> QED BY <1>3, <3>1, <4>4
    <3>15. CASE /\ state' = born /\ esp' = es /\ context' = cx /\ Iret(fr, esp0)
                /\ UNCHANGED <<current_proc, esp0>>
      <4>1. /\ state' \in [Procs -> States] /\ state'[idle_proc] = "idle"
            /\ state'[current_proc] \in {"runable", "idle"}
            /\ esp' \in [Procs -> Places] /\ context' \in [Procs -> Places]
            /\ \A p \in Procs : Mine(p, context'[p])
        BY <1>4, <3>1, <3>6, <3>7, <3>9, <3>10, <3>15
      <4>2. \A p \in Procs \ {current_proc} : state'[p] # "none" =>
              /\ Mine(p, esp'[p]) /\ Found(fr[esp'[p]], due'[p], p \in stale')
              /\ state'[p] = "stoped" => context'[p] = esp'[p]
        BY <3>11, <3>15
      <4>3. Types' /\ Scheduled'
        BY <3>5, <3>8, <3>12, <3>13, <3>15, <4>1, <4>2, ReturnSound
      <4> QED BY <1>3, <3>1, <4>3
    <3> QED BY <3>2, <3>14, <3>15
  <2> QED BY <1>11, <2>1, <2>2, <2>3, <2>4, <2>5, <2>6 DEF SysCall
<1>12. CASE UserStep
  <2> DEFINE new(f) == [owner |-> f.owner, at |-> 1 - f.at, eax |-> "old"]
  <2>1. /\ Running /\ UNCHANGED <<booted, current_proc, state, esp, context, esp0, frame, stale>>
        /\ regs' = [regs EXCEPT !.at = 1 - regs.at, !.eax = "old"]
        /\ due' = [due EXCEPT ![current_proc] =
                     [owner |-> current_proc, at |-> 1 - due[current_proc].at, eax |-> "old"]]
    BY <1>12 DEF UserStep, boot
  <2>2. \A f \in Frames : /\ new(f) \in Frames /\ new(f).owner = f.owner
                          /\ [f EXCEPT !.at = 1 - f.at, !.eax = "old"] = new(f)
    <3> SUFFICES ASSUME NEW f \in Frames
                 PROVE  /\ new(f) \in Frames /\ new(f).owner = f.owner
                        /\ [f EXCEPT !.at = 1 - f.at, !.eax = "old"] = new(f)
      OBVIOUS
    <3>1. f.owner \in Procs \union {NULL} /\ f.at \in 0 .. 1 /\ f.eax \in {"old", "result", "key"}
      BY DEF Frames
    <3>2. 1 - f.at \in 0 .. 1
      BY <3>1
    <3>3. [f EXCEPT !.at = 1 - f.at, !.eax = "old"] = new(f)
      <4>1. PICK g : g = [f EXCEPT !.at = 1 - f.at, !.eax = "old"]
        OBVIOUS
      <4>2. g \in Frames /\ g.owner = f.owner /\ g.at = 1 - f.at /\ g.eax = "old"
        BY <3>1, <3>2, <4>1 DEF Frames
      <4>3. g = [owner |-> g.owner, at |-> g.at, eax |-> g.eax]
        BY <4>2 DEF Frames
      <4> QED BY <4>1, <4>2, <4>3
    <3> QED BY <3>1, <3>2, <3>3 DEF Frames
  <2>3. regs \in Frames /\ regs.owner = current_proc /\ regs.at = due[current_proc].at
    <3>1. /\ regs \in Frames /\ Found(regs, due[current_proc], current_proc \in stale)
          /\ due[current_proc] \in Frames /\ due[current_proc].owner = current_proc
          /\ (current_proc \in stale) \in BOOLEAN
      BY <1>0, <1>4, <2>1 DEF Types, Scheduled
    <3>2. PICK d \in Frames, hit \in BOOLEAN :
            d = due[current_proc] /\ hit = (current_proc \in stale)
      BY <3>1
    <3>3. Found(regs, d, hit)
      BY <3>1, <3>2
    <3>4. regs.owner = d.owner /\ regs.at = d.at
      BY <3>1, <3>3, FoundFacts
    <3> QED BY <3>1, <3>2, <3>4
  <2>4. regs' = new(regs) /\ regs' \in Frames
    BY <2>1, <2>2, <2>3
  <2>5. /\ due' \in [Procs -> Frames] /\ \A p \in Procs : due'[p].owner = p
        /\ due'[current_proc] = regs'
        /\ \A p \in Procs \ {current_proc} : due'[p] = due[p]
    <3>1. new(regs) = [owner |-> current_proc, at |-> 1 - due[current_proc].at, eax |-> "old"]
      BY <1>4, <2>1, <2>3
    <3>2. due' = [due EXCEPT ![current_proc] = regs']
      BY <2>1, <2>4, <3>1
    <3>3. regs'.owner = current_proc
      BY <2>4, <3>1
    <3>4. due \in [Procs -> Frames] /\ current_proc \in Procs
          /\ regs' \in Frames /\ \A p \in Procs : due[p].owner = p
      BY <1>4, <2>1, <2>4
    <3> QED BY <3>2, <3>3, <3>4
  <2>6. Types'
    BY <1>0, <2>1, <2>4, <2>5 DEF Types
  <2>7. ASSUME NEW p \in Procs \ {current_proc}, state'[p] # "none"
        PROVE  Parked(p)'
    BY <1>4, <2>1, <2>5, <2>7 DEF Parked, Mine, Gate, Found
  <2>8. Scheduled'
    BY <1>4, <2>1, <2>5, <2>7 DEF Scheduled, Gate, Found, ContextsMine, Mine
  <2> QED BY <1>3, <2>1, <2>6, <2>8
<1>13. CASE (\E l \in Raised : Raise(l)) \/ (\E l \in Lines : UnhandledIrq(l))
            \/ Exeption \/ UNCHANGED vars
  BY <1>1, <1>13 DEF Raise, UnhandledIrq, Exeption, boot, vars
<1> QED BY <1>2, <1>5, <1>6, <1>11, <1>12, <1>13 DEF Next

\* Whatever the order of ticks, keys and calls, deaths included, the running
\* program has the registers of its last gate, and so will every other process;
\* only in the slot of a killed reader a late key may change eax (irqs.s,
\* isrs.s, switch_task, process_key, kill_proc, the dispatcher of int 0x30).
THEOREM RegistersKept == Spec => []Resumes
<1>1. Init => FrameInv
  <2> SUFFICES ASSUME Init
               PROVE  FrameInv
    OBVIOUS
  <2>1. /\ booted = 0 /\ esp0 = Low /\ frame = [pl \in Places |-> Garbage] /\ regs = Garbage
        /\ state = [p \in Procs |-> "none"] /\ due = [p \in Procs |-> Frame(p)]
        /\ esp = [p \in Procs |-> Initial(p)] /\ context = esp
        /\ stale = {}
    BY DEF Init
  <2>2. /\ Garbage \in Frames
        /\ \A p \in Procs : Frame(p) \in Frames /\ Frame(p).owner = p
    BY DEF Garbage, Frame, Frames
  <2>3. Types
    BY <2>1, <2>2, PlacesOf DEF Types, States
  <2>4. Booting
    BY <2>1 DEF Booting
  <2> QED BY <2>1, <2>3, <2>4 DEF FrameInv
<1>2. FrameInv => Resumes
  BY DEF FrameInv, Scheduled, Parked, Resumes, Running
<1> QED BY <1>1, <1>2, FrameStep, PTL DEF Spec
=============================================================================
