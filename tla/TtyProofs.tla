----------------------------- MODULE TtyProofs -----------------------------
(***************************************************************************)
(* Proofs about Tty, for any number of consoles, any screen, any size of   *)
(* the video memory and any limit of a line: the kernel's count and the    *)
(* pointer of gets agree, the cursor stays on the screen and is shown, the *)
(* Shift bit is what the keys are, and what is on the screen before the    *)
(* cursor is the line that gets has.                                       *)
(***************************************************************************)
EXTENDS Tty, TLAPS

USE TtyAssumption, OutputAssumption

-----------------------------------------------------------------------------
(* The Shift bit *)

KbdInv ==
    /\ kbd_state \subseteq {"CTRL", "ALT", "SHIFT"}
    /\ held \subseteq Modifiers /\ crossed \in BOOLEAN
    /\ ShiftTrue
    /\ ~ crossed => ~ Shifts \subseteq held

LEMMA BitOf ==
    ASSUME NEW k \in Modifiers
    PROVE  /\ k \in Shifts => Bit(k) = "SHIFT"
           /\ k \notin Shifts => Bit(k) \in {"CTRL", "ALT"}
<1>1. k \in {"LShift", "RShift", "CTRL", "ALT"}
  OBVIOUS
<1> QED BY <1>1 DEF Bit, Shifts

LEMMA KbdBoot == Init => KbdInv
BY DEF Init, KbdInv, ShiftTrue, Shifts

LEMMA KbdStep == KbdInv /\ [Next]_vars => KbdInv'
<1> SUFFICES ASSUME KbdInv, [Next]_vars
             PROVE  KbdInv'
  OBVIOUS
<1>1. CASE UNCHANGED kbdVars
  BY <1>1 DEF kbdVars, KbdInv, ShiftTrue
<1>2. ASSUME NEW k \in Modifiers, ModifierDown(k)
      PROVE  KbdInv'
  <2>1. /\ kbd_state' = kbd_state \union {Bit(k)} /\ held' = held \union {k}
        /\ crossed' = IF k \in Shifts THEN (held \cap Shifts) \ {k} # {} ELSE crossed
    BY <1>2 DEF ModifierDown, Pressed
  <2>2. /\ k \in Shifts => Bit(k) = "SHIFT"
        /\ k \notin Shifts => Bit(k) \in {"CTRL", "ALT"}
    BY BitOf
  <2>3. CASE k \in Shifts
    BY <2>1, <2>2, <2>3 DEF KbdInv, ShiftTrue, Shifts
  <2>4. CASE k \notin Shifts
    BY <2>1, <2>2, <2>4 DEF KbdInv, ShiftTrue, Shifts
  <2> QED BY <2>3, <2>4
<1>3. ASSUME NEW k \in Modifiers, ModifierUp(k)
      PROVE  KbdInv'
  <2>1. /\ kbd_state' = IF Bit(k) \in kbd_state THEN kbd_state \ {Bit(k)}
                                                ELSE kbd_state \union {Bit(k)}
        /\ k \in held /\ held' = held \ {k} /\ crossed' = crossed
    BY <1>3 DEF ModifierUp, Released, Toggled
  <2>2. /\ k \in Shifts => Bit(k) = "SHIFT"
        /\ k \notin Shifts => Bit(k) \in {"CTRL", "ALT"}
    BY BitOf
  <2>3. CASE k \in Shifts
    <3>1. /\ kbd_state' \subseteq {"CTRL", "ALT", "SHIFT"} /\ held' \subseteq Modifiers
          /\ crossed' \in BOOLEAN
      BY <2>1, <2>2, <2>3 DEF KbdInv
    <3>2. ASSUME ~ crossed'
          PROVE  held' \cap Shifts = {} /\ "SHIFT" \notin kbd_state'
      <4>1. ~ Shifts \subseteq held /\ "SHIFT" \in kbd_state
        BY <2>1, <2>3, <3>2 DEF KbdInv, ShiftTrue
      <4>2. kbd_state' = kbd_state \ {"SHIFT"}
        BY <2>1, <2>2, <2>3, <4>1
      <4>3. held' \cap Shifts = {}
        BY <2>1, <2>3, <4>1 DEF Shifts
      <4> QED BY <4>2, <4>3
    <3> QED BY <3>1, <3>2 DEF KbdInv, ShiftTrue, Shifts
  <2>4. CASE k \notin Shifts
    BY <2>1, <2>2, <2>4 DEF KbdInv, ShiftTrue, Shifts
  <2> QED BY <2>3, <2>4
<1>4. ASSUME NEW c \in Consoles, ShowPrompt(c) \/ GetsChar(c) \/ GetsEnter(c) \/ Outputs(c)
      PROVE  UNCHANGED kbdVars
  BY <1>4 DEF ShowPrompt, GetsChar, GetsEnter, Outputs
<1>5. CASE KeyDown \/ (\E num \in Consoles : FunctionKey(num)) \/ UNCHANGED vars
  BY <1>1, <1>5 DEF KeyDown, FunctionKey, vars
<1> QED BY <1>1, <1>2, <1>3, <1>4, <1>5 DEF Next

\* Unless both Shift keys were down at once, the bit is the state of the keys,
\* after any sequence of presses, repeats and releases (kbd.c:45-63).
THEOREM ShiftKept == Spec => []ShiftTrue
<1>1. KbdInv => ShiftTrue
  BY DEF KbdInv
<1> QED BY <1>1, KbdBoot, KbdStep, PTL DEF Spec

-----------------------------------------------------------------------------
(* The count of the kernel and the pointer of gets *)

\* While a character is on its way from process_key to gets, pos is one ahead,
\* or one behind after a backspace; between two lines both are 0.
InStep(c) ==
    /\ phase[c] \in {"prompt", "exec"} => pos[c] = 0 /\ str[c] = 0 /\ nuls[c] = 0
    /\ phase[c] = "getch" => pos[c] = str[c] + nuls[c]
    /\ phase[c] = "gets" /\ eax[c] = Backspace => pos[c] = str[c] + nuls[c] - 1
    /\ phase[c] = "gets" /\ eax[c] = Enter => pos[c] = 0
    /\ phase[c] = "gets" /\ eax[c] \notin {Backspace, Enter} => pos[c] = str[c] + nuls[c] + 1
    /\ - nuls[c] <= str[c] /\ str[c] <= LINE_MAX

LineInv ==
    /\ current_console \in Consoles
    /\ pos \in [Consoles -> 0 .. LINE_MAX] /\ str \in [Consoles -> Int]
    /\ nuls \in [Consoles -> 0 .. MAX_NULS]
    /\ phase \in [Consoles -> {"prompt", "getch", "gets", "exec"}]
    /\ eax \in [Consoles -> Chars]
    /\ typed \in 0 .. MAX_KEYS
    /\ \A c \in Consoles : InStep(c)

LEMMA LineBoot == Init => LineInv
BY DEF Init, LineInv, InStep, Consoles, Chars

\* A key, whatever its character.
LEMMA KeyInStep ==
    ASSUME LineInv, NEW ch \in Chars, process_key(ch), UNCHANGED current_console,
           ch = Nul => nuls[current_console] < MAX_NULS
    PROVE  LineInv'
<1> DEFINE c == current_console
<1>1. c \in Consoles
  BY DEF LineInv
<1>2. CASE ~Waiting \/ ~Accepted(ch)
  <2>1. UNCHANGED <<pos, phase, eax, str, nuls, typed>>
    BY <1>2 DEF process_key, userVars, histVars
  <2> QED BY <2>1 DEF LineInv, InStep
<1>3. CASE Waiting /\ Accepted(ch)
  <2>1. /\ phase[c] = "getch" /\ str' = str
        /\ pos[c] < LINE_MAX \/ ch = Backspace
        /\ pos' = [pos EXCEPT ![c] = NextPos(ch)]
        /\ nuls' = [nuls EXCEPT ![c] = IF ch = Nul THEN @ + 1 ELSE @]
        /\ IF Echoed(ch) = Nul THEN UNCHANGED <<phase, eax, typed>>
           ELSE /\ typed < MAX_KEYS /\ typed' = typed + 1
                /\ phase' = [phase EXCEPT ![c] = "gets"]
                /\ eax' = [eax EXCEPT ![c] = ch]
    BY <1>3 DEF process_key, Waiting, Accepted
  <2>2. NextPos(ch) = IF ch = Backspace THEN IF pos[c] > 0 THEN pos[c] - 1 ELSE 0
                      ELSE IF ch = Enter THEN 0 ELSE pos[c] + 1
    BY DEF NextPos, Backspace, Enter
  <2>3. /\ pos[c] \in 0 .. LINE_MAX /\ str[c] \in Int /\ nuls[c] \in 0 .. MAX_NULS
        /\ pos[c] = str[c] + nuls[c] /\ - nuls[c] <= str[c] /\ str[c] <= LINE_MAX
    BY <1>1, <2>1 DEF LineInv, InStep
  <2>4. pos' \in [Consoles -> 0 .. LINE_MAX] /\ nuls' \in [Consoles -> 0 .. MAX_NULS]
    BY <1>1, <2>1, <2>2, <2>3 DEF LineInv
  <2>5. /\ phase' \in [Consoles -> {"prompt", "getch", "gets", "exec"}]
        /\ eax' \in [Consoles -> Chars] /\ str' \in [Consoles -> Int]
        /\ typed' \in 0 .. MAX_KEYS
    BY <1>1, <2>1 DEF LineInv
  <2>6. ASSUME NEW d \in Consoles, d # c
        PROVE  InStep(d)'
    BY <1>1, <2>1, <2>6 DEF LineInv, InStep
  <2>7. InStep(c)'
    <3>1. CASE Echoed(ch) = Nul
      <4>1. ch = Nul \/ (ch = Backspace /\ pos[c] = 0)
        BY <3>1 DEF Echoed, Backspace, Nul
      <4>2. UNCHANGED <<phase, eax>> /\ pos'[c] = NextPos(ch)
            /\ nuls'[c] = IF ch = Nul THEN nuls[c] + 1 ELSE nuls[c]
        BY <1>1, <2>1, <3>1 DEF LineInv
      <4> QED BY <2>1, <2>2, <2>3, <4>1, <4>2 DEF InStep, Nul, Backspace, Enter
    <3>2. CASE Echoed(ch) # Nul
      <4>1. ch # Nul /\ ~(ch = Backspace /\ pos[c] = 0)
        BY <3>2 DEF Echoed, Backspace, Nul
      <4>2. phase'[c] = "gets" /\ eax'[c] = ch /\ pos'[c] = NextPos(ch) /\ nuls'[c] = nuls[c]
        BY <1>1, <2>1, <3>2, <4>1 DEF LineInv
      <4> QED BY <2>1, <2>2, <2>3, <4>1, <4>2 DEF InStep, Nul, Backspace, Enter
    <3> QED BY <3>1, <3>2
  <2>8. \A d \in Consoles : InStep(d)'
    BY <2>6, <2>7
  <2> QED BY <1>1, <2>4, <2>5, <2>8 DEF LineInv
<1> QED BY <1>2, <1>3

LEMMA LineStep == LineInv /\ [Next]_vars => LineInv'
<1> SUFFICES ASSUME LineInv, [Next]_vars
             PROVE  LineInv'
  OBVIOUS
<1>1. ASSUME NEW k \in Modifiers, ModifierDown(k)
      PROVE  LineInv'
  BY <1>1, KeyInStep DEF ModifierDown, Chars
<1>2. CASE KeyDown
  <2>1. PICK ch \in {Letter, Enter, Backspace, Tab, Esc} : process_key(ch)
    BY <1>2 DEF KeyDown
  <2>2. ch \in Chars /\ ch # Nul
    BY DEF Chars, Printable, Letter, Enter, Backspace, Tab, Esc, Nul
  <2> QED BY <1>2, <2>1, <2>2, KeyInStep DEF KeyDown
<1>3. ASSUME NEW num \in Consoles, FunctionKey(num)
      PROVE  LineInv'
  BY <1>3 DEF FunctionKey, set_console, userVars, histVars, LineInv, InStep
<1>4. ASSUME NEW c \in Consoles, ShowPrompt(c) \/ Outputs(c)
      PROVE  LineInv'
  <2>1. /\ UNCHANGED <<current_console, pos, eax, str, nuls, typed>>
        /\ \/ phase[c] = "prompt" /\ phase' = [phase EXCEPT ![c] = "getch"]
           \/ phase[c] = "exec" /\ phase' = [phase EXCEPT ![c] = "prompt"]
    BY <1>4 DEF ShowPrompt, Outputs
  <2>2. ASSUME NEW d \in Consoles
        PROVE  InStep(d)'
    BY <2>1 DEF LineInv, InStep
  <2> QED BY <2>1, <2>2 DEF LineInv
<1>5. ASSUME NEW c \in Consoles, GetsChar(c)
      PROVE  LineInv'
  <2>1. /\ UNCHANGED <<current_console, pos, nuls, typed>>
        /\ phase[c] = "gets" /\ eax[c] # Enter
        /\ phase' = [phase EXCEPT ![c] = "getch"] /\ eax' = [eax EXCEPT ![c] = Nul]
        /\ str' = [str EXCEPT ![c] = IF eax[c] = Backspace THEN @ - 1 ELSE @ + 1]
    BY <1>5 DEF GetsChar, histVars
  <2>2. pos[c] \in 0 .. LINE_MAX /\ str[c] \in Int /\ nuls[c] \in 0 .. MAX_NULS
        /\ str'[c] + nuls[c] = pos[c]
    BY <2>1 DEF LineInv, InStep
  <2>3. InStep(c)'
    BY <2>1, <2>2 DEF LineInv, InStep
  <2>4. \A d \in Consoles \ {c} : InStep(d)'
    BY <2>1 DEF LineInv, InStep
  <2>5. Nul \in Chars /\ str' \in [Consoles -> Int]
    BY <2>1 DEF LineInv, Chars
  <2>6. \A d \in Consoles : InStep(d)'
    BY <2>3, <2>4
  <2> QED BY <2>1, <2>5, <2>6 DEF LineInv
<1>6. ASSUME NEW c \in Consoles, GetsEnter(c)
      PROVE  LineInv'
  <2>1. /\ UNCHANGED <<current_console, pos, typed>>
        /\ phase[c] = "gets" /\ eax[c] = Enter
        /\ \E ph \in {"prompt", "exec"} : phase' = [phase EXCEPT ![c] = ph]
        /\ eax' = [eax EXCEPT ![c] = Nul]
        /\ str' = [str EXCEPT ![c] = 0] /\ nuls' = [nuls EXCEPT ![c] = 0]
    BY <1>6 DEF GetsEnter
  <2>2. InStep(c)'
    BY <2>1 DEF LineInv, InStep
  <2>3. \A d \in Consoles \ {c} : InStep(d)'
    BY <2>1 DEF LineInv, InStep
  <2>4. Nul \in Chars /\ 0 \in 0 .. MAX_NULS
    BY DEF Chars
  <2>5. \A d \in Consoles : InStep(d)'
    BY <2>2, <2>3
  <2> QED BY <2>1, <2>4, <2>5 DEF LineInv
<1>7. CASE (\E k \in Modifiers : ModifierUp(k)) \/ UNCHANGED vars
  BY <1>7 DEF ModifierUp, vars, userVars, histVars, LineInv, InStep
<1> QED BY <1>1, <1>2, <1>3, <1>4, <1>5, <1>6, <1>7 DEF Next

\* gets stores LINE_MAX characters at most, and what the kernel counts is what
\* it stored, in every console and whatever is typed (console.c:157-171,
\* puzzlestd.c:56-66).
THEOREM LineCounted == Spec => []PosCountsLine
<1>1. LineInv => PosCountsLine
  BY DEF LineInv, InStep, PosCountsLine
<1> QED BY <1>1, LineBoot, LineStep, PTL DEF Spec

-----------------------------------------------------------------------------
(* The screen *)

Last == Frame(CONSOLES_COUNT) - 1

\* A memory whose cells above the video memory read as nothing.
Video(m) == /\ m \in [0 .. Last -> Cells]
            /\ \A a \in 0 .. Last : a >= VIDEO_WORDS => m[a] = Rom

ScreenInv ==
    /\ current_console \in Consoles /\ output_to \in [Consoles -> Consoles]
    /\ x \in [Consoles -> 0 .. COLS - 1] /\ y \in [Consoles -> 0 .. ROWS - 1]
    /\ Video(vga)
    /\ CursorShown

\* The frames of the consoles lie side by side from 0 to Last.
LEMMA FrameFacts ==
    ASSUME NEW c \in Consoles
    PROVE  /\ Frame(c) \in Nat /\ Frame(c + 1) = Frame(c) + ROWS * COLS
           /\ COLS <= ROWS * COLS /\ ROWS * COLS \in Nat
           /\ Frame(c + 1) - 1 <= Last /\ Last \in Nat
           /\ \A d \in Consoles : c < d => Frame(c + 1) <= Frame(d)
<1> DEFINE S == ROWS * COLS
<1>1. c \in Nat /\ c + 1 <= CONSOLES_COUNT /\ CONSOLES_COUNT \in Nat
      /\ ROWS \in Nat /\ COLS \in Nat /\ ROWS >= 1 /\ COLS >= 1
  BY DEF Consoles
<1>2. S \in Nat /\ COLS <= S
  BY <1>1
<1>3. \A n \in Nat : n * ROWS * COLS = n * S
  BY <1>1
<1>4. \A n, m \in Nat : /\ n * S \in Nat /\ (n + 1) * S = n * S + S
                        /\ n <= m => n * S <= m * S
  <2> HIDE DEF S
  <2> QED BY <1>2
<1>5. Frame(c) = c * S /\ Frame(c + 1) = (c + 1) * S /\ Last = CONSOLES_COUNT * S - 1
      /\ \A d \in Consoles : d \in Nat /\ Frame(d) = d * S
  BY <1>1, <1>3 DEF Frame, Last, Consoles
<1>6. (c + 1) * S <= CONSOLES_COUNT * S
      /\ \A d \in Nat : c < d => (c + 1) * S <= d * S
  <2> HIDE DEF S
  <2> QED BY <1>1, <1>4
<1> HIDE DEF S
<1>7. Frame(c) \in Nat /\ Frame(c + 1) = Frame(c) + S
  BY <1>1, <1>4, <1>5
<1>8. Frame(c + 1) - 1 <= Last /\ Last \in Nat
  BY <1>1, <1>2, <1>4, <1>5, <1>6, <1>7
<1>9. \A d \in Consoles : c < d => Frame(c + 1) <= Frame(d)
  BY <1>5, <1>6
<1> QED BY <1>2, <1>7, <1>8, <1>9 DEF S

LEMMA FramesApart ==
    ASSUME NEW c \in Consoles, NEW d \in Consoles, c # d
    PROVE  FrameOf(c) \cap FrameOf(d) = {} /\ FrameOf(c) \subseteq 0 .. Last
<1>1. /\ FrameOf(c) = Frame(c) .. Frame(c + 1) - 1
      /\ FrameOf(d) = Frame(d) .. Frame(d + 1) - 1
      /\ Frame(c) \in Nat /\ Frame(d) \in Nat /\ Frame(c + 1) - 1 <= Last
      /\ Frame(c + 1) \in Int /\ Frame(d + 1) \in Int /\ Last \in Nat
  BY FrameFacts DEF FrameOf
<1>2. Frame(c + 1) <= Frame(d) \/ Frame(d + 1) <= Frame(c)
  <2>1. c \in Int /\ d \in Int
    BY DEF Consoles
  <2>2. c < d \/ d < c
    BY <2>1
  <2> QED BY <2>2, FrameFacts
<1> QED BY <1>1, <1>2

\* A cursor on the screen is in the frame of its console, and so is the cell
\* before it unless it is in column 0.
LEMMA PlaceFacts ==
    ASSUME NEW c \in Consoles, x[c] \in 0 .. COLS - 1, y[c] \in 0 .. ROWS - 1
    PROVE  /\ Place(c) \in FrameOf(c) /\ Place(c) \in 0 .. Last
           /\ x[c] > 0 => Place(c) - 1 \in FrameOf(c)
<1> DEFINE row == y[c] * COLS
<1>1. row \in Nat /\ row + COLS <= ROWS * COLS
  <2>1. y[c] \in Nat /\ y[c] + 1 <= ROWS /\ COLS \in Nat /\ ROWS \in Nat
    OBVIOUS
  <2>2. \A n \in Nat : /\ n * COLS \in Nat /\ (n + 1) * COLS = n * COLS + COLS
                       /\ n <= ROWS => n * COLS <= ROWS * COLS
    BY <2>1
  <2> QED BY <2>1, <2>2
<1> HIDE DEF row
<1>2. Place(c) = Frame(c) + row + x[c]
  BY DEF Place, row
<1>3. Frame(c) \in Nat /\ ROWS * COLS \in Nat /\ COLS \in Nat /\ x[c] \in Nat /\ x[c] <= COLS - 1
      /\ Frame(c) + ROWS * COLS - 1 <= Last /\ Last \in Nat
  BY FrameFacts
<1> QED BY <1>1, <1>2, <1>3 DEF FrameOf

LEMMA KeptVideo ==
    ASSUME NEW m \in [0 .. Last -> Cells]
    PROVE  Video(Kept(m))
BY DEF Kept, Video, Cells

\* What console_write stores and what scrolling moves lies in the frame of the
\* console.
LEMMA DrawnSound ==
    ASSUME Video(vga), NEW c \in Consoles, NEW ch \in Chars,
           x[c] \in 0 .. COLS - 1, y[c] \in 0 .. ROWS - 1
    PROVE  /\ Video(Drawn(c, ch))
           /\ \A a \in 0 .. Last : a \notin FrameOf(c) => Drawn(c, ch)[a] = vga[a]
<1>1. vga \in [0 .. Last -> Cells] /\ \A a \in 0 .. Last : a >= VIDEO_WORDS => vga[a] = Rom
  BY DEF Video
<1>2. ASSUME NEW a \in FrameOf(c), NEW v \in Cells
      PROVE  /\ Video(Kept([vga EXCEPT ![a] = v]))
             /\ \A b \in 0 .. Last : b \notin FrameOf(c) =>
                    Kept([vga EXCEPT ![a] = v])[b] = vga[b]
  <2>1. [vga EXCEPT ![a] = v] \in [0 .. Last -> Cells]
    BY <1>1
  <2>2. ASSUME NEW b \in 0 .. Last, b # a
        PROVE  Kept([vga EXCEPT ![a] = v])[b] = vga[b]
    BY <1>1, <2>2 DEF Kept
  <2> QED BY <1>2, <2>1, <2>2, KeptVideo
<1>3. /\ Place(c) \in FrameOf(c)
      /\ x[c] > 0 => Place(c) - 1 \in FrameOf(c)
  BY PlaceFacts
<1>4. Printable \subseteq Cells /\ Blank \in Cells
  BY DEF Cells
<1> QED BY <1>2, <1>3, <1>4 DEF Drawn

LEMMA ScrollSound ==
    ASSUME NEW m, Video(m), NEW c \in Consoles
    PROVE  /\ Video(ScrolledUp(m, c))
           /\ \A a \in 0 .. Last : a \notin FrameOf(c) => ScrolledUp(m, c)[a] = m[a]
<1>1. m \in [0 .. Last -> Cells] /\ \A a \in 0 .. Last : a >= VIDEO_WORDS => m[a] = Rom
  BY DEF Video
<1>2. /\ Frame(c) \in Nat /\ Frame(c + 1) = Frame(c) + ROWS * COLS /\ ROWS * COLS \in Nat
      /\ COLS <= ROWS * COLS /\ Frame(c + 1) - 1 <= Last /\ Last \in Nat /\ COLS \in Nat
  BY FrameFacts
<1>3. LastRow(c) \subseteq FrameOf(c)
  BY <1>2 DEF LastRow, FrameOf
<1>4. \A a \in FrameOf(c) \ LastRow(c) : a + COLS \in 0 .. Last
  BY <1>2 DEF LastRow, FrameOf
<1> DEFINE n == [a \in DOMAIN m |-> IF a \in Copied(c) THEN m[a + COLS]
                                   ELSE IF a \in Cleared(c) THEN Blank ELSE m[a]]
<1>5. n \in [0 .. Last -> Cells]
  BY <1>1, <1>4 DEF Copied, Cleared, Cells
<1>6. \A a \in 0 .. Last : a \notin FrameOf(c) => n[a] = m[a]
  BY <1>1, <1>3 DEF Copied, Cleared
<1>7. ScrolledUp(m, c) = Kept(n)
  BY DEF ScrolledUp
<1> HIDE DEF n
<1>8. \A a \in 0 .. Last : a \notin FrameOf(c) => Kept(n)[a] = m[a]
  BY <1>1, <1>5, <1>6 DEF Kept
<1> QED BY <1>5, <1>7, <1>8, KeptVideo

LEMMA ColumnNat ==
    ASSUME NEW c \in Consoles, x[c] \in 0 .. COLS - 1, NEW ch \in Chars \ {Nul, Esc}
    PROVE  Column(c, ch) \in Nat
<1>1. CASE ch \in Printable
  BY <1>1 DEF Column
<1>2. CASE ch = Tab
  <2>1. (x[c] + TAB) \div TAB \in Nat
    <3>1. x[c] + TAB \in Nat /\ TAB \in Nat /\ TAB > 0
      OBVIOUS
    <3> QED BY <3>1
  <2>2. Column(c, ch) = ((x[c] + TAB) \div TAB) * TAB
    BY <1>2 DEF Column, Return, Enter, Tab, Backspace, Printable, Prompt
  <2> QED BY <2>1, <2>2
<1>3. CASE ch \in {Return, Enter}
  BY <1>3 DEF Column, Return, Enter, Tab, Printable, Prompt
<1>4. CASE ch = Backspace
  BY <1>4 DEF Column, Return, Enter, Tab, Backspace, Printable, Prompt
<1> QED BY <1>1, <1>2, <1>3, <1>4 DEF Chars

\* console_write: the cursor stays on the screen and is shown, and the cells of
\* the other consoles stay as they are.
LEMMA WriteSound ==
    ASSUME ScreenInv, NEW c \in Consoles, NEW ch \in Chars, console_write(c, ch),
           UNCHANGED <<current_console, frame_buffer_addr>>, output_to' \in [Consoles -> Consoles]
    PROVE  ScreenInv' /\ \A a \in 0 .. Last : a \notin FrameOf(c) => vga'[a] = vga[a]
<1>1. /\ current_console \in Consoles
      /\ x \in [Consoles -> 0 .. COLS - 1] /\ y \in [Consoles -> 0 .. ROWS - 1] /\ Video(vga)
      /\ frame_buffer_addr = Frame(current_console) /\ crt_cursor = Place(current_console)
  BY DEF ScreenInv, CursorShown
<1>2. CASE ch \in {Nul, Esc}
  <2>1. UNCHANGED <<x, y, vga, crt_cursor>>
    BY <1>2 DEF console_write
  <2> QED BY <1>1, <2>1 DEF ScreenInv, CursorShown, Place
<1>3. CASE ch \notin {Nul, Esc}
  <2>1. /\ vga' = IF Scrolls(c, ch) THEN ScrolledUp(Drawn(c, ch), c) ELSE Drawn(c, ch)
        /\ x' = [x EXCEPT ![c] = IF Wraps(Column(c, ch)) THEN 0 ELSE Column(c, ch)]
        /\ y' = [y EXCEPT ![c] = IF NewLine(c, ch) /\ ~Scrolls(c, ch) THEN @ + 1 ELSE @]
        /\ crt_cursor' = IF c = current_console
                         THEN frame_buffer_addr + y'[c] * COLS + x'[c] ELSE crt_cursor
    BY <1>3 DEF console_write
  <2>2. Video(vga') /\ \A a \in 0 .. Last : a \notin FrameOf(c) => vga'[a] = vga[a]
    BY <1>1, <2>1, DrawnSound, ScrollSound
  <2>3. x' \in [Consoles -> 0 .. COLS - 1]
    <3>1. Column(c, ch) \in Nat
      BY <1>1, <1>3, ColumnNat
    <3>2. (IF Wraps(Column(c, ch)) THEN 0 ELSE Column(c, ch)) \in 0 .. COLS - 1
      BY <3>1 DEF Wraps
    <3> QED BY <1>1, <2>1, <3>2
  <2>4. y' \in [Consoles -> 0 .. ROWS - 1]
    <3>1. (IF NewLine(c, ch) /\ ~Scrolls(c, ch) THEN y[c] + 1 ELSE y[c]) \in 0 .. ROWS - 1
      BY <1>1 DEF Scrolls
    <3> QED BY <1>1, <2>1, <3>1
  <2>5. crt_cursor' = Place(current_console)'
    BY <1>1, <2>1 DEF Place, Frame
  <2> QED BY <1>1, <2>2, <2>3, <2>4, <2>5 DEF ScreenInv, CursorShown, Video
<1> QED BY <1>2, <1>3

\* Only the cells of one console change in a step.
OneWritten == \E c \in Consoles : \A a \in 0 .. Last : a \notin FrameOf(c) => vga'[a] = vga[a]

LEMMA KeyDrawn ==
    ASSUME ScreenInv, NEW ch \in Chars, process_key(ch), UNCHANGED current_console
    PROVE  ScreenInv' /\ OneWritten
<1>1. CASE ~Waiting \/ ~Accepted(ch)
  <2>1. UNCHANGED <<frame_buffer_addr, x, y, vga, crt_cursor, output_to>>
    BY <1>1 DEF process_key, scrVars, userVars
  <2> QED BY <2>1 DEF ScreenInv, CursorShown, Place, Video, OneWritten
<1>2. CASE Waiting /\ Accepted(ch)
  <2>1. console_write(current_console, Echoed(ch)) /\ UNCHANGED <<frame_buffer_addr, output_to>>
    BY <1>2 DEF process_key
  <2>2. Echoed(ch) \in Chars
    BY DEF Echoed, Chars
  <2> QED BY <2>1, <2>2, WriteSound DEF ScreenInv, OneWritten
<1> QED BY <1>1, <1>2

LEMMA ScreenStep == ScreenInv /\ [Next]_vars => ScreenInv' /\ OneWritten
<1> SUFFICES ASSUME ScreenInv, [Next]_vars
             PROVE  ScreenInv' /\ OneWritten
  OBVIOUS
<1>1. ASSUME NEW k \in Modifiers, ModifierDown(k)
      PROVE  ScreenInv' /\ OneWritten
  BY <1>1, KeyDrawn DEF ModifierDown, Chars
<1>2. CASE KeyDown
  <2>1. PICK ch \in {Letter, Enter, Backspace, Tab, Esc} : process_key(ch)
    BY <1>2 DEF KeyDown
  <2>2. ch \in Chars
    BY DEF Chars, Printable, Letter
  <2> QED BY <1>2, <2>1, <2>2, KeyDrawn DEF KeyDown
<1>3. ASSUME NEW num \in Consoles, FunctionKey(num)
      PROVE  ScreenInv' /\ OneWritten
  <2>1. /\ current_console' = num /\ frame_buffer_addr' = Frame(num)
        /\ crt_cursor' = Frame(num) + y[num] * COLS + x[num]
        /\ UNCHANGED <<x, y, vga, output_to>>
    BY <1>3 DEF FunctionKey, set_console, CursorFrame, userVars
  <2>2. CursorShown'
    BY <2>1 DEF CursorShown, Place, Frame
  <2> QED BY <2>1, <2>2 DEF ScreenInv, Video, OneWritten
<1>4. ASSUME NEW c \in Consoles, ShowPrompt(c)
      PROVE  ScreenInv' /\ OneWritten
  <2>1. Prompt \in Chars
    BY DEF Chars, Printable
  <2> QED BY <1>4, <2>1, WriteSound DEF ShowPrompt, ScreenInv, OneWritten
<1>5. ASSUME NEW c \in Consoles, Outputs(c)
      PROVE  ScreenInv' /\ OneWritten
  <2>1. PICK d \in {output_to[c], current_console}, ch \in Output :
          console_write(d, ch) /\ output_to' = [output_to EXCEPT ![c] = c]
    BY <1>5 DEF Outputs
  <2>2. UNCHANGED <<current_console, frame_buffer_addr>>
    BY <1>5 DEF Outputs
  <2>3. d \in Consoles /\ ch \in Chars /\ output_to' \in [Consoles -> Consoles]
    BY <2>1 DEF ScreenInv
  <2> QED BY <2>1, <2>2, <2>3, WriteSound DEF OneWritten
<1>6. ASSUME NEW c \in Consoles, GetsEnter(c)
      PROVE  ScreenInv' /\ OneWritten
  <2>1. UNCHANGED <<frame_buffer_addr, x, y, vga, crt_cursor, current_console>>
    BY <1>6 DEF GetsEnter, scrVars
  <2>2. output_to' \in [Consoles -> Consoles]
    BY <1>6 DEF GetsEnter, ScreenInv
  <2> QED BY <2>1, <2>2 DEF ScreenInv, CursorShown, Place, Video, OneWritten
<1>7. CASE \/ \E k \in Modifiers : ModifierUp(k)
           \/ \E c \in Consoles : GetsChar(c)
           \/ UNCHANGED vars
  <2>1. UNCHANGED <<frame_buffer_addr, x, y, vga, crt_cursor, current_console, output_to>>
    BY <1>7 DEF ModifierUp, GetsChar, vars, scrVars, userVars
  <2> QED BY <2>1 DEF ScreenInv, CursorShown, Place, Video, OneWritten
<1> QED BY <1>1, <1>2, <1>3, <1>4, <1>5, <1>6, <1>7 DEF Next

LEMMA ScreenBoot == Init => ScreenInv
<1> SUFFICES ASSUME Init
             PROVE  ScreenInv
  OBVIOUS
<1>1. 0 \in Consoles
  BY DEF Consoles
<1>2. [a \in 0 .. Last |-> Blank] \in [0 .. Last -> Cells]
  BY DEF Cells
<1>3. vga = Kept([a \in 0 .. Last |-> Blank])
  BY DEF Init, Last
<1>4. Video(vga)
  BY <1>2, <1>3, KeptVideo
<1>5. Place(0) = Frame(0)
  <2>1. x[0] = 0 /\ y[0] = 0
    BY <1>1 DEF Init
  <2> QED BY <1>1, <2>1, FrameFacts DEF Place
<1> QED BY <1>1, <1>4, <1>5 DEF Init, ScreenInv, CursorShown

\* The chip shows the current console and its cursor after any sequence of
\* keys, console switches and output of programs (console.c:115, 198-207).
THEOREM CursorFollows == Spec => []CursorShown
<1>1. ScreenInv => CursorShown
  BY DEF ScreenInv
<1> QED BY <1>1, ScreenBoot, ScreenStep, PTL DEF Spec

\* No character, tab, backspace or scroll at the edge of a frame touches the
\* console beside it, whatever the sizes (console.c:58-112).
THEOREM FramesKept == Spec => OneFrameOnly
<1>1. OneWritten => [OneFrame]_vars
  <2> SUFFICES ASSUME OneWritten, NEW c \in Consoles, NEW d \in Consoles, c # d
               PROVE  \/ \A a \in FrameOf(c) : vga'[a] = vga[a]
                      \/ \A a \in FrameOf(d) : vga'[a] = vga[a]
    BY DEF OneFrame
  <2>1. PICK e \in Consoles : \A a \in 0 .. Last : a \notin FrameOf(e) => vga'[a] = vga[a]
    BY DEF OneWritten
  <2>2. CASE e # c
    BY <2>1, <2>2, FramesApart
  <2>3. CASE e # d
    BY <2>1, <2>3, FramesApart
  <2> QED BY <2>2, <2>3
<1>2. ScreenInv /\ [Next]_vars => [OneFrame]_vars
  BY <1>1, ScreenStep
<1> QED BY <1>2, ScreenBoot, ScreenStep, PTL DEF Spec, OneFrameOnly

\* Every variable has its type: the cursors are on the screen and pos is within
\* its limit, for any sizes.
THEOREM TtyTypes == Spec => []TypeOK
<1>1. KbdInv /\ LineInv /\ ScreenInv => TypeOK
  <2> SUFFICES ASSUME KbdInv, LineInv, ScreenInv
               PROVE  TypeOK
    OBVIOUS
  <2>1. DOMAIN vga = 0 .. Last /\ vga \in [0 .. Last -> Cells]
    BY DEF ScreenInv, Video
  <2>2. frame_buffer_addr \in 0 .. Last
    BY FrameFacts DEF ScreenInv, CursorShown
  <2>3. crt_cursor \in 0 .. Last
    BY PlaceFacts DEF ScreenInv, CursorShown
  <2>4. str \in [Consoles -> -MAX_NULS .. LINE_MAX]
    <3>1. \A c \in Consoles : str[c] \in -MAX_NULS .. LINE_MAX
      BY DEF LineInv, InStep
    <3> QED BY <3>1 DEF LineInv
  <2> QED BY <2>1, <2>2, <2>3, <2>4 DEF TypeOK, KbdInv, LineInv, ScreenInv, Last
<1> QED BY <1>1, KbdBoot, KbdStep, LineBoot, LineStep, ScreenBoot, ScreenStep, PTL DEF Spec

-----------------------------------------------------------------------------
(* The echo of a line *)

\* The pointer of gets and the line as they are once the character that is on
\* its way is stored or taken back.
Pointer(c) == IF phase[c] = "getch" THEN str[c]
              ELSE IF eax[c] = Backspace THEN str[c] - 1 ELSE str[c] + 1
Text(c) == IF phase[c] = "getch" THEN line[c]
           ELSE IF eax[c] # Backspace THEN IF str[c] >= 0 THEN Append(line[c], eax[c]) ELSE line[c]
           ELSE IF str[c] > 0 THEN SubSeq(line[c], 1, str[c] - 1) ELSE line[c]
First(c) == Frame(c) + start[c]
Editing(c) == phase[c] = "getch" \/ (phase[c] = "gets" /\ eax[c] # Enter)

\* From where the line starts, or from the top of the screen if that has
\* scrolled away, to the cursor the frame has the characters of the line.
Echoes(c) ==
    /\ Place(c) = First(c) + Pointer(c)
    /\ InVideo(c) => \A a \in Frame(c) .. Place(c) - 1 :
          a >= First(c) => vga[a] = Text(c)[a - First(c) + 1]

EchoInv ==
    /\ LineInv /\ ScreenInv
    /\ line \in [Consoles -> Seq(Chars)] /\ start \in [Consoles -> Int]
    /\ odd \in [Consoles -> BOOLEAN]
    /\ \A c \in Consoles : Len(line[c]) = IF str[c] > 0 THEN str[c] ELSE 0
    /\ \A c \in Consoles : Editing(c) /\ ~odd[c] => Echoes(c)

\* A character is drawn before the cursor, which moves on by one cell, or stays
\* while everything moves up by a row.
LEMMA CharacterDrawn ==
    ASSUME ScreenInv, NEW c \in Consoles, NEW ch \in Printable, console_write(c, ch),
           NEW up, up = IF Scrolls(c, ch) THEN COLS ELSE 0
    PROVE  /\ Place(c)' = Place(c) + 1 - up
           /\ InVideo(c) => \A a \in Frame(c) .. Place(c) : a - up >= Frame(c) =>
                 vga'[a - up] = IF a = Place(c) THEN ch ELSE vga[a]
<1>1. /\ ch \notin {Nul, Esc, Tab, Return, Enter, Backspace}
      /\ ch \in Chars /\ ch \in Cells
  BY DEF Printable, Nul, Esc, Tab, Return, Enter, Backspace, Prompt, Chars, Cells
<1>2. Column(c, ch) = x[c] + 1
  BY <1>1 DEF Column
<1>3. /\ vga' = IF Scrolls(c, ch) THEN ScrolledUp(Drawn(c, ch), c) ELSE Drawn(c, ch)
      /\ x' = [x EXCEPT ![c] = IF Wraps(Column(c, ch)) THEN 0 ELSE Column(c, ch)]
      /\ y' = [y EXCEPT ![c] = IF NewLine(c, ch) /\ ~Scrolls(c, ch) THEN @ + 1 ELSE @]
  BY <1>1 DEF console_write
<1>4. /\ x \in [Consoles -> 0 .. COLS - 1] /\ y \in [Consoles -> 0 .. ROWS - 1]
      /\ vga \in [0 .. Last -> Cells]
      /\ x[c] \in 0 .. COLS - 1 /\ y[c] \in 0 .. ROWS - 1
  BY DEF ScreenInv, Video
<1>5. /\ NewLine(c, ch) <=> x[c] = COLS - 1
      /\ Scrolls(c, ch) <=> x[c] = COLS - 1 /\ y[c] = ROWS - 1
      /\ Wraps(Column(c, ch)) <=> x[c] = COLS - 1
  <2>1. COLS \in Nat /\ x[c] \in Int /\ x[c] <= COLS - 1
    BY <1>4
  <2>2. Wraps(Column(c, ch)) <=> x[c] = COLS - 1
    BY <1>2, <2>1 DEF Wraps
  <2>3. NewLine(c, ch) <=> x[c] = COLS - 1
    BY <1>1, <2>2 DEF NewLine
  <2> QED BY <2>2, <2>3 DEF Scrolls
<1>6. /\ x'[c] = IF x[c] = COLS - 1 THEN 0 ELSE x[c] + 1
      /\ y'[c] = IF x[c] = COLS - 1 /\ y[c] # ROWS - 1 THEN y[c] + 1 ELSE y[c]
  BY <1>2, <1>3, <1>4, <1>5
<1>7. /\ Frame(c) \in Nat /\ ROWS * COLS \in Nat /\ Frame(c + 1) = Frame(c) + ROWS * COLS
      /\ COLS <= ROWS * COLS /\ Frame(c + 1) - 1 <= Last /\ Last \in Nat
  BY FrameFacts
<1>8. /\ Place(c) \in FrameOf(c) /\ Place(c) \in 0 .. Last
  BY <1>4, PlaceFacts
<1>9. Place(c)' = Place(c) + 1 - up
  <2>1. Place(c)' = Frame(c) + y'[c] * COLS + x'[c]
    BY DEF Place, Frame
  <2>2. /\ y[c] \in Nat /\ COLS \in Nat /\ ROWS \in Nat /\ y[c] * COLS \in Nat
        /\ (y[c] + 1) * COLS = y[c] * COLS + COLS
    BY <1>4
  <2> DEFINE row == y[c] * COLS
  <2>3. y'[c] * COLS = IF x[c] = COLS - 1 /\ y[c] # ROWS - 1 THEN row + COLS ELSE row
    BY <1>6, <2>2
  <2>4. Place(c) = Frame(c) + row + x[c]
    BY DEF Place
  <2>5. row \in Nat
    BY <2>2
  <2> HIDE DEF row
  <2>6. CASE x[c] = COLS - 1 /\ y[c] # ROWS - 1
    <3>1. y'[c] * COLS = row + COLS /\ x'[c] = 0 /\ up = 0
      BY <1>4, <1>5, <1>6, <2>3, <2>6
    <3> QED BY <1>4, <1>7, <2>1, <2>4, <2>5, <2>6, <3>1
  <2>7. CASE x[c] = COLS - 1 /\ y[c] = ROWS - 1
    <3>1. y'[c] * COLS = row /\ x'[c] = 0 /\ up = COLS
      BY <1>4, <1>5, <1>6, <2>3, <2>7
    <3>2. Place(c)' = Frame(c) + row + 0 /\ Place(c) = Frame(c) + row + (COLS - 1)
      BY <2>1, <2>4, <2>7, <3>1
    <3>3. {Frame(c), row, COLS} \subseteq Int
      BY <1>4, <1>7, <2>5
    <3> QED BY <3>1, <3>2, <3>3
  <2>8. CASE x[c] # COLS - 1
    <3>1. y'[c] * COLS = row /\ x'[c] = x[c] + 1 /\ up = 0
      BY <1>4, <1>5, <1>6, <2>3, <2>8
    <3> QED BY <1>4, <1>7, <2>1, <2>4, <2>5, <2>8, <3>1
  <2> QED BY <2>6, <2>7, <2>8
<1>10. ASSUME InVideo(c)
       PROVE  \A a \in Frame(c) .. Place(c) : a - up >= Frame(c) =>
                  vga'[a - up] = IF a = Place(c) THEN ch ELSE vga[a]
  <2>1. Frame(c + 1) <= VIDEO_WORDS /\ VIDEO_WORDS \in Nat
    BY <1>10 DEF InVideo
  <2> DEFINE d == Drawn(c, ch)
  <2>2. d = Kept([vga EXCEPT ![Place(c)] = ch])
    BY DEF Drawn
  <2>3. Place(c) < Frame(c + 1) /\ Place(c) \in Nat
    BY <1>7, <1>8 DEF FrameOf
  <2>4. d \in [0 .. Last -> Cells] /\ \A a \in Frame(c) .. Place(c) :
            d[a] = IF a = Place(c) THEN ch ELSE vga[a]
    <3>1. [vga EXCEPT ![Place(c)] = ch] \in [0 .. Last -> Cells]
      BY <1>1, <1>4, <1>8
    <3>2. Video(d)
      BY <2>2, <3>1, KeptVideo
    <3>3. \A a \in Frame(c) .. Place(c) : a \in 0 .. Last /\ a < VIDEO_WORDS
      BY <1>7, <1>8, <2>1, <2>3
    <3>4. \A a \in 0 .. Last : a < VIDEO_WORDS => d[a] = IF a = Place(c) THEN ch ELSE vga[a]
      BY <1>4, <1>8, <2>2 DEF Kept
    <3> QED BY <3>2, <3>3, <3>4 DEF Video
  <2> HIDE DEF d
  <2>5. CASE ~Scrolls(c, ch)
    <3>1. up = 0 /\ vga' = d
      BY <1>3, <2>5 DEF d
    <3> QED BY <1>7, <2>3, <2>4, <3>1
  <2>6. CASE Scrolls(c, ch)
    <3>1. up = COLS /\ vga' = ScrolledUp(d, c) /\ x[c] = COLS - 1
      BY <1>3, <1>5, <2>6 DEF d
    <3> SUFFICES ASSUME NEW a \in Frame(c) .. Place(c), a - COLS >= Frame(c)
                 PROVE  vga'[a - COLS] = d[a]
      BY <2>4, <3>1
    <3>2. /\ a - COLS \in 0 .. Last /\ a - COLS < VIDEO_WORDS
          /\ a - COLS \in FrameOf(c) /\ a - COLS \notin LastRow(c)
      BY <1>7, <2>1, <2>3 DEF FrameOf, LastRow
    <3>3. a - COLS \in Copied(c) /\ (a - COLS) + COLS = a
      BY <1>7, <2>3, <3>2 DEF Copied
    <3> DEFINE n == [b \in DOMAIN d |-> IF b \in Copied(c) THEN d[b + COLS]
                                        ELSE IF b \in Cleared(c) THEN Blank ELSE d[b]]
    <3>4. n[a - COLS] = d[a] /\ DOMAIN n = 0 .. Last
      BY <2>4, <3>2, <3>3
    <3>5. vga' = Kept(n)
      BY <3>1 DEF ScrolledUp
    <3> HIDE DEF n
    <3> QED BY <3>2, <3>4, <3>5 DEF Kept
  <2> QED BY <2>5, <2>6
<1> QED BY <1>9, <1>10

\* A backspace behind column 0 clears the cell before the cursor.
LEMMA CharacterErased ==
    ASSUME ScreenInv, NEW c \in Consoles, console_write(c, Backspace), x[c] > 0
    PROVE  /\ ~Scrolls(c, Backspace)
           /\ Place(c)' = Place(c) - 1
           /\ \A a \in Frame(c) .. Place(c) - 2 : vga'[a] = vga[a]
<1>1. Backspace \notin {Nul, Esc, Tab, Return, Enter} \cup Printable
  BY DEF Printable, Nul, Esc, Tab, Return, Enter, Backspace, Prompt
<1>2. Column(c, Backspace) = x[c] - 1
  BY <1>1 DEF Column
<1>3. /\ x \in [Consoles -> 0 .. COLS - 1] /\ y \in [Consoles -> 0 .. ROWS - 1]
      /\ x[c] \in 0 .. COLS - 1 /\ y[c] \in 0 .. ROWS - 1 /\ COLS \in Nat
      /\ vga \in [0 .. Last -> Cells] /\ \A a \in 0 .. Last : a >= VIDEO_WORDS => vga[a] = Rom
  BY DEF ScreenInv, Video
<1>4. ~Wraps(Column(c, Backspace)) /\ ~NewLine(c, Backspace) /\ ~Scrolls(c, Backspace)
  BY <1>1, <1>2, <1>3 DEF Wraps, NewLine, Scrolls
<1>5. /\ vga' = Kept([vga EXCEPT ![Place(c) - 1] = Blank])
      /\ x' = [x EXCEPT ![c] = x[c] - 1] /\ y' = [y EXCEPT ![c] = @]
  BY <1>1, <1>2, <1>4 DEF console_write, Drawn
<1>6. Place(c)' = Place(c) - 1
  <2>1. Place(c)' = Frame(c) + y[c] * COLS + (x[c] - 1) /\ Place(c) = Frame(c) + y[c] * COLS + x[c]
    BY <1>3, <1>5 DEF Place, Frame
  <2>2. Frame(c) \in Nat /\ y[c] * COLS \in Nat
    <3>1. y[c] \in Nat
      BY <1>3
    <3> QED BY <1>3, <3>1, FrameFacts
  <2> DEFINE row == y[c] * COLS
  <2> HIDE DEF row
  <2> QED BY <1>3, <2>1, <2>2 DEF row
<1>7. \A a \in Frame(c) .. Place(c) - 2 : vga'[a] = vga[a]
  <2>1. Place(c) \in 0 .. Last /\ Frame(c) \in Nat /\ Last \in Nat
    BY <1>3, PlaceFacts, FrameFacts
  <2>2. ASSUME NEW a \in Frame(c) .. Place(c) - 2
        PROVE  vga'[a] = vga[a]
    <3>1. a \in 0 .. Last /\ a # Place(c) - 1
      BY <2>1
    <3> QED BY <1>3, <1>5, <3>1 DEF Kept
  <2> QED BY <2>2
<1> QED BY <1>4, <1>6, <1>7

\* A console that a step leaves alone keeps its echo.
LEMMA EchoKept ==
    ASSUME EchoInv, NEW c \in Consoles, Editing(c)', ~odd'[c],
           UNCHANGED <<x[c], y[c], phase[c], eax[c], str[c], line[c], start[c], odd[c]>>,
           \A a \in FrameOf(c) : vga'[a] = vga[a]
    PROVE  Echoes(c)'
<1>1. Echoes(c)
  BY DEF EchoInv, Editing
<1>2. /\ Place(c)' = Place(c) /\ First(c)' = First(c) /\ Frame(c)' = Frame(c)
      /\ Pointer(c)' = Pointer(c) /\ Text(c)' = Text(c) /\ InVideo(c)' = InVideo(c)
  BY DEF Place, First, Frame, Pointer, Text, InVideo
<1>3. Frame(c) .. Place(c) - 1 \subseteq FrameOf(c)
  <2>1. Place(c) \in FrameOf(c) /\ Frame(c) \in Nat /\ ROWS * COLS \in Nat
    BY PlaceFacts, FrameFacts DEF EchoInv, ScreenInv
  <2> QED BY <2>1 DEF FrameOf
<1> QED BY <1>1, <1>2, <1>3 DEF Echoes

\* A key, whatever its character.
LEMMA KeyEchoed ==
    ASSUME EchoInv, NEW ch \in Printable \cup {Nul, Esc, Backspace, Tab, Enter},
           process_key(ch), UNCHANGED current_console, LineInv', ScreenInv'
    PROVE  EchoInv'
<1>1. PICK c \in Consoles : c = current_console /\ c = current_console'
  BY DEF EchoInv, LineInv
<1>4. ch \in Chars
  BY DEF Chars
<1>2. CASE ~Waiting \/ ~Accepted(ch)
  <2>1. UNCHANGED <<x, y, vga, phase, eax, str, line, start, odd>>
    BY <1>2 DEF process_key, userVars, scrVars, histVars
  <2>2. ASSUME NEW d \in Consoles, Editing(d)', ~odd'[d]
        PROVE  Echoes(d)'
    BY <2>1, <2>2, EchoKept
  <2> QED BY <2>1, <2>2 DEF EchoInv
<1>3. CASE Waiting /\ Accepted(ch)
  <2> DEFINE e == Echoed(ch)
  <2>1. /\ phase[c] = "getch" /\ UNCHANGED <<str, line>>
        /\ console_write(c, e)
        /\ IF e = Nul
           THEN UNCHANGED <<phase, eax, start, odd>>
           ELSE /\ phase' = [phase EXCEPT ![c] = "gets"]
                /\ eax' = [eax EXCEPT ![c] = ch]
                /\ odd' = [odd EXCEPT ![c] = @ \/ OutOfStep(ch)]
                /\ start' = StartAfter(c, ch)
    BY <1>1, <1>3 DEF process_key, Waiting
  <2>2. /\ phase \in [Consoles -> {"prompt", "getch", "gets", "exec"}] /\ eax \in [Consoles -> Chars]
        /\ str \in [Consoles -> Int] /\ line \in [Consoles -> Seq(Chars)]
        /\ start \in [Consoles -> Int] /\ odd \in [Consoles -> BOOLEAN]
        /\ x \in [Consoles -> 0 .. COLS - 1] /\ y \in [Consoles -> 0 .. ROWS - 1]
        /\ Len(line[c]) = IF str[c] > 0 THEN str[c] ELSE 0
    BY <1>1 DEF EchoInv, LineInv, ScreenInv
  <2>3. CASE e = Nul
    <3>1. UNCHANGED <<x, y, vga, phase, eax, str, line, start, odd>>
      BY <2>1, <2>3 DEF console_write
    <3>2. ASSUME NEW d \in Consoles, Editing(d)', ~odd'[d]
          PROVE  Echoes(d)'
      BY <3>1, <3>2, EchoKept
    <3> QED BY <3>1, <3>2 DEF EchoInv
  <2>4. CASE e # Nul
    <3>1. e = ch /\ ch # Nul
      BY <2>4 DEF Echoed
    <3>2. /\ \A a \in 0 .. Last : a \notin FrameOf(c) => vga'[a] = vga[a]
          /\ \A d \in Consoles : d # c => x'[d] = x[d] /\ y'[d] = y[d]
      <4>1. UNCHANGED <<current_console, frame_buffer_addr, output_to>>
        BY <1>3 DEF process_key
      <4>2. \A a \in 0 .. Last : a \notin FrameOf(c) => vga'[a] = vga[a]
        BY <1>1, <1>4, <2>1, <3>1, <4>1, WriteSound DEF EchoInv, ScreenInv
      <4>3. \A d \in Consoles : d # c => x'[d] = x[d] /\ y'[d] = y[d]
        BY <2>1, <2>2 DEF console_write
      <4> QED BY <4>2, <4>3
    <3>3. StartAfter(c, ch) = [start EXCEPT ![c] = IF odd'[c] THEN 0
                                  ELSE IF Scrolls(c, ch) THEN start[c] - COLS ELSE start[c]]
      BY DEF StartAfter
    <3>4. start' \in [Consoles -> Int] /\ odd' \in [Consoles -> BOOLEAN]
      <4>1. start' \in [Consoles -> Int]
        BY <1>1, <2>1, <2>2, <2>4, <3>3
      <4>2. OutOfStep(ch) \in BOOLEAN
        BY DEF OutOfStep
      <4>3. odd' \in [Consoles -> BOOLEAN]
        BY <2>1, <2>2, <2>4, <4>2
      <4> QED BY <4>1, <4>3
    <3>5. \A d \in Consoles : d # c =>
              UNCHANGED <<x[d], y[d], phase[d], eax[d], str[d], line[d], start[d], odd[d]>>
      BY <2>1, <2>2, <2>4, <3>2, <3>3
    <3>6. ASSUME NEW d \in Consoles, d # c, Editing(d)', ~odd'[d]
          PROVE  Echoes(d)'
      <4>1. \A a \in FrameOf(d) : vga'[a] = vga[a]
        BY <1>1, <3>2, <3>6, FramesApart
      <4> QED BY <3>5, <3>6, <4>1, EchoKept
    <3>7. ASSUME Editing(c)', ~odd'[c]
          PROVE  Echoes(c)'
      <4>1. phase'[c] = "gets" /\ eax'[c] = ch /\ str'[c] = str[c] /\ line'[c] = line[c]
        BY <1>1, <1>4, <2>1, <2>2, <2>4
      <4>2. ~odd[c] /\ ~OutOfStep(ch)
        BY <1>1, <2>1, <2>2, <2>4, <3>7
      <4>3. ch # Enter
        <5>1. phase'[c] # "getch"
          BY <4>1
        <5> QED BY <3>7, <4>1, <5>1 DEF Editing
      <4>4. ch \in Printable \/ ch = Backspace
        BY <3>1, <4>2, <4>3 DEF OutOfStep
      <4>5. Echoes(c) /\ Pointer(c) = str[c] /\ Text(c) = line[c]
        BY <1>1, <2>1, <4>2 DEF EchoInv, Editing, Pointer, Text
      <4>6. start'[c] = IF Scrolls(c, ch) THEN start[c] - COLS ELSE start[c]
        BY <1>1, <2>1, <2>2, <2>4, <3>3, <3>7
      <4>7. /\ Frame(c) \in Nat /\ Place(c) \in Nat /\ start[c] \in Int /\ str[c] \in Int
            /\ COLS \in Nat /\ Place(c) = First(c) + str[c] /\ First(c) = Frame(c) + start[c]
            /\ Place(c) >= Frame(c) /\ First(c)' = Frame(c) + start'[c]
            /\ line[c] \in Seq(Chars) /\ Len(line[c]) = IF str[c] > 0 THEN str[c] ELSE 0
        <5>1. Place(c) \in FrameOf(c) /\ Frame(c) \in Nat /\ ROWS * COLS \in Nat
          BY <1>1, <2>2, PlaceFacts, FrameFacts
        <5> QED BY <1>1, <2>2, <4>5, <5>1 DEF First, Echoes, FrameOf, Frame
      <4>8. CASE ch \in Printable
        <5>1. ch # Backspace /\ ch # Enter
          BY <4>8 DEF Printable, Backspace, Enter, Prompt
        <5>2. Pointer(c)' = str[c] + 1 /\ Text(c)' = IF str[c] >= 0 THEN Append(line[c], ch) ELSE line[c]
          BY <4>1, <5>1 DEF Pointer, Text
        <5>3. PICK up \in Nat : up = IF Scrolls(c, ch) THEN COLS ELSE 0
          BY <4>7
        <5>4. /\ Place(c)' = Place(c) + 1 - up
              /\ InVideo(c) => \A a \in Frame(c) .. Place(c) : a - up >= Frame(c) =>
                    vga'[a - up] = IF a = Place(c) THEN ch ELSE vga[a]
          <6>1. console_write(c, ch) /\ ScreenInv
            BY <2>1, <3>1 DEF EchoInv
          <6> QED BY <1>1, <4>8, <5>3, <6>1, CharacterDrawn
        <5>5. First(c)' = First(c) - up
          BY <4>6, <4>7, <5>3
        <5>6. /\ Place(c)' = First(c)' + Pointer(c)' /\ First(c) \in Int
              /\ Place(c)' = Place(c) + 1 - up /\ First(c)' = First(c) - up
          <6>1. Place(c)' = Place(c) + 1 - up /\ Pointer(c)' = str[c] + 1 /\ First(c) \in Int
            BY <4>7, <5>2, <5>4
          <6>2. \A p, f, u, n \in Int : p = f + n => p + 1 - u = (f - u) + (n + 1)
            OBVIOUS
          <6>3. First(c) \in Int /\ str[c] \in Int /\ Place(c) \in Int /\ up \in Int
                /\ Place(c) = First(c) + str[c]
            BY <4>7, <6>1
          <6>4. Place(c) + 1 - up = (First(c) - up) + (str[c] + 1)
            BY <6>2, <6>3
          <6> QED BY <5>5, <6>1, <6>4
        <5>7. ASSUME InVideo(c), NEW b \in Frame(c) .. Place(c)' - 1, b >= First(c)'
              PROVE  vga'[b] = Text(c)'[b - First(c)' + 1]
          <6> DEFINE a == b + up
          <6>1. a \in Frame(c) .. Place(c) /\ a - up = b /\ a >= First(c) /\ a - up >= Frame(c)
                /\ b - First(c)' + 1 = a - First(c) + 1
            <7>1. \A p, f, u, n, l, b0 \in Int : b0 \in l .. (p + 1 - u) - 1 /\ b0 >= f - u /\ u >= 0 =>
                     /\ b0 + u \in l .. p /\ (b0 + u) - u = b0 /\ b0 + u >= f /\ (b0 + u) - u >= l
                     /\ b0 - (f - u) + 1 = (b0 + u) - f + 1
              OBVIOUS
            <7>2. b \in Frame(c) .. (Place(c) + 1 - up) - 1 /\ b >= First(c) - up /\ up >= 0
                  /\ b \in Int /\ up \in Int /\ Place(c) \in Int /\ Frame(c) \in Int /\ First(c) \in Int
              BY <4>7, <5>6, <5>7
            <7> QED BY <5>6, <7>1, <7>2
          <6> HIDE DEF a
          <6>2. vga'[b] = IF a = Place(c) THEN ch ELSE vga[a]
            BY <5>4, <5>7, <6>1
          <6>3. str[c] >= 0
            BY <4>7, <6>1
          <6>4. CASE a = Place(c)
            <7>1. a - First(c) + 1 = Len(line[c]) + 1
              BY <4>7, <6>3, <6>4
            <7> QED BY <1>4, <4>7, <5>2, <6>1, <6>2, <6>3, <6>4, <7>1
          <6>5. CASE a # Place(c)
            <7>1. a - First(c) + 1 \in 1 .. Len(line[c])
              <8>1. \A q, f, n, p \in Int : p = f + n /\ q <= p /\ q # p /\ q >= f =>
                       q - f + 1 \in 1 .. n /\ n > 0
                OBVIOUS
              <8>2. Place(c) = First(c) + str[c] /\ a <= Place(c) /\ a >= First(c)
                    /\ {a, First(c), str[c], Place(c)} \subseteq Int
                BY <4>7, <5>6, <6>1
              <8>3. a - First(c) + 1 \in 1 .. str[c] /\ str[c] > 0
                BY <6>5, <8>1, <8>2
              <8> QED BY <4>7, <8>3
            <7>2. Append(line[c], ch)[a - First(c) + 1] = line[c][a - First(c) + 1]
              BY <1>4, <4>7, <7>1
            <7>3. a \in Frame(c) .. Place(c) - 1
              <8>1. \A q, p, l \in Int : q \in l .. p /\ q # p => q \in l .. p - 1
                OBVIOUS
              <8>2. {a, Place(c), Frame(c)} \subseteq Int
                BY <4>7, <6>1
              <8> QED BY <6>1, <6>5, <8>1, <8>2
            <7>4. vga[a] = line[c][a - First(c) + 1]
              BY <4>5, <5>7, <6>1, <7>3 DEF Echoes
            <7> QED BY <5>2, <6>1, <6>2, <6>3, <6>5, <7>2, <7>4
          <6> QED BY <6>4, <6>5
        <5>8. Frame(c)' = Frame(c) /\ InVideo(c)' = InVideo(c)
          BY DEF Frame, InVideo
        <5> QED BY <5>6, <5>7, <5>8 DEF Echoes
      <4>9. CASE ch = Backspace
        <5>1. x[c] > 0
          BY <1>1, <2>2, <4>2, <4>9 DEF OutOfStep
        <5>2. /\ ~Scrolls(c, ch) /\ Place(c)' = Place(c) - 1
              /\ \A a \in Frame(c) .. Place(c) - 2 : vga'[a] = vga[a]
          BY <1>1, <2>1, <3>1, <4>9, <5>1, CharacterErased DEF EchoInv
        <5>3. Pointer(c)' = str[c] - 1
              /\ Text(c)' = IF str[c] > 0 THEN SubSeq(line[c], 1, str[c] - 1) ELSE line[c]
          BY <4>1, <4>9 DEF Pointer, Text
        <5>4. First(c)' = First(c)
          BY <4>6, <4>7, <5>2
        <5>5. Place(c)' = First(c)' + Pointer(c)'
          BY <4>7, <5>2, <5>3, <5>4
        <5>6. ASSUME InVideo(c), NEW a \in Frame(c) .. Place(c)' - 1, a >= First(c)'
              PROVE  vga'[a] = Text(c)'[a - First(c)' + 1]
          <6>1. /\ a \in Frame(c) .. Place(c) - 2 /\ a \in Frame(c) .. Place(c) - 1
                /\ a - First(c) + 1 \in 1 .. str[c] - 1 /\ str[c] > 0
            <7>1. \A p, f, n, l, b \in Int : b \in l .. (p - 1) - 1 /\ b >= f /\ p = f + n =>
                     /\ b \in l .. p - 2 /\ b \in l .. p - 1
                     /\ b - f + 1 \in 1 .. n - 1 /\ n > 0
              OBVIOUS
            <7>2. a \in Frame(c) .. (Place(c) - 1) - 1 /\ a >= First(c) /\ Place(c) = First(c) + str[c]
              BY <4>7, <5>2, <5>4, <5>6
            <7>3. {a, str[c], Place(c), Frame(c), First(c)} \subseteq Int
              BY <4>7, <5>6
            <7> QED BY <7>1, <7>2, <7>3
          <6>2. vga[a] = line[c][a - First(c) + 1]
            BY <4>5, <5>4, <5>6, <6>1 DEF Echoes
          <6> DEFINE i == a - First(c) + 1
          <6>3. SubSeq(line[c], 1, str[c] - 1)[i] = line[c][i]
            <7> HIDE DEF i
            <7>1. i \in 1 .. str[c] - 1 /\ str[c] - 1 <= Len(line[c])
              BY <4>7, <6>1 DEF i
            <7> QED BY <4>7, <7>1
          <6> QED BY <5>2, <5>3, <5>4, <6>1, <6>2, <6>3
        <5>7. Frame(c)' = Frame(c) /\ InVideo(c)' = InVideo(c)
          BY DEF Frame, InVideo
        <5> QED BY <5>5, <5>6, <5>7 DEF Echoes
      <4> QED BY <4>4, <4>8, <4>9
    <3>8. \A d \in Consoles : Editing(d)' /\ ~odd'[d] => Echoes(d)'
      BY <3>6, <3>7
    <3> QED BY <2>1, <3>4, <3>8 DEF EchoInv
  <2> QED BY <2>3, <2>4
<1> QED BY <1>2, <1>3

LEMMA EchoStep == EchoInv /\ [Next]_vars => EchoInv'
<1> SUFFICES ASSUME EchoInv, [Next]_vars
             PROVE  EchoInv'
  OBVIOUS
<1>1. /\ LineInv' /\ ScreenInv' /\ ScreenInv
      /\ phase \in [Consoles -> {"prompt", "getch", "gets", "exec"}] /\ eax \in [Consoles -> Chars]
      /\ str \in [Consoles -> Int] /\ nuls \in [Consoles -> 0 .. MAX_NULS]
      /\ \A c \in Consoles : InStep(c)
      /\ line \in [Consoles -> Seq(Chars)] /\ start \in [Consoles -> Int]
      /\ odd \in [Consoles -> BOOLEAN]
      /\ x \in [Consoles -> 0 .. COLS - 1] /\ y \in [Consoles -> 0 .. ROWS - 1]
      /\ \A c \in Consoles : Len(line[c]) = IF str[c] > 0 THEN str[c] ELSE 0
  BY LineStep, ScreenStep DEF EchoInv, LineInv, ScreenInv
<1>2. ASSUME NEW k \in Modifiers, ModifierDown(k)
      PROVE  EchoInv'
  BY <1>1, <1>2, KeyEchoed DEF ModifierDown
<1>3. CASE KeyDown
  <2>1. PICK ch \in {Letter, Enter, Backspace, Tab, Esc} : process_key(ch)
    BY <1>3 DEF KeyDown
  <2>2. ch \in Printable \cup {Nul, Esc, Backspace, Tab, Enter}
    BY DEF Printable, Letter
  <2> QED BY <1>1, <1>3, <2>1, <2>2, KeyEchoed DEF KeyDown
<1>4. CASE \/ \E k \in Modifiers : ModifierUp(k)
           \/ \E num \in Consoles : FunctionKey(num)
           \/ UNCHANGED vars
  <2>1. UNCHANGED <<x, y, vga, phase, eax, str, line, start, odd>>
    BY <1>4 DEF ModifierUp, FunctionKey, set_console, vars, scrVars, userVars, histVars
  <2>2. ASSUME NEW d \in Consoles, Editing(d)', ~odd'[d]
        PROVE  Echoes(d)'
    BY <2>1, <2>2, EchoKept
  <2> QED BY <1>1, <2>1, <2>2 DEF EchoInv
<1>5. ASSUME NEW c \in Consoles, ShowPrompt(c)
      PROVE  EchoInv'
  <2>1. /\ phase[c] = "prompt" /\ console_write(c, Prompt)
        /\ phase' = [phase EXCEPT ![c] = "getch"]
        /\ start' = [start EXCEPT ![c] = y'[c] * COLS + x'[c]]
        /\ UNCHANGED <<eax, str, line, odd, current_console, frame_buffer_addr, output_to>>
    BY <1>5 DEF ShowPrompt
  <2>2. Prompt \in Chars /\ Prompt \notin {Nul, Esc}
    BY DEF Chars, Printable, Prompt, Nul, Esc
  <2>3. str[c] = 0 /\ str'[c] = 0
    BY <1>1, <2>1 DEF InStep
  <2>4. x'[c] \in 0 .. COLS - 1 /\ y'[c] \in 0 .. ROWS - 1
    BY <1>1 DEF ScreenInv
  <2>5. y'[c] * COLS + x'[c] \in Int
    <3>1. y'[c] \in Nat /\ COLS \in Nat /\ x'[c] \in Nat
      BY <2>4
    <3>2. y'[c] * COLS \in Nat
      BY <3>1
    <3> QED BY <3>1, <3>2
  <2>6. /\ \A a \in 0 .. Last : a \notin FrameOf(c) => vga'[a] = vga[a]
        /\ \A d \in Consoles : d # c => x'[d] = x[d] /\ y'[d] = y[d]
    <3>1. \A a \in 0 .. Last : a \notin FrameOf(c) => vga'[a] = vga[a]
      BY <1>1, <2>1, <2>2, WriteSound DEF ScreenInv
    <3>2. \A d \in Consoles : d # c => x'[d] = x[d] /\ y'[d] = y[d]
      BY <1>1, <2>1, <2>2 DEF console_write
    <3> QED BY <3>1, <3>2
  <2>7. Echoes(c)'
    <3>1. phase'[c] = "getch" /\ start'[c] = y'[c] * COLS + x'[c]
      BY <1>1, <2>1
    <3>2. Pointer(c)' = 0
      BY <2>3, <3>1 DEF Pointer
    <3>3. Place(c)' = Frame(c) + y'[c] * COLS + x'[c] /\ First(c)' = Frame(c) + (y'[c] * COLS + x'[c])
      BY <3>1 DEF Place, First, Frame
    <3>4. y'[c] * COLS \in Nat /\ x'[c] \in Nat /\ Frame(c) \in Nat
      <4>1. y'[c] \in Nat /\ COLS \in Nat /\ x'[c] \in Nat
        BY <2>4
      <4> QED BY <4>1, FrameFacts
    <3>5. Place(c)' = First(c)' /\ First(c)' \in Int
      <4> DEFINE row == y'[c] * COLS
      <4> HIDE DEF row
      <4> QED BY <3>3, <3>4 DEF row
    <3>6. ASSUME NEW a \in Frame(c)' .. Place(c)' - 1
          PROVE  ~(a >= First(c)')
      <4>1. a \in Frame(c) .. First(c)' - 1 /\ a \in Int
        BY <3>4, <3>5, <3>6 DEF Frame
      <4> QED BY <3>4, <3>5, <4>1
    <3> QED BY <3>2, <3>5, <3>6 DEF Echoes
  <2>8. ASSUME NEW d \in Consoles, d # c, Editing(d)', ~odd'[d]
        PROVE  Echoes(d)'
    <3>1. \A a \in FrameOf(d) : vga'[a] = vga[a]
      BY <2>6, <2>8, FramesApart
    <3>2. UNCHANGED <<x[d], y[d], phase[d], eax[d], str[d], line[d], start[d], odd[d]>>
      BY <1>1, <2>1, <2>6, <2>8
    <3> QED BY <2>8, <3>1, <3>2, EchoKept
  <2>9. \A d \in Consoles : Editing(d)' /\ ~odd'[d] => Echoes(d)'
    BY <2>7, <2>8
  <2>10. start' \in [Consoles -> Int]
    BY <1>1, <2>1, <2>5
  <2> QED BY <1>1, <2>1, <2>9, <2>10 DEF EchoInv
<1>6. ASSUME NEW c \in Consoles, Outputs(c)
      PROVE  EchoInv'
  <2>1. /\ phase[c] = "exec" /\ phase' = [phase EXCEPT ![c] = "prompt"]
        /\ UNCHANGED <<eax, str, line, start, current_console, frame_buffer_addr>>
    BY <1>6 DEF Outputs
  <2>2. PICK d \in {output_to[c], current_console}, ch \in Output :
          /\ console_write(d, ch)
          /\ output_to' = [output_to EXCEPT ![c] = c]
          /\ odd' = [odd EXCEPT ![d] = @ \/ phase[d] \in {"getch", "gets"}]
    BY <1>6 DEF Outputs
  <2>3. d \in Consoles /\ ch \in Chars /\ output_to' \in [Consoles -> Consoles]
    <3>1. output_to \in [Consoles -> Consoles] /\ current_console \in Consoles
      BY <1>1 DEF ScreenInv
    <3> QED BY <2>2, <3>1
  <2>4. odd' \in [Consoles -> BOOLEAN]
    <3>1. (phase[d] \in {"getch", "gets"}) \in BOOLEAN
      OBVIOUS
    <3> QED BY <1>1, <2>2, <3>1
  <2>5. /\ \A a \in 0 .. Last : a \notin FrameOf(d) => vga'[a] = vga[a]
        /\ \A e \in Consoles : e # d => x'[e] = x[e] /\ y'[e] = y[e]
    <3>1. \A a \in 0 .. Last : a \notin FrameOf(d) => vga'[a] = vga[a]
      BY <1>1, <2>1, <2>2, <2>3, WriteSound
    <3>2. \A e \in Consoles : e # d => x'[e] = x[e] /\ y'[e] = y[e]
      <4>1. CASE ch \in {Nul, Esc}
        BY <2>2, <4>1 DEF console_write
      <4>2. CASE ch \notin {Nul, Esc}
        <5>1. /\ \E v : x' = [x EXCEPT ![d] = v]
              /\ \E v : y' = [y EXCEPT ![d] = v]
          BY <2>2, <4>2 DEF console_write
        <5> QED BY <1>1, <2>3, <5>1
      <4> QED BY <4>1, <4>2
    <3> QED BY <3>1, <3>2
  <2>6. ASSUME NEW e \in Consoles, Editing(e)', ~odd'[e]
        PROVE  Echoes(e)'
    <3>1. e # c /\ phase'[e] = phase[e] /\ phase[e] \in {"getch", "gets"}
      <4>1. phase'[e] \in {"getch", "gets"}
        BY <2>6 DEF Editing
      <4> QED BY <1>1, <2>1, <4>1
    <3>2. e # d
      <4>1. CASE e = d
        <5>1. odd'[d] = (odd[d] \/ phase[d] \in {"getch", "gets"})
          BY <1>1, <2>2, <2>3
        <5> QED BY <2>6, <3>1, <4>1, <5>1
      <4> QED BY <4>1
    <3>3. odd'[e] = odd[e]
      BY <1>1, <2>2, <3>2
    <3>4. \A a \in FrameOf(e) : vga'[a] = vga[a]
      BY <2>3, <2>5, <3>2, FramesApart
    <3> QED BY <2>1, <2>5, <2>6, <3>1, <3>2, <3>3, <3>4, EchoKept
  <2> QED BY <1>1, <2>1, <2>4, <2>6 DEF EchoInv
<1>7. ASSUME NEW c \in Consoles, GetsChar(c)
      PROVE  EchoInv'
  <2>1. /\ phase[c] = "gets" /\ eax[c] # Enter /\ phase' = [phase EXCEPT ![c] = "getch"]
        /\ eax' = [eax EXCEPT ![c] = Nul]
        /\ str' = [str EXCEPT ![c] = IF eax[c] = Backspace THEN @ - 1 ELSE @ + 1]
        /\ line' = [line EXCEPT ![c] =
                       IF eax[c] # Backspace THEN IF str[c] >= 0 THEN Append(@, eax[c]) ELSE @
                       ELSE IF str[c] > 0 THEN SubSeq(@, 1, str[c] - 1) ELSE @]
        /\ UNCHANGED <<x, y, vga, start, odd>>
    BY <1>7 DEF GetsChar, scrVars, histVars
  <2>2. /\ str'[c] = Pointer(c) /\ line'[c] = Text(c) /\ phase'[c] = "getch"
        /\ Pointer(c)' = Pointer(c) /\ Text(c)' = Text(c)
    BY <1>1, <2>1 DEF Pointer, Text
  <2>3. Text(c) \in Seq(Chars) /\ Len(Text(c)) = IF Pointer(c) > 0 THEN Pointer(c) ELSE 0
    <3>1. line[c] \in Seq(Chars) /\ eax[c] \in Chars /\ str[c] \in Int
          /\ Len(line[c]) = IF str[c] > 0 THEN str[c] ELSE 0
      BY <1>1
    <3>2. CASE eax[c] # Backspace
      <4>1. Text(c) = (IF str[c] >= 0 THEN Append(line[c], eax[c]) ELSE line[c])
            /\ Pointer(c) = str[c] + 1
        BY <2>1, <3>2 DEF Text, Pointer
      <4>2. Append(line[c], eax[c]) \in Seq(Chars) /\ Len(Append(line[c], eax[c])) = Len(line[c]) + 1
        BY <3>1
      <4> QED BY <3>1, <4>1, <4>2
    <3>3. CASE eax[c] = Backspace
      <4>1. Text(c) = (IF str[c] > 0 THEN SubSeq(line[c], 1, str[c] - 1) ELSE line[c])
            /\ Pointer(c) = str[c] - 1
        BY <2>1, <3>3 DEF Text, Pointer
      <4>2. ASSUME str[c] > 0
            PROVE  SubSeq(line[c], 1, str[c] - 1) \in Seq(Chars)
                   /\ Len(SubSeq(line[c], 1, str[c] - 1)) = str[c] - 1
        BY <3>1, <4>2
      <4> QED BY <3>1, <4>1, <4>2
    <3> QED BY <3>2, <3>3
  <2>4. /\ line' \in [Consoles -> Seq(Chars)]
        /\ \A d \in Consoles : Len(line'[d]) = IF str'[d] > 0 THEN str'[d] ELSE 0
    <3>1. \A d \in Consoles : d # c => line'[d] = line[d] /\ str'[d] = str[d]
      BY <1>1, <2>1
    <3>2. line' = [line EXCEPT ![c] = Text(c)]
      BY <1>1, <2>1 DEF Text
    <3>3. line' \in [Consoles -> Seq(Chars)]
      BY <1>1, <2>3, <3>2
    <3> SUFFICES ASSUME NEW d \in Consoles
                 PROVE  Len(line'[d]) = IF str'[d] > 0 THEN str'[d] ELSE 0
      BY <3>3
    <3>4. CASE d = c
      BY <2>2, <2>3, <3>4
    <3>5. CASE d # c
      <4>1. Len(line[d]) = IF str[d] > 0 THEN str[d] ELSE 0
        BY <1>1
      <4> QED BY <3>1, <3>5, <4>1
    <3> QED BY <3>4, <3>5
  <2>5. ASSUME ~odd'[c]
        PROVE  Echoes(c)'
    <3>1. Echoes(c)
      BY <2>1, <2>5 DEF EchoInv, Editing
    <3>2. Place(c)' = Place(c) /\ First(c)' = First(c) /\ Frame(c)' = Frame(c)
          /\ InVideo(c)' = InVideo(c)
      BY <2>1 DEF Place, First, Frame, InVideo
    <3> QED BY <2>1, <2>2, <3>1, <3>2 DEF Echoes
  <2>6. ASSUME NEW d \in Consoles, d # c, Editing(d)', ~odd'[d]
        PROVE  Echoes(d)'
    BY <1>1, <2>1, <2>6, EchoKept
  <2>7. \A d \in Consoles : Editing(d)' /\ ~odd'[d] => Echoes(d)'
    BY <2>5, <2>6
  <2> QED BY <1>1, <2>1, <2>4, <2>7 DEF EchoInv
<1>8. ASSUME NEW c \in Consoles, GetsEnter(c)
      PROVE  EchoInv'
  <2>1. /\ \E ph \in {"prompt", "exec"} : phase' = [phase EXCEPT ![c] = ph]
        /\ eax' = [eax EXCEPT ![c] = Nul] /\ line' = [line EXCEPT ![c] = <<>>]
        /\ str' = [str EXCEPT ![c] = 0] /\ odd' = [odd EXCEPT ![c] = FALSE]
        /\ start' = [start EXCEPT ![c] = 0] /\ UNCHANGED <<x, y, vga>>
    BY <1>8 DEF GetsEnter, scrVars
  <2>2. /\ line' \in [Consoles -> Seq(Chars)] /\ start' \in [Consoles -> Int]
        /\ odd' \in [Consoles -> BOOLEAN]
    BY <1>1, <2>1
  <2>3. \A d \in Consoles : Len(line'[d]) = IF str'[d] > 0 THEN str'[d] ELSE 0
    <3>1. line'[c] = <<>> /\ str'[c] = 0
      BY <1>1, <2>1
    <3>2. \A d \in Consoles : d # c => line'[d] = line[d] /\ str'[d] = str[d]
      BY <1>1, <2>1
    <3> SUFFICES ASSUME NEW d \in Consoles
                 PROVE  Len(line'[d]) = IF str'[d] > 0 THEN str'[d] ELSE 0
      OBVIOUS
    <3>3. CASE d = c
      BY <3>1, <3>3
    <3>4. CASE d # c
      <4>1. Len(line[d]) = IF str[d] > 0 THEN str[d] ELSE 0
        BY <1>1
      <4> QED BY <3>2, <3>4, <4>1
    <3> QED BY <3>3, <3>4
  <2>4. ASSUME NEW d \in Consoles, Editing(d)', ~odd'[d]
        PROVE  Echoes(d)'
    <3>1. phase'[d] \in {"getch", "gets"}
      BY <2>4 DEF Editing
    <3>2. d # c
      BY <1>1, <2>1, <3>1
    <3> QED BY <1>1, <2>1, <2>4, <3>2, EchoKept
  <2> QED BY <1>1, <2>2, <2>3, <2>4 DEF EchoInv
<1> QED BY <1>2, <1>3, <1>4, <1>5, <1>6, <1>7, <1>8 DEF Next

LEMMA EchoBoot == Init => EchoInv
<1> SUFFICES ASSUME Init
             PROVE  EchoInv
  OBVIOUS
<1>1. \A c \in Consoles : ~Editing(c) /\ Len(line[c]) = 0 /\ str[c] = 0
  BY DEF Init, Editing
<1>2. line \in [Consoles -> Seq(Chars)] /\ start \in [Consoles -> Int] /\ odd \in [Consoles -> BOOLEAN]
  BY DEF Init
<1> QED BY <1>1, <1>2, LineBoot, ScreenBoot DEF EchoInv

\* What stands before the cursor is what gets has stored, wherever the line
\* wrapped and scrolled, for any sizes and any typing (console.c:83-112, 157-171,
\* puzzlestd.c:56-66).
THEOREM EchoTrue == Spec => []EchoShows
<1>1. EchoInv => EchoShows
  <2> SUFFICES ASSUME EchoInv, NEW c \in Consoles, phase[c] = "getch", ~odd[c]
               PROVE  /\ Place(c) = Frame(c) + start[c] + str[c]
                      /\ \A i \in 1 .. str[c] : InVideo(c) /\ start[c] + i > 0 =>
                            vga[Frame(c) + start[c] + i - 1] = line[c][i]
    BY DEF EchoShows
  <2>1. Echoes(c) /\ Pointer(c) = str[c] /\ Text(c) = line[c]
    BY DEF EchoInv, Editing, Pointer, Text
  <2>2. Place(c) = First(c) + str[c] /\ First(c) = Frame(c) + start[c]
        /\ Frame(c) \in Nat /\ start[c] \in Int /\ str[c] \in Int
    BY <2>1, FrameFacts DEF Echoes, First, EchoInv, LineInv
  <2>3. ASSUME NEW i \in 1 .. str[c], InVideo(c), start[c] + i > 0
        PROVE  vga[Frame(c) + start[c] + i - 1] = line[c][i]
    <3> DEFINE a == Frame(c) + start[c] + i - 1
    <3>1. a \in Frame(c) .. Place(c) - 1 /\ a >= First(c) /\ a - First(c) + 1 = i
      BY <2>2, <2>3
    <3> HIDE DEF a
    <3>2. vga[a] = line[c][i]
      BY <2>1, <2>3, <3>1 DEF Echoes
    <3> QED BY <3>2 DEF a
  <2> QED BY <2>2, <2>3
<1> QED BY <1>1, EchoBoot, EchoStep, PTL DEF Spec
=============================================================================
