--------------------------------- MODULE Tty ---------------------------------
(***************************************************************************)
(* A terminal from the key to the line of the shell: kbd.c, console.c and  *)
(* vga.c in the kernel, sys_putch and sys_getch of sys.c, and in user mode *)
(* gets of puzzlestd.c and the main loop of psh.c, one shell per console.  *)
(*                                                                         *)
(* Interrupt and system call handlers are one action each.  User code      *)
(* between two calls touches only the shell's own line, so it belongs to   *)
(* the call that follows it; keys typed before that call find no reader.   *)
(* How processes are scheduled is Proc; a shell here just may run.         *)
(* Del restarts the machine, whatever Ctrl and Alt are (kbd.c:36): the     *)
(* behaviour ends and another one starts at Init.                          *)
(***************************************************************************)
EXTENDS Integers, Sequences, FiniteSets

CONSTANTS
    CONSOLES_COUNT,  \* virtual consoles (console.h:17)
    COLS, ROWS,      \* VGA_SCREEN_COLS and VGA_SCREEN_ROWS (vga.h:14-15)
    TAB,             \* distance of tab stops, 8 in console.c:83
    LINE_MAX,        \* the limit on inbuffer.pos, 255 in console.c:125
    VIDEO_WORDS,     \* characters of video memory; stores above it are lost
    Modifiers,       \* bound: the modifier keys the user has
    Output,          \* bound: what programs print
    MAX_NULS,        \* bound: keys without a character in a line
    MAX_KEYS         \* bound: characters typed to the shells

ASSUME TtyAssumption ==
    /\ CONSOLES_COUNT \in Nat \ {0}
    /\ COLS \in Nat \ {0} /\ ROWS \in Nat \ {0} /\ TAB \in Nat \ {0}
    /\ LINE_MAX \in Nat \ {0}
    /\ VIDEO_WORDS \in Nat
    /\ Modifiers \subseteq {"LShift", "RShift", "CTRL", "ALT"}
    /\ MAX_NULS \in Nat /\ MAX_KEYS \in Nat

Consoles == 0 .. CONSOLES_COUNT - 1

\* Characters.  Nul is what scancodes[] has for keys that are no character.
Nul == "nul"
Esc == "esc"
Backspace == "bs"
Tab == "tab"
Return == "cr"
Enter == "nl"
Prompt == ">"
Printable == {"a", "A", Prompt}
Chars == Printable \cup {Nul, Esc, Backspace, Tab, Return, Enter}
Blank == " "
Rom == "?"                           \* what is read above the video memory
Cells == Printable \cup {Blank, Rom}
ASSUME OutputAssumption == Output \subseteq Chars


VARIABLES
    kbd_state,            \* the bits CTRL, ALT and SHIFT that are set
    current_console, frame_buffer_addr,
    x, y, pos,            \* cursor and inbuffer.pos of each console
    vga, crt_cursor,      \* video memory and the cursor register of the chip
    phase, eax,           \* of each shell: where it is, the character it got
    str, line,            \* gets: its pointer, and what is stored below it
    output_to,            \* the console of the program that a shell waits for
    typed,                \* characters that shells got so far
    held, crossed,        \* history: modifiers down; a Shift went down with the other
    start, nuls, odd      \* history of a line: where its echo starts, the keys without
                          \* a character, and whether something else moved the cursor

kbdVars  == <<kbd_state, held, crossed>>
userVars == <<phase, eax, str, line, output_to, typed>>
scrVars  == <<frame_buffer_addr, x, y, vga, crt_cursor>>
histVars == <<start, nuls, odd>>
vars == <<kbdVars, userVars, scrVars, histVars, current_console, pos>>

(***************************************************************************)
(* Screen                                                                  *)
(***************************************************************************)
Frame(c) == c * ROWS * COLS
Place(c) == Frame(c) + y[c] * COLS + x[c]
FrameOf(c) == Frame(c) .. Frame(c) + ROWS * COLS - 1
Kept(m) == [a \in DOMAIN m |-> IF a < VIDEO_WORDS THEN m[a] ELSE Rom]

\* console_scroll_up on memory m: rows are copied up, the last one is cleared.
LastRow(c) == Frame(c + 1) - COLS .. Frame(c + 1) - 1
RowTooFar(c) == IF c + 1 \in Consoles THEN {a + COLS : a \in LastRow(c)} ELSE LastRow(c)  \* mutant
Cleared(c) == LastRow(c)
CopiedBytes(c) == {a \in FrameOf(c) \ LastRow(c) : 2 * (a - Frame(c)) < COLS * (ROWS - 1)}
                                                         \* mutant: bytes for words
Copied(c) == FrameOf(c) \ LastRow(c)
ScrolledUp(m, c) ==
    Kept([a \in DOMAIN m |-> IF a \in Copied(c) THEN m[a + COLS]
                             ELSE IF a \in Cleared(c) THEN Blank ELSE m[a]])

\* The switch of console_write: the cell it stores and the column it goes to.
Drawn(c, ch) ==
    IF ch \in Printable THEN Kept([vga EXCEPT ![Place(c)] = ch])
    ELSE IF ch = Backspace /\ x[c] > 0 THEN Kept([vga EXCEPT ![Place(c) - 1] = Blank])
    ELSE vga
Column(c, ch) ==
    CASE ch \in Printable       -> x[c] + 1
      [] ch = Tab               -> ((x[c] + TAB) \div TAB) * TAB
      [] ch \in {Return, Enter} -> 0
      [] ch = Backspace         -> IF x[c] > 0 THEN x[c] - 1 ELSE 0

WrapsLate(column) == column > COLS    \* mutant: > for >=
Wraps(column) == column >= COLS
NewLine(c, ch) == ch = Enter \/ Wraps(Column(c, ch))
Scrolls(c, ch) == NewLine(c, ch) /\ y[c] = ROWS - 1

\* console_write: the cell, the cursor of the console and, if the console is
\* displayed, the cursor of the chip.
console_write(c, ch) ==
    IF ch \in {Nul, Esc}
    THEN UNCHANGED <<x, y, vga, crt_cursor>>
    ELSE /\ vga' = IF Scrolls(c, ch) THEN ScrolledUp(Drawn(c, ch), c) ELSE Drawn(c, ch)
         /\ x' = [x EXCEPT ![c] = IF Wraps(Column(c, ch)) THEN 0 ELSE Column(c, ch)]
         /\ y' = [y EXCEPT ![c] = IF NewLine(c, ch) /\ ~Scrolls(c, ch) THEN @ + 1 ELSE @]
         /\ crt_cursor' = IF c = current_console
                          THEN frame_buffer_addr + y'[c] * COLS + x'[c] ELSE crt_cursor

\* set_console: the cursor register is computed from the address of the new frame.
OldFrame(num) == frame_buffer_addr      \* mutant: the cursor is placed first
CursorFrame(num) == Frame(num)
set_console(num) ==
    /\ current_console' = num
    /\ frame_buffer_addr' = Frame(num)
    /\ crt_cursor' = CursorFrame(num) + y[num] * COLS + x[num]
    /\ UNCHANGED <<x, y, vga, pos, userVars, histVars>>

(***************************************************************************)
(* Keyboard                                                                *)
(***************************************************************************)
Waiting == phase[current_console] = "getch"

\* pos is tested before the key is looked at; only the backspace passes.
Accepted(ch) == pos[current_console] < LINE_MAX \/ ch = Backspace
NextPos(ch) ==
    CASE ch = Backspace -> IF pos[current_console] > 0 THEN pos[current_console] - 1 ELSE 0
      [] ch = Enter     -> 0
      [] OTHER          -> pos[current_console] + 1
EchoedRaw(ch) == ch            \* mutant: a backspace passes at the start of the line
Echoed(ch) == IF ch = Backspace /\ pos[current_console] = 0 THEN Nul ELSE ch

\* A line that scrolls up takes the start of its echo with it.
StartAfter(c, ch) ==
    [start EXCEPT ![c] = IF odd'[c] THEN 0 ELSE IF Scrolls(c, ch) THEN @ - COLS ELSE @]

\* A backspace in column 0 takes a character from the line and none from the screen.
OutOfStep(ch) == ch \in {Esc, Tab} \/ (ch = Backspace /\ x[current_console] = 0)

\* process_key of a key below 0x3A with the character ch: the reader gets it in
\* eax, unless nobody reads or there is no character; pos counts it even then.
process_key(ch) ==
    LET c == current_console
    IN  \/ /\ ~Waiting \/ ~Accepted(ch)
           /\ UNCHANGED <<pos, userVars, scrVars, histVars>>
        \/ /\ Waiting /\ Accepted(ch)
           /\ pos' = [pos EXCEPT ![c] = NextPos(ch)]
           /\ console_write(c, Echoed(ch))
           /\ nuls' = [nuls EXCEPT ![c] = IF ch = Nul THEN @ + 1 ELSE @]
           /\ IF Echoed(ch) = Nul
              THEN UNCHANGED <<phase, eax, typed, start, odd>>
              ELSE /\ typed < MAX_KEYS /\ typed' = typed + 1
                   /\ phase' = [phase EXCEPT ![c] = "gets"]
                   /\ eax' = [eax EXCEPT ![c] = ch]
                   /\ odd' = [odd EXCEPT ![c] = @ \/ OutOfStep(ch)]
                   /\ start' = StartAfter(c, ch)
           /\ UNCHANGED <<frame_buffer_addr, str, line, output_to>>

\* kbd_process_specials: the two Shift keys share one bit, and a release
\* toggles its bit.
Shifts == {"LShift", "RShift"}
Bit(k) == IF k \in Shifts THEN "SHIFT" ELSE k
Toggled(k) == IF Bit(k) \in kbd_state THEN kbd_state \ {Bit(k)} ELSE kbd_state \cup {Bit(k)}
Pressed(k) == kbd_state \cup {Bit(k)}
Released(k) == Toggled(k)

\* A modifier goes down, or repeats while it is down; it has no character.
ModifierDown(k) ==
    /\ nuls[current_console] < MAX_NULS
    /\ kbd_state' = Pressed(k)
    /\ held' = held \cup {k}
    /\ crossed' = IF k \in Shifts THEN (held \cap Shifts) \ {k} # {} ELSE crossed
    /\ process_key(Nul)
    /\ UNCHANGED <<current_console>>

\* Release codes are above 0x80: process_key does nothing with them.  Only the
\* release of a key that is down; the code toggles the bit on any release, also
\* on one without a press (kbd.c:45, 53, 63), and those are not here.
ModifierUp(k) ==
    /\ k \in held
    /\ kbd_state' = Released(k)
    /\ held' = held \ {k}
    /\ UNCHANGED <<userVars, scrVars, histVars, crossed, current_console, pos>>

\* scancodes[] and scancodes_shift[].
Letter == IF "SHIFT" \in kbd_state THEN "A" ELSE "a"
KeyDown ==
    /\ \E ch \in {Letter, Enter, Backspace, Tab, Esc} : process_key(ch)
    /\ UNCHANGED <<kbdVars, current_console>>

\* F1 to F10: with a full line they are dropped like any key but the backspace.
FunctionKey(num) ==
    /\ pos[current_console] < LINE_MAX
    /\ set_console(num)
    /\ UNCHANGED <<kbdVars>>

(***************************************************************************)
(* The shells                                                              *)
(***************************************************************************)
\* main of psh: the prompt, and gets with its first getch.
ShowPrompt(c) ==
    /\ phase[c] = "prompt"
    /\ console_write(c, Prompt)
    /\ phase' = [phase EXCEPT ![c] = "getch"]
    /\ start' = [start EXCEPT ![c] = y'[c] * COLS + x'[c]]
    /\ UNCHANGED <<kbdVars, current_console, frame_buffer_addr, pos, eax, str, line, output_to,
                   typed, nuls, odd>>

\* gets: a character is stored or taken back, and getch is called again.  A
\* store below the buffer is not part of the line.
GetsChar(c) ==
    /\ phase[c] = "gets" /\ eax[c] # Enter
    /\ phase' = [phase EXCEPT ![c] = "getch"]
    /\ eax' = [eax EXCEPT ![c] = Nul]
    /\ str' = [str EXCEPT ![c] = IF eax[c] = Backspace THEN @ - 1 ELSE @ + 1]
    /\ line' = [line EXCEPT ![c] =
                    IF eax[c] # Backspace THEN IF str[c] >= 0 THEN Append(@, eax[c]) ELSE @
                    ELSE IF str[c] > 0 THEN SubSeq(@, 1, str[c] - 1) ELSE @]
    /\ UNCHANGED <<kbdVars, scrVars, histVars, current_console, pos, output_to, typed>>

\* The end of the line: nothing is done for an empty one; otherwise exec either
\* finds no file, or starts a program on the displayed console and waits for it.
GetsEnter(c) ==
    /\ phase[c] = "gets" /\ eax[c] = Enter
    /\ eax' = [eax EXCEPT ![c] = Nul]
    /\ \/ /\ line[c] = <<>>
          /\ phase' = [phase EXCEPT ![c] = "prompt"]
          /\ UNCHANGED output_to
       \/ /\ line[c] # <<>> \/ str[c] < 0
          /\ phase' = [phase EXCEPT ![c] = "exec"]
          /\ output_to' \in {[output_to EXCEPT ![c] = d] : d \in {c, current_console}}
    /\ line' = [line EXCEPT ![c] = <<>>]
    /\ str' = [str EXCEPT ![c] = 0]
    /\ nuls' = [nuls EXCEPT ![c] = 0]
    /\ odd' = [odd EXCEPT ![c] = FALSE]
    /\ start' = [start EXCEPT ![c] = 0]
    /\ UNCHANGED <<kbdVars, scrVars, current_console, pos, typed>>

\* The shell's message, or the program: sys_putch writes to the process'
\* console, kprintf (sys_ps) to the displayed one; the program then exits.
Outputs(c) ==
    /\ phase[c] = "exec"
    /\ phase' = [phase EXCEPT ![c] = "prompt"]
    /\ \E d \in {output_to[c], current_console}, ch \in Output :
          /\ console_write(d, ch)
          /\ output_to' = [output_to EXCEPT ![c] = c]
          /\ odd' = [odd EXCEPT ![d] = @ \/ phase[d] \in {"getch", "gets"}]
    /\ UNCHANGED <<kbdVars, current_console, frame_buffer_addr, pos, eax, str, line,
                   typed, start, nuls>>

(***************************************************************************)
(* Specification                                                           *)
(***************************************************************************)
\* console_init, and kmain has started a shell on every console.
Init ==
    /\ kbd_state = {} /\ held = {} /\ crossed = FALSE
    /\ current_console = 0 /\ frame_buffer_addr = Frame(0) /\ crt_cursor = Frame(0)
    /\ x = [c \in Consoles |-> 0] /\ y = [c \in Consoles |-> 0]
    /\ pos = [c \in Consoles |-> 0]
    /\ vga = Kept([a \in 0 .. Frame(CONSOLES_COUNT) - 1 |-> Blank])
    /\ phase = [c \in Consoles |-> "prompt"] /\ eax = [c \in Consoles |-> Nul]
    /\ str = [c \in Consoles |-> 0] /\ line = [c \in Consoles |-> <<>>]
    /\ output_to = [c \in Consoles |-> c]
    /\ typed = 0
    /\ start = [c \in Consoles |-> 0] /\ nuls = [c \in Consoles |-> 0]
    /\ odd = [c \in Consoles |-> FALSE]

Next ==
    \/ \E k \in Modifiers : ModifierDown(k) \/ ModifierUp(k)
    \/ KeyDown
    \/ \E num \in Consoles : FunctionKey(num)
    \/ \E c \in Consoles : ShowPrompt(c) \/ GetsChar(c) \/ GetsEnter(c) \/ Outputs(c)

Spec == Init /\ [][Next]_vars

(***************************************************************************)
(* Properties                                                              *)
(***************************************************************************)
\* Every variable has its type; the cursors are on the screen and pos is within
\* its limit after any sequence of characters (console.c:83, 106-112, 125).
TypeOK ==
    /\ kbd_state \subseteq {"CTRL", "ALT", "SHIFT"}
    /\ current_console \in Consoles
    /\ frame_buffer_addr \in DOMAIN vga /\ crt_cursor \in DOMAIN vga
    /\ x \in [Consoles -> 0 .. COLS - 1] /\ y \in [Consoles -> 0 .. ROWS - 1]
    /\ pos \in [Consoles -> 0 .. LINE_MAX]
    /\ vga \in [0 .. Frame(CONSOLES_COUNT) - 1 -> Cells]
    /\ phase \in [Consoles -> {"prompt", "getch", "gets", "exec"}]
    /\ eax \in [Consoles -> Chars]
    /\ str \in [Consoles -> -MAX_NULS .. LINE_MAX]
    /\ output_to \in [Consoles -> Consoles]
    /\ typed \in 0 .. MAX_KEYS
    /\ held \subseteq Modifiers /\ crossed \in BOOLEAN

\* The kernel's count and the program's pointer go in step: while gets waits,
\* pos is the length of the line plus the keys without a character typed in it.
\* So gets stores at most LINE_MAX characters, and backspaces take its pointer
\* below its buffer by no more than those keys (console.c:157-171,
\* puzzlestd.c:56-66).
PosCountsLine ==
    \A c \in Consoles :
        /\ phase[c] = "getch" => pos[c] = str[c] + nuls[c]
        /\ str[c] <= LINE_MAX

\* What the user sees is what the program gets: while gets waits, the cells
\* before the cursor hold the line, wherever it wrapped and scrolled, unless the
\* line has an Esc or a Tab, a backspace met column 0, or a program wrote there
\* (and unless the console's frame reaches above the video memory).
InVideo(c) == Frame(c + 1) <= VIDEO_WORDS
EchoShows ==
    \A c \in Consoles : phase[c] = "getch" /\ ~odd[c] =>
        /\ Place(c) = Frame(c) + start[c] + str[c]
        /\ \A i \in 1 .. str[c] :
              InVideo(c) /\ start[c] + i > 0 => vga[Frame(c) + start[c] + i - 1] = line[c][i]

\* The chip shows the frame of the current console, with the cursor where the
\* next character of that console will go (console.c:115, 198-207).
CursorShown ==
    /\ frame_buffer_addr = Frame(current_console)
    /\ crt_cursor = Place(current_console)

\* The SHIFT bit says whether a Shift key is down, except from the moment both
\* are down until one goes down alone again (kbd.c:55-63).
ShiftTrue == ~crossed => ("SHIFT" \in kbd_state <=> held \cap Shifts # {})

\* A step changes the cells of one console only, whatever the cursor, the tab
\* and the scroll do at the edges of its frame.
OneFrame ==
    \A c, d \in Consoles : c # d =>
        \/ \A a \in FrameOf(c) : vga'[a] = vga[a]
        \/ \A a \in FrameOf(d) : vga'[a] = vga[a]
OneFrameOnly == [][OneFrame]_vars
=============================================================================
