------------------------------ MODULE Terminal ------------------------------
(***************************************************************************)
(* Line editing: the keyboard handler (keyboard.c), the screen buffers     *)
(* (buffer.c, put_cout of lib.c) and terminal_read, terminal_write and     *)
(* terminal_switch (terminal.c).                                           *)
(*                                                                         *)
(* A key is handled with interrupts off and is one step.  Keys come        *)
(* between any two characters of an output and between any two looks of a  *)
(* waiting read; put_cout itself is one step.  Only the program of the     *)
(* terminal that is shown runs (ProcessControl).  What the C code keeps in *)
(* one array of COLS columns is a function of row and column here; row     *)
(* ROWS exists in memory and is never shown.                               *)
(***************************************************************************)
EXTENDS Integers, Sequences

CONSTANTS NTERM,        \* terminals; 3
          COLS, ROWS,   \* NUM_COLS and ROWS; 80 and 24
          MAXLINE,      \* keyboard.c: no more typing at this line_count; 127
          MAXREAD,      \* terminal_read: the length that ends a read; 127
          Chars,        \* what keys and programs put on the screen
          Texts,        \* what programs write, sequences of characters
          Blank, NL, Nul,
          Discipline    \* what users and programs are assumed to keep to

ASSUME TermAssumption == NTERM \in Nat \ {0}
ASSUME PaneAssumption == /\ COLS \in Nat /\ COLS > 1
                         /\ ROWS \in Nat /\ ROWS > 1
                         /\ MAXLINE \in Nat /\ MAXLINE >= COLS
                         /\ MAXREAD \in Nat \ {0}
ASSUME CharAssumption == /\ Blank \notin Chars /\ NL \notin Chars /\ Nul \notin Chars
                         /\ Blank # NL /\ Blank # Nul /\ NL # Nul
                         /\ Texts \subseteq Seq(Chars \cup {NL})
ASSUME DisciplineAssumption ==
  Discipline \subseteq {"short", "erase", "clear", "ahead", "idle", "look", "switch", "count", "few"}

Term == 0 .. NTERM - 1
Cell == Chars \cup {Blank, NL, Nul}
Rows == 0 .. ROWS
Columns == 0 .. COLS - 1

VARIABLES
  screens,      \* [Term -> the characters and the printed flags of its buffer]
  cursor,       \* buf_x, buf_y, limit and line_count, of the terminal shown
  components,   \* [Term -> the cursor it had when it was left]
  screen_num,
  enter_press,
  alt,
  process_buf,  \* the screen the current output goes to
  length,
  prog,         \* [Term -> what the terminal's program is doing]
  todo,         \* [Term -> what it has still to write]
  cmd_start, cmd_end,   \* [Term -> locals of its terminal_read]
  got           \* [Term -> what its last read put in the caller's buffer]

readVars == <<length, cmd_start, cmd_end, got>>
vars == <<screens, cursor, components, screen_num, enter_press, alt,
          process_buf, prog, todo, readVars>>

Cursor == [buf_x : Columns, buf_y : -1 .. ROWS - 1, limit : Int, line_count : Int]
Home == [buf_x |-> 0, buf_y |-> 0, limit |-> 0, line_count |-> 0]
Cleared == [mo |-> [y \in Rows |-> [x \in Columns |-> Blank]],
            printed |-> [y \in Rows |-> [x \in Columns |-> 0]]]

Init == /\ screens = [t \in Term |-> Cleared]
        /\ cursor = Home
        /\ components = [t \in Term |-> Home]
        /\ screen_num = 0
        /\ enter_press = 0
        /\ alt = 0
        /\ process_buf = 0
        /\ length = 0
        /\ prog = [t \in Term |-> IF t = 0 THEN "user" ELSE "none"]
        /\ todo = [t \in Term |-> <<>>]
        /\ cmd_start = [t \in Term |-> 0]
        /\ cmd_end = [t \in Term |-> 0]
        /\ got = [t \in Term |-> <<>>]

-----------------------------------------------------------------------------
(* A pane is a screen together with the cursor; the operations of buffer.c *)
(* are functions of panes.                                                 *)
Pane(t) == [mo |-> screens[t].mo, printed |-> screens[t].printed,
            buf_x |-> cursor.buf_x, buf_y |-> cursor.buf_y,
            limit |-> cursor.limit, line_count |-> cursor.line_count]

Show(t, p) ==
  /\ screens' = [screens EXCEPT ![t] = [mo |-> p.mo, printed |-> p.printed]]
  /\ cursor' = [buf_x |-> p.buf_x, buf_y |-> p.buf_y,
                limit |-> p.limit, line_count |-> p.line_count]

OnScreen(p) == p.buf_x \in Columns /\ p.buf_y \in 0 .. ROWS - 1

(* The array has no line ends: the column after the last is the next row's *)
(* first.                                                                  *)
With(p, y, x, c) ==
  IF x = COLS THEN [p EXCEPT !.mo[y + 1][0] = c] ELSE [p EXCEPT !.mo[y][x] = c]

setb(p, c) == [With(p, p.buf_y, p.buf_x, c)
                 EXCEPT !.printed[p.buf_y][p.buf_x] = 0,
                        !.buf_x = IF @ = COLS - 1 THEN 0 ELSE @ + 1]

(* The characters move up, the printed flags stay where they are.          *)
scroll_buf(p) ==
  [p EXCEPT !.mo = [y \in Rows |-> [x \in Columns |->
                      CASE y = ROWS     -> p.mo[y][x]
                        [] y = ROWS - 1 -> Blank
                        [] OTHER        -> IF p.mo[y + 1][x] = NL
                                           THEN Blank ELSE p.mo[y + 1][x]]],
            !.buf_x = 0, !.buf_y = ROWS - 1]

Down(p) == IF p.buf_y # ROWS - 1
           THEN [p EXCEPT !.buf_x = 0, !.buf_y = @ + 1]
           ELSE scroll_buf(p)

(* The end of line goes one column behind the cursor.                      *)
new_line(p) == Down(With(p, p.buf_y, p.buf_x + 1, NL))

clear_buf_line(p) == [p EXCEPT !.mo[p.buf_y] = [x \in Columns |-> Blank]]

NewLine(p) == clear_buf_line(new_line(p))

(* The flag of the cell before the cursor; the one before the buffer is    *)
(* taken to be 0.                                                          *)
PrintedBefore(p) == IF p.buf_x > 0 THEN p.printed[p.buf_y][p.buf_x - 1]
                    ELSE IF p.buf_y > 0 THEN p.printed[p.buf_y - 1][COLS - 1]
                    ELSE 0

(* At column 0 the cursor goes back to the row above; above row 0 it has   *)
(* left the screen.                                                        *)
backspace(p) ==
  IF p.line_count > 0 /\ PrintedBefore(p) = 0
  THEN IF p.buf_x > 0
       THEN [p EXCEPT !.mo[p.buf_y][p.buf_x - 1] = Blank, !.buf_x = @ - 1]
       ELSE [p EXCEPT !.mo = IF p.buf_y > 0
                             THEN [@ EXCEPT ![p.buf_y - 1][COLS - 1] = Blank] ELSE @,
                      !.buf_x = COLS - 1, !.buf_y = @ - 1]
  ELSE p

put_cout(p, c) ==
  IF c = NL
  THEN [Down(With(p, p.buf_y, p.buf_x, NL)) EXCEPT !.limit = 0, !.line_count = 0]
  ELSE [With(p, p.buf_y, p.buf_x, c)
          EXCEPT !.printed[p.buf_y][p.buf_x] = 1,
                 !.buf_x = (@ + 1) % COLS, !.limit = @ + 1, !.line_count = @ + 1]

-----------------------------------------------------------------------------
(* kbd_logic's counters.                                                   *)
Bump(p) == [p EXCEPT !.limit = @ + 1, !.line_count = @ + 1]

(* What a key that puts nothing on the line takes off the counters in      *)
(* advance: 1, or 2 for a backspace.                                       *)
TakeBack(p, n) ==
  [p EXCEPT !.limit = IF p.line_count < 0 THEN -1
                      ELSE IF @ >= 0 THEN @ - n ELSE COLS - 2,
            !.line_count = IF @ >= 0 THEN @ - n ELSE @]

OneLess(n) == IF n >= 0 THEN n - 1 ELSE n

LineFull(p) == p.line_count = MAXLINE

Wrapped(p) == IF p.limit = COLS /\ OnScreen(p)
              THEN [NewLine(p) EXCEPT !.limit = 0] ELSE p

Typed(p, c) == Wrapped(IF LineFull(p) THEN p ELSE Bump(setb(p, c)))

Backspaced(p) ==
  Wrapped(IF LineFull(p)
          THEN [backspace(p) EXCEPT !.limit = OneLess(@), !.line_count = OneLess(@)]
          ELSE Bump(TakeBack(backspace(p), 2)))

Entered(p) == LET fresh == [NewLine(p) EXCEPT !.limit = 0, !.line_count = 0]
              IN  Wrapped(IF LineFull(p) THEN fresh ELSE Bump(fresh))

Released(p) == Wrapped(IF LineFull(p) THEN p ELSE Bump(TakeBack(p, 1)))

Reset == [mo |-> Cleared.mo, printed |-> Cleared.printed,
          buf_x |-> 0, buf_y |-> 0, limit |-> 0, line_count |-> 0]

-----------------------------------------------------------------------------
(* What users and programs are assumed to do.                              *)
Shown == Pane(screen_num)
Reading(t) == prog[t] = "read"
Kept(rule, condition) == rule \in Discipline => condition

(* Lines, typed or written, end before the last column.                    *)
Short == Kept("short", cursor.limit < COLS - 1)

(* To keep a run small, nothing is typed and no terminal shown before a     *)
(* read waits for it; Enter is a rule of its own.                           *)
Awaited == Kept("idle", Reading(screen_num))
EnterAwaited == Kept("ahead", Reading(screen_num))

(* A backspace follows a typed character, and one of the line being read.  *)
Erasable == Kept("erase", /\ cursor.line_count > 0
                          /\ cursor.buf_x > 0
                          /\ PrintedBefore(Shown) = 0
                          /\ Reading(screen_num) => cursor.buf_x > cmd_start[screen_num])

(* The lines that are read never add up to exactly MAXREAD characters.     *)
NotAtLimit == Kept("count", Reading(screen_num) =>
                     length + cursor.buf_x - cmd_start[screen_num] # MAXREAD)

(* A waiting read has looked at the flags since the last key.              *)
Looked == Kept("look", Reading(screen_num) =>
                         enter_press = 0 /\ cmd_end[screen_num] = cursor.buf_x)

(* A key of the terminal shown: pane p is what kbd_logic makes of it.      *)
Key(p, enter) == /\ OnScreen(Shown)
                 /\ Looked
                 /\ Show(screen_num, p)
                 /\ enter_press' = enter
                 /\ UNCHANGED <<components, screen_num, process_buf, prog, todo, readVars>>

TypeChar(c) == Short /\ Awaited /\ Key(Typed(Shown, c), 0) /\ UNCHANGED alt

(* Alt is in the table of characters like any key, with a zero.            *)
AltPress == Short /\ Awaited /\ Key(Typed(Shown, Nul), 0) /\ alt' = 1

AltRelease == Key(Released(Shown), 0) /\ alt' = 0

(* Keys let go; also shift, control and caps lock when pressed.            *)
Release == Key(Released(Shown), 0) /\ UNCHANGED alt

Backspace == Erasable /\ Key(Backspaced(Shown), 0) /\ UNCHANGED alt

Enter == /\ EnterAwaited
         /\ NotAtLimit
         /\ Key(Entered(Shown), 1)
         /\ UNCHANGED alt

CtrlL == /\ Kept("clear", ~Reading(screen_num))
         /\ Key(Reset, 0)
         /\ UNCHANGED alt

(* Slips: the counters, or the row, stay those of the terminal left.       *)
SwitchKeeping(n, restored) ==
  /\ alt = 1
  /\ Looked /\ Awaited
  /\ Kept("switch", prog[screen_num] # "write")
  /\ components' = [components EXCEPT ![screen_num] = cursor]
  /\ cursor' = restored
  /\ screen_num' = n
  /\ enter_press' = IF prog[n] = "none" THEN enter_press ELSE 0
  /\ prog' = [prog EXCEPT ![n] = IF @ = "none" THEN "user" ELSE @]
  /\ UNCHANGED <<screens, alt, process_buf, todo, readVars>>
SwitchKeepingCounters(n) ==
  SwitchKeeping(n, [components[n] EXCEPT !.limit = cursor.limit,
                                         !.line_count = cursor.line_count])
SwitchKeepingRow(n) == SwitchKeeping(n, [components[n] EXCEPT !.buf_y = cursor.buf_y])

(* Alt with F1 to F3.  A terminal that is shown for the first time starts  *)
(* a shell; otherwise the handler that once left terminal n goes on to its *)
(* end, and so does this one if n is shown already.                        *)
Switch(n) ==
  /\ alt = 1
  /\ Looked /\ Awaited
  /\ Kept("switch", prog[screen_num] # "write")
  /\ components' = [components EXCEPT ![screen_num] = cursor]
  /\ cursor' = components'[n]
  /\ screen_num' = n
  /\ enter_press' = IF prog[n] = "none" THEN enter_press ELSE 0
  /\ prog' = [prog EXCEPT ![n] = IF @ = "none" THEN "user" ELSE @]
  /\ UNCHANGED <<screens, alt, process_buf, todo, readVars>>

-----------------------------------------------------------------------------
(* Slip: process_buf is not set.                                           *)
WriteStartAnywhere(text) ==
  /\ prog[screen_num] = "user"
  /\ prog' = [prog EXCEPT ![screen_num] = "write"]
  /\ todo' = [todo EXCEPT ![screen_num] = text]
  /\ UNCHANGED <<screens, cursor, components, screen_num, enter_press, alt,
                 process_buf, readVars>>

(* terminal_write: process_buf is set once and read for every character.   *)
WriteStart(text) ==
  /\ prog[screen_num] = "user"
  /\ prog' = [prog EXCEPT ![screen_num] = "write"]
  /\ todo' = [todo EXCEPT ![screen_num] = text]
  /\ process_buf' = screen_num
  /\ UNCHANGED <<screens, cursor, components, screen_num, enter_press, alt, readVars>>

PutCout ==
  /\ prog[screen_num] = "write"
  /\ todo[screen_num] # <<>>
  /\ Head(todo[screen_num]) = NL \/ Short
  /\ OnScreen(Shown)
  /\ Show(process_buf, put_cout(Pane(process_buf), Head(todo[screen_num])))
  /\ todo' = [todo EXCEPT ![screen_num] = Tail(@)]
  /\ UNCHANGED <<components, screen_num, enter_press, alt, process_buf, prog, readVars>>

WriteEnd ==
  /\ prog[screen_num] = "write"
  /\ todo[screen_num] = <<>>
  /\ prog' = [prog EXCEPT ![screen_num] = "user"]
  /\ UNCHANGED <<screens, cursor, components, screen_num, enter_press, alt,
                 process_buf, todo, readVars>>

(* terminal_read, which first empties the caller's buffer.  "few", the     *)
(* bound on length, keeps a run small: no read begins when more than       *)
(* MAXREAD characters have been read.                                      *)
ReadStart ==
  /\ prog[screen_num] = "user"
  /\ Kept("few", length <= MAXREAD)
  /\ prog' = [prog EXCEPT ![screen_num] = "read"]
  /\ cmd_start' = [cmd_start EXCEPT ![screen_num] = cursor.buf_x]
  /\ cmd_end' = [cmd_end EXCEPT ![screen_num] = cursor.line_count]
  /\ got' = [got EXCEPT ![screen_num] = <<>>]
  /\ UNCHANGED <<screens, cursor, components, screen_num, enter_press, alt,
                 process_buf, todo, length>>

LineEnded == length = MAXREAD \/ enter_press = 1

(* One look of the waiting loop that finds nothing.                        *)
Look ==
  /\ Reading(screen_num)
  /\ ~LineEnded
  /\ cmd_end' = [cmd_end EXCEPT ![screen_num] = cursor.buf_x]
  /\ UNCHANGED <<screens, cursor, components, screen_num, enter_press, alt,
                 process_buf, prog, todo, length, cmd_start, got>>

(* The row to copy from, and its i-th character, counted across rows.      *)
CopyRow == cursor.buf_y - (IF cursor.line_count >= COLS THEN 2 ELSE 1)
CharAt(t, i) == screens[t].mo[CopyRow + (i \div COLS)][i % COLS]

Span(t) == cmd_start[t] .. cmd_end[t] - 1

(* The copy ends at the last column to copy or before an end of line.      *)
LastCopied(t) == CHOOSE i \in Span(t) :
                   /\ i = cmd_end[t] - 1 \/ CharAt(t, i + 1) = NL
                   /\ \A j \in cmd_start[t] .. i - 1 : CharAt(t, j + 1) # NL

(* Where the '\n' for an end of line goes: index is overwritten with a row *)
(* number before it is used, so it is in place on row 0 only.              *)
StrayEnd(t) == CopyRow * COLS + LastCopied(t) - cmd_start[t] - (cursor.buf_y - 1)

Copied(t) ==
  IF Span(t) = {} THEN <<>>
  ELSE LET n == LastCopied(t) - cmd_start[t] + 1
       IN  [k \in 1 .. n |->
              IF CharAt(t, LastCopied(t) + 1) = NL /\ StrayEnd(t) = k - 1
              THEN NL ELSE CharAt(t, cmd_start[t] + k - 1)]

UpToNul(s) ==
  LET n == CHOOSE k \in 0 .. Len(s) : /\ \A i \in 1 .. k : s[i] # Nul
                                      /\ (k = Len(s) \/ s[k + 1] = Nul)
  IN  SubSeq(s, 1, n)

InBuffer(t) == \/ Span(t) = {}
               \/ CopyRow >= 0 /\ CopyRow + (cmd_end[t] \div COLS) <= ROWS

ReadDone ==
  /\ Reading(screen_num)
  /\ LineEnded
  /\ InBuffer(screen_num)
  /\ prog' = [prog EXCEPT ![screen_num] = "user"]
  /\ enter_press' = 0
  /\ length' = length + Len(Copied(screen_num))
  /\ got' = [got EXCEPT ![screen_num] = UpToNul(Copied(screen_num))]
  /\ cmd_start' = [cmd_start EXCEPT ![screen_num] = 0]
  /\ cmd_end' = [cmd_end EXCEPT ![screen_num] = 0]
  /\ UNCHANGED <<screens, cursor, components, screen_num, alt, process_buf, todo>>

Next == \/ \E c \in Chars : TypeChar(c)
        \/ AltPress \/ AltRelease \/ Release \/ Backspace \/ Enter \/ CtrlL
        \/ \E n \in Term : Switch(n)
        \/ \E text \in Texts : WriteStart(text)
        \/ PutCout \/ WriteEnd \/ ReadStart \/ Look \/ ReadDone

Spec == Init /\ [][Next]_vars
-----------------------------------------------------------------------------
(* Every variable has its type.                                            *)
TypeOK ==
  /\ screens \in [Term -> [mo : [Rows -> [Columns -> Cell]],
                           printed : [Rows -> [Columns -> 0 .. 1]]]]
  /\ cursor \in Cursor
  /\ components \in [Term -> Cursor]
  /\ screen_num \in Term
  /\ enter_press \in 0 .. 1
  /\ alt \in 0 .. 1
  /\ process_buf \in Term
  /\ length \in Nat
  /\ prog \in [Term -> {"none", "user", "write", "read"}]
  /\ todo \in [Term -> Seq(Chars \cup {NL})]
  /\ cmd_start \in [Term -> Columns]
  /\ cmd_end \in [Term -> Int]
  /\ got \in [Term -> Seq(Cell)]

(* The cursor of a terminal, wherever it is kept.                          *)
CursorOf(t) == IF t = screen_num THEN cursor ELSE components[t]

(* keyboard.c calls limit and line_count what determines "the position of  *)
(* character output on the screen".  On every terminal they agree with     *)
(* each other and with the column of the cursor, which is on the screen;   *)
(* only the key that ends a line leaves them one ahead.                    *)
CountersTrackCursor ==
  \A t \in Term : LET k == CursorOf(t) IN
    /\ k.buf_x \in Columns
    /\ k.buf_y \in 0 .. ROWS - 1
    /\ k.line_count = k.limit
    /\ k.limit \in {k.buf_x, k.buf_x + 1}

(* Whatever is typed or written goes to clean space: on every terminal the *)
(* row of the cursor is blank from the cursor on, and so are the rows      *)
(* below it.                                                               *)
AheadIsBlank ==
  \A t \in Term : LET k == CursorOf(t) IN
    \A y \in k.buf_y .. ROWS - 1, x \in Columns :
      y > k.buf_y \/ x >= k.buf_x => screens[t].mo[y][x] = Blank

(* A read returns when Enter has been pressed and not otherwise (the       *)
(* comment in terminal_read: "wait for enter to get hit").                 *)
ReadWaitsForEnter ==
  [][\A t \in Term : Reading(t) /\ ~Reading(t)' => enter_press = 1]_vars
=============================================================================
