------------------------------- MODULE Display -------------------------------
(* The status bar with its clock, the mouse pointer and the bar's buttons   *)
(* (terminal.c, mouse.c and the screen part of lib.c).  The keyboard and    *)
(* the mouse share one data port; the mouse handler reads its three bytes   *)
(* one after the other, with interrupts off but the devices at work.        *)
EXTENDS Integers, Sequences, FiniteSets

CONSTANTS
  COLS, ROWS,      \* the screen; the status bar is its last row
  EDGE,            \* EDGE[t]: the last column of terminal t's button
  TICKS,           \* timer interrupts in a second, 100 in the code
  UNIT, TEN,       \* the highest digits of units and tens, 9 and 5
  None,            \* no time, no terminal, no key
  Rules            \* what is assumed of the user's hands, see below

Terminals == 0..2

(* hands:     no key is pressed while the mouse handler reads its bytes, or  *)
(*            while a click is on its way                                    *)
(* slow:      no movement overflows the mouse's counters                     *)
(* neighbour: terminal t's button is clicked only on terminal t + 1, which   *)
(*            the code takes for the old one; no terminal key is on its way  *)
ASSUME DisplayAssumption ==
  /\ COLS \in Nat \ {0} /\ ROWS \in Nat \ {0}
  /\ EDGE \in [Terminals -> 0..COLS - 1]
  /\ TICKS \in Nat \ {0} /\ UNIT \in Nat /\ TEN \in Nat
  /\ Rules \subseteq {"hands", "slow", "neighbour"}

VARIABLES
  ticks,           \* pit_int_num, modulo one round of the clock
  sys_time,        \* the four digits, by their index in the string
  status,          \* the digits in the status string, None before the first
  bar,             \* the digits on the screen, None if there are none
  lit,             \* the terminal whose button is coloured, None after clear
  pointer,         \* the cells in the pointer's colour
  mouse,           \* mouse_coords
  screen_num,      \* the terminal on the screen
  cursor,          \* whose cursor buf_x, buf_y, limit and line_count hold
  components,      \* whose cursor each saved record holds, None if it has been
                   \* taken since and may have moved; 3 is behind the array
  key,             \* the scan code in the keyboard's side of the port, or None
  irq1,            \* the keyboard's request is latched
  queue,           \* the bytes on the mouse's side of the port
  at,              \* what mouse_int_handler reads next
  input_packet, xm \* its first two bytes, as long as it needs them

clock == <<ticks, sys_time, status>>
screen == <<bar, lit, pointer, mouse, screen_num, cursor, components>>
port == <<key, irq1, queue>>
vars == <<clock, screen, port, at, input_packet, xm>>

Place == {0, 1, 3, 4}
Top(i) == IF i \in {1, 4} THEN UNIT ELSE TEN
Digits == {d \in [Place -> Nat] : \A i \in Place : d[i] <= Top(i)}
Seconds(d) == ((d[0] * (UNIT + 1) + d[1]) * (TEN + 1) + d[3]) * (UNIT + 1) + d[4]
ROUND == TICKS * (TEN + 1) * (UNIT + 1) * (TEN + 1) * (UNIT + 1)

Cell == [x: 0..COLS - 1, y: 0..ROWS - 1]
BAR == ROWS - 1

(* A byte of the port: what the mouse handler would take it for as a first *)
(* byte, and as a movement.                                                 *)
Byte == [sync: BOOLEAN, over: BOOLEAN, left: BOOLEAN, right: BOOLEAN, val: -1..1]
Plain(s, v) == [sync |-> s, over |-> FALSE, left |-> FALSE, right |-> FALSE, val |-> v]
NoByte == Plain(FALSE, 0)
ScanCode == {Plain(s, 1) : s \in BOOLEAN}
ASSUME NoneAssumption == None \notin ScanCode
FirstByte == [sync: {TRUE}, over: BOOLEAN, left: BOOLEAN, right: BOOLEAN, val: {0}]
Movement == {Plain(FALSE, v) : v \in -1..1}

TypeOK ==
  /\ ticks \in 0..ROUND - 1
  /\ sys_time \in Digits
  /\ status \in Digits \cup {None} /\ bar \in Digits \cup {None}
  /\ lit \in Terminals \cup {None}
  /\ mouse \in Cell /\ pointer \subseteq Cell
  /\ screen_num \in Terminals /\ cursor \in Terminals \cup {None}
  /\ components \in [0..3 -> Terminals \cup {None}]
  /\ key \in ScanCode \cup {None} /\ irq1 \in BOOLEAN
  /\ queue \in Seq(Byte) /\ Len(queue) <= 3
  /\ at \in {"idle", "status", "x", "y"}
  /\ input_packet \in Byte /\ xm \in Byte

Init ==
  /\ ticks = 0
  /\ sys_time = [i \in Place |-> 0]
  /\ status = None
  /\ bar = None
  /\ lit = None
  /\ pointer = {}
  /\ mouse = [x |-> COLS - 1, y |-> BAR]
  /\ screen_num = 0
  /\ cursor = 0
  /\ components = [t \in 0..3 |-> IF t \in {0, 3} THEN None ELSE t]
  /\ key = None /\ irq1 = FALSE
  /\ queue = <<>>
  /\ at = "idle"
  /\ input_packet = NoByte /\ xm = NoByte
-----------------------------------------------------------------------------
(* The clock: units of seconds, then tens, then minutes. *)
SecondsCarryLate(d) == d[4] = UNIT /\ d[3] = UNIT  \* slip
MinuteIsOver(d) == d[4] = UNIT /\ d[3] = TEN

get_system_time(d) ==
  LET ten == d[4] = UNIT
      min == MinuteIsOver(d)
      tenmin == min /\ d[1] = UNIT
      hour == tenmin /\ d[0] = TEN
      Step(carry, done, i) == IF done THEN 0 ELSE IF carry THEN d[i] + 1 ELSE d[i]
  IN [i \in Place |->
        CASE i = 4 -> Step(TRUE, ten, 4)
          [] i = 3 -> Step(ten, min, 3)
          [] i = 1 -> Step(min, tenmin, 1)
          [] i = 0 -> Step(tenmin, hour, 0)]

(* status_bar paints the whole last row, then the button of the terminal   *)
(* on the screen, then the pointer if it is there.                          *)
InRow(p) == {c \in p : c.y = BAR}
InText(p) == {c \in p : c.y # BAR}

StatusBar ==
  /\ bar' = status
  /\ lit' = screen_num

PointerAfterBar(p) == InText(p) \cup {c \in {mouse} : c.y = BAR}

pit_int_handler ==
  /\ at = "idle"
  /\ ticks' = (ticks + 1) % ROUND
  /\ StatusBar
  /\ pointer' = PointerAfterBar(pointer)
  /\ IF ticks' % TICKS = 0
     THEN /\ sys_time' = get_system_time(sys_time)
          /\ status' = sys_time'
     ELSE UNCHANGED <<sys_time, status>>
  /\ UNCHANGED <<mouse, screen_num, cursor, components, port, at, input_packet, xm>>
-----------------------------------------------------------------------------
(* terminal_switch: the cursor goes to the old terminal's record, the new  *)
(* one's comes from it, and the screen is cleared with bar and pointer.     *)
SwitchLosingCursor(new, old) ==  \* slip
  /\ cursor' = components[new]
  /\ components' = [components EXCEPT ![new] = None]
  /\ screen_num' = new
SwitchCursor(new, old) ==
  LET saved == [components EXCEPT ![old] = cursor]
  IN /\ components' = [saved EXCEPT ![new] = None]
     /\ cursor' = saved[new]
     /\ screen_num' = new

(* The keyboard handler.  A terminal key switches, any other key is as one *)
(* for the terminal on the screen; then bar and text are drawn again, and   *)
(* the text wipes the pointer out of its rows.  Where the new terminal's    *)
(* process goes on is not always in this handler: then nothing is redrawn.  *)
LastByte == IF at = "x" THEN input_packet ELSE xm
ReadPort == IF key # None THEN key ELSE IF queue # <<>> THEN Head(queue) ELSE LastByte
Consumed ==
  IF key # None THEN key' = None /\ UNCHANGED queue
  ELSE /\ queue' = IF queue = <<>> THEN <<>> ELSE Tail(queue)
       /\ UNCHANGED key

kbd_int_handler(t) ==
  /\ irq1 /\ at = "idle"
  /\ irq1' = FALSE
  /\ Consumed
  /\ SwitchCursor(t, screen_num)
  /\ \/ bar' = status /\ lit' = t /\ pointer' = {c \in {mouse} : c.y = BAR}
     \/ t # screen_num /\ bar' = None /\ lit' = None /\ pointer' = {}
  /\ UNCHANGED <<clock, mouse, at, input_packet, xm>>
-----------------------------------------------------------------------------
(* mouse_int_handler, up to its first read and then byte by byte. *)
MouseInterrupt ==
  /\ at = "idle" /\ ~irq1
  /\ queue # <<>>
  /\ at' = "status"
  /\ UNCHANGED <<clock, screen, port, input_packet, xm>>

FirstOfPacket(b) == b.sync /\ ~b.over

attempt_read ==
  /\ at = "status"
  /\ Consumed
  /\ IF FirstOfPacket(ReadPort)
     THEN at' = "x" /\ input_packet' = ReadPort
     ELSE at' = "idle" /\ UNCHANGED input_packet
  /\ UNCHANGED <<clock, screen, irq1, xm>>

SkipStill ==  \* slip
  /\ at = "x"
  /\ xm' = IF ReadPort.val = 0 THEN NoByte ELSE ReadPort
  /\ Consumed
  /\ at' = IF ReadPort.val = 0 THEN "idle" ELSE "y"
  /\ UNCHANGED <<clock, screen, irq1, input_packet>>
ReadX ==
  /\ at = "x"
  /\ xm' = ReadPort
  /\ Consumed
  /\ at' = "y"
  /\ UNCHANGED <<clock, screen, irq1, input_packet>>

(* The sign bit subtracts 256 from a value that is signed already, so the  *)
(* remainders by 3 and by 2 take a step to the left for two.                *)
Rem(v, n) == IF v < 0 THEN -((256 - v) % n) ELSE v % n
Clamped(v, limit) == IF v < 0 THEN 0 ELSE IF v > limit THEN limit ELSE v

move_mouse(dx, dy) ==
  [x |-> Clamped(mouse.x + Rem(dx, 3), COLS - 1),
   y |-> Clamped(mouse.y - Rem(dy, 2), ROWS - 1)]

OldCellCleared(p) == p \ {mouse}

(* The terminal whose button is under the pointer. *)
Button(c) ==
  IF c.y # BAR THEN {}
  ELSE {t \in Terminals : c.x <= EDGE[t] /\ \A u \in 0..t - 1 : c.x > EDGE[u]}

(* A left click on a button switches from the terminal that the code takes *)
(* for the old one; a right click paints and prints the text rows again.   *)
ReadY ==
  LET b == input_packet
      m == move_mouse(xm.val, ReadPort.val)
      hit == IF b.left THEN Button(m) ELSE {}
      moved == OldCellCleared(pointer) \cup {m}
  IN
  /\ at = "y"
  /\ Consumed
  /\ mouse' = m
  /\ IF hit = {} THEN UNCHANGED <<screen_num, cursor, components, bar, lit>>
     ELSE /\ \E t \in hit : SwitchCursor(t, t + 1)
          /\ bar' = None /\ lit' = None
  /\ pointer' = IF hit # {} THEN {} ELSE IF b.right THEN InRow(moved) ELSE moved
  /\ at' = "idle" /\ input_packet' = NoByte /\ xm' = NoByte
  /\ UNCHANGED <<clock, irq1>>
-----------------------------------------------------------------------------
(* Devices.  A packet of the mouse comes as a whole. *)
ClickComing == queue # <<>> /\ Head(queue).left

PressKey ==
  /\ key = None /\ ~irq1
  /\ "hands" \in Rules => at = "idle" /\ ~ClickComing
  /\ key' \in ScanCode
  /\ irq1' = TRUE
  /\ UNCHANGED <<clock, screen, queue, at, input_packet, xm>>

MovePointer ==
  /\ queue = <<>> /\ at = "idle"
  /\ \E f \in FirstByte, dx, dy \in Movement :
       /\ "slow" \in Rules => ~f.over
       /\ "neighbour" \in Rules /\ f.left =>
            /\ ~irq1
            /\ \A t \in Button(move_mouse(dx.val, dy.val)) : screen_num = t + 1
       /\ queue' = <<f, dx, dy>>
  /\ UNCHANGED <<clock, screen, key, irq1, at, input_packet, xm>>
-----------------------------------------------------------------------------
Next ==
  \/ pit_int_handler
  \/ \E t \in Terminals : kbd_int_handler(t)
  \/ PressKey \/ MovePointer
  \/ MouseInterrupt \/ attempt_read \/ ReadX \/ ReadY

Spec == Init /\ [][Next]_vars
-----------------------------------------------------------------------------
(* The bar shows the seconds since the timer was started, carried through   *)
(* tens and minutes, at most one tick late, whoever drew it last.           *)
BarShowsElapsed ==
  bar # None =>
    Seconds(bar) \in {ticks \div TICKS, ((ticks + ROUND - 1) % ROUND) \div TICKS}

(* What the screen shows is true: the bar as above, and the pointer's       *)
(* colour, which is left nowhere behind: at most its cell has it, and that  *)
(* cell is on the screen.                                                    *)
PointerOnce == mouse \in Cell /\ pointer \subseteq {mouse}
ScreenTrue == TypeOK /\ BarShowsElapsed /\ PointerOnce

(* Each terminal keeps its own cursor through keys and clicks: the live one *)
(* is that of the terminal on the screen, the others are in their records.  *)
CursorsKept ==
  /\ cursor = screen_num
  /\ \A t \in Terminals \ {screen_num} : components[t] = t

(* The mouse handler stays in step with the packets: between interrupts     *)
(* there is a whole packet on the port or none.                              *)
PacketsInStep ==
  at = "idle" => queue = <<>> \/ (Len(queue) = 3 /\ Head(queue).sync)

=============================================================================
