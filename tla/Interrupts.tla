----------------------------- MODULE Interrupts -----------------------------
(* Interrupts and the real-time clock: the boot order of kernel.c, the four *)
(* interrupt handlers, the exception handlers, and the calls on the clock,  *)
(* one action for each stretch that interrupts cannot enter.  Two processes *)
(* stand for the programs of two terminals; a terminal key gives the CPU to *)
(* the other one and leaves the key's handler unfinished on the old stack.  *)
EXTENDS Pic, Cmos, Sequences

CONSTANTS
  Proc,         \* the two processes
  First,        \* the one that boots the kernel
  Users,        \* the processes that use the clock
  Freqs,        \* the frequencies programs ask for
  MaxDepth,     \* bound: handlers nested on one stack
  WIDTH,        \* interrupt_number counts modulo WIDTH, 2^32 in the code
  Rules         \* what is assumed of the surroundings, see below

(* quiet: neither a tick nor a terminal key comes between the port          *)
(*        operations of rtc_open, which runs with interrupts on.            *)
ASSUME InterruptsAssumption ==
  /\ First \in Proc /\ Users \subseteq Proc /\ Freqs \subseteq Nat
  /\ MaxDepth \in Nat \ {0} /\ WIDTH \in Nat \ {0, 1}
  /\ Rules \subseteq {"quiet"}

VARIABLES
  pic,          \* the interrupt controllers
  cmos,         \* the clock chip
  eflags_if,    \* the CPU's interrupt flag
  cur,          \* the process whose stack the CPU is on
  stack,        \* per process: its unfinished handlers, innermost last
  mode,         \* per process: what its own code is doing
  port,         \* per process: the next of PortOps
  prev,         \* per process: the register its prev was read from
  wanted,       \* per process: the rate it is about to set
  number,       \* interrupt_number
  temp,         \* per process: rtc_read's copy of it
  term2,        \* the other terminal has not been opened yet
  spent,        \* the devices that have had their turn to request, see Request
  asked,        \* history: the frequency asked for last
  ticked        \* history, per process: a tick came since rtc_read began

clock == <<port, prev, wanted, temp, asked>>
vars == <<pic, cmos, eflags_if, cur, stack, mode, clock, number, term2, spent, ticked>>

Mode == {"pic", "keyboard", "rtc", "mouse", "sti", "pit", "run", "open",
         "write", "read", "hung", "faulted", "dead"}
Frame == [irq : Devices, at : {"enter", "eoi", "iret"}]
Fatal == {"hung", "faulted", "dead"}

TypeOK ==
  /\ pic \in PicState /\ cmos \in Chip
  /\ eflags_if \in BOOLEAN /\ term2 \in BOOLEAN
  /\ cur \in Proc
  /\ stack \in [Proc -> Seq(Frame)]
  /\ mode \in [Proc -> Mode]
  /\ port \in [Proc -> 1..Len(PortOps) + 1]
  /\ prev \in [Proc -> Register]
  /\ wanted \in [Proc -> Rate] /\ asked \in LOWEST_FREQ..HIGHEST_FREQ
  /\ number \in 0..WIDTH - 1 /\ temp \in [Proc -> 0..WIDTH - 1]
  /\ spent \subseteq Devices
  /\ ticked \in [Proc -> BOOLEAN]

Init ==
  /\ pic \in {[mask |-> {}, irr |-> r, isr |-> {}] : r \in SUBSET {PIT, KEYBOARD}}
  /\ cmos \in {AtReset, [AtReset EXCEPT !.flag = TRUE]}
  /\ eflags_if = FALSE
  /\ cur = First
  /\ stack = [p \in Proc |-> <<>>]
  /\ mode = [p \in Proc |-> IF p = First THEN "pic" ELSE "run"]
  /\ port = [p \in Proc |-> 1]
  /\ prev = [p \in Proc |-> "D"]
  /\ wanted = [p \in Proc |-> INIT_RATE]
  /\ number = 0
  /\ temp = [p \in Proc |-> 0]
  /\ term2 = TRUE
  /\ asked = LOWEST_FREQ
  /\ spent = {}
  /\ ticked = [p \in Proc |-> FALSE]
-----------------------------------------------------------------------------
(* Devices.  A request is an edge: one that comes while the last is still  *)
(* latched is lost.  The CPU keeps up: neither timer nor keyboard requests  *)
(* twice while another open request waits.                                   *)
Waiting(p) == p.irr \ p.mask # {}

Request(i) ==
  /\ i \in {PIT, KEYBOARD, MOUSE}
  /\ Waiting(pic) => i \notin spent
  /\ spent' = IF i = MOUSE THEN spent ELSE spent \cup {i}
  /\ pic' = Raise(pic, i)
  /\ UNCHANGED <<cmos, eflags_if, cur, stack, mode, clock, number, term2, ticked>>

(* The clock: a read that spins on the CPU looks between two ticks.         *)
NonZero == number # 0  \* slip
Changed == number # temp[cur]

RaiseIf(p, b) == IF b THEN Raise(p, RTC_LINE) ELSE p

Period ==
  /\ cmos.runs /\ ~cmos.flag
  /\ mode[cur] = "read" => ~Changed
  /\ cmos' = [cmos EXCEPT !.flag = TRUE]
  /\ pic' = RaiseIf(pic, cmos.pie)
  /\ UNCHANGED <<eflags_if, cur, stack, mode, clock, number, term2, spent, ticked>>

(* The CPU takes an interrupt: every gate is an interrupt gate. *)
Deliver(i) ==
  /\ eflags_if /\ Deliverable(pic, i)
  /\ Len(stack[cur]) < MaxDepth
  /\ "quiet" \in Rules /\ i = RTC_LINE => mode[cur] # "open"
  /\ pic' = Acknowledge(pic, i)
  /\ stack' = [stack EXCEPT ![cur] = Append(@, [irq |-> i, at |-> "enter"])]
  /\ eflags_if' = FALSE
  /\ spent' = IF Waiting(pic') THEN spent ELSE {}
  /\ UNCHANGED <<cmos, cur, mode, clock, number, term2, ticked>>
-----------------------------------------------------------------------------
(* Handlers. *)
Top == stack[cur][Len(stack[cur])]
At(i, place) == stack[cur] # <<>> /\ Top.irq = i /\ Top.at = place
Moved(place) == [stack EXCEPT ![cur][Len(stack[cur])].at = place]
Idle == stack[cur] = <<>>

(* pit_int_handler ends with sti before it has ended the interrupt. *)
PitWork ==
  /\ At(PIT, "enter")
  /\ stack' = Moved("eoi")
  /\ eflags_if' = TRUE
  /\ UNCHANGED <<pic, cmos, cur, mode, clock, number, term2, spent, ticked>>

Eoi(i) ==
  /\ i \in {PIT, KEYBOARD} /\ At(i, "eoi")
  /\ pic' = SendEoi(pic, i)
  /\ stack' = Moved("iret")
  /\ UNCHANGED <<cmos, eflags_if, cur, mode, clock, number, term2, spent, ticked>>

rtc_int_handler ==
  /\ At(RTC_LINE, "enter")
  /\ cmos' = Discarded(cmos)
  /\ number' = (number + 1) % WIDTH
  /\ ticked' = [p \in Proc |-> mode[p] = "read"]
  /\ pic' = SendEoi(pic, RTC_LINE)
  /\ stack' = Moved("iret")
  /\ UNCHANGED <<eflags_if, cur, mode, clock, term2, spent>>

mouse_int_handler ==
  /\ At(MOUSE, "enter")
  /\ pic' = SendEoi(pic, MOUSE)
  /\ stack' = Moved("iret")
  /\ UNCHANGED <<cmos, eflags_if, cur, mode, clock, number, term2, spent, ticked>>

(* An ordinary key. *)
TypedKey ==
  /\ At(KEYBOARD, "enter")
  /\ stack' = Moved("eoi")
  /\ UNCHANGED <<pic, cmos, eflags_if, cur, mode, clock, number, term2, spent, ticked>>

(* A terminal key ends the interrupt early.  The first time the other      *)
(* terminal's shell is launched, by a system call that sets the interrupt   *)
(* flag; later context_switch resumes the other stack, in its key handler,  *)
(* and ends the timer's interrupt as well.                                   *)
ContextEoi(p) == IF term2 THEN p ELSE SendEoi(p, PIT)
NoEarlyEoi == ContextEoi(pic)  \* slip
SwitchEoi == ContextEoi(SendEoi(pic, KEYBOARD))

(* Nobody presses a terminal key while the kernel boots. *)
Booted == mode[First] \notin {"pic", "keyboard", "rtc", "mouse", "sti", "pit"}

TerminalKey(q) ==
  /\ At(KEYBOARD, "enter") /\ Booted
  /\ q # cur
  /\ term2 \/ stack[q] # <<>>
  /\ "quiet" \in Rules => mode[cur] # "open"
  /\ stack' = Moved("eoi")
  /\ pic' = SwitchEoi
  /\ cur' = q
  /\ term2' = FALSE
  /\ eflags_if' = term2
  /\ UNCHANGED <<cmos, mode, clock, number, spent, ticked>>

Iret(d) ==
  /\ Len(stack[cur]) = d /\ d > 0 /\ Top.at = "iret"
  /\ stack' = [stack EXCEPT ![cur] = SubSeq(@, 1, d - 1)]
  /\ eflags_if' = TRUE
  /\ UNCHANGED <<pic, cmos, cur, mode, clock, number, term2, spent, ticked>>
-----------------------------------------------------------------------------
(* Boot, with interrupts off until the devices are set up. *)
In(m) == Idle /\ mode[cur] = m
Enter(m) == mode' = [mode EXCEPT ![cur] = m]

BootPic ==
  /\ In("pic") /\ Enter("keyboard")
  /\ pic' = i8259_init(pic)
  /\ UNCHANGED <<cmos, eflags_if, cur, stack, clock, number, term2, spent, ticked>>

BootEnable(m, i, next) ==
  /\ In(m) /\ Enter(next)
  /\ pic' = EnableIrq(pic, i)
  /\ UNCHANGED <<cmos, eflags_if, cur, stack, clock, number, term2, spent, ticked>>

init_keyboard == BootEnable("keyboard", KEYBOARD, "rtc")
init_mouse == BootEnable("mouse", MOUSE, "sti")
init_pit == BootEnable("pit", PIT, "run")

BootSti ==
  /\ In("sti") /\ Enter("pit")
  /\ eflags_if' = TRUE
  /\ UNCHANGED <<pic, cmos, cur, stack, clock, number, term2, spent, ticked>>
-----------------------------------------------------------------------------
(* The clock driver.  init_rtc at boot and in rtc_open, and rtc_write,     *)
(* share the port operations; only rtc_write turns interrupts off.          *)
Programming(p) == mode[p] \in {"rtc", "open", "write"}
InDriver(p) == Programming(p) \/ mode[p] = "hung"

DoPort ==
  LET o == PortOps[port[cur]]
      c == CASE o.op = "select" -> Selected(cmos, o.reg)
             [] o.op = "get" -> AfterGet(cmos)
             [] o.op = "put" -> AfterPut(cmos, prev[cur], wanted[cur])
  IN
  /\ Idle /\ Programming(cur) /\ port[cur] <= Len(PortOps)
  /\ cmos' = c
  /\ pic' = RaiseIf(pic, Interrupting(c) /\ ~Interrupting(cmos))
  /\ prev' = [prev EXCEPT ![cur] = IF o.op = "get" THEN cmos.index ELSE @]
  /\ port' = [port EXCEPT ![cur] = @ + 1]
  /\ UNCHANGED <<eflags_if, cur, stack, mode, wanted, temp, asked, number, term2, spent, ticked>>

LocalsDie ==
  /\ port' = [port EXCEPT ![cur] = 1]
  /\ prev' = [prev EXCEPT ![cur] = "D"]
  /\ wanted' = [wanted EXCEPT ![cur] = INIT_RATE]

PortsDone == Idle /\ port[cur] = Len(PortOps) + 1

InitRtcDone ==
  /\ PortsDone /\ mode[cur] \in {"rtc", "open"}
  /\ number' = 0
  /\ pic' = EnableIrq(pic, RTC_LINE)
  /\ Enter(IF mode[cur] = "rtc" THEN "mouse" ELSE "run")
  /\ LocalsDie
  /\ UNCHANGED <<cmos, eflags_if, cur, stack, temp, asked, term2, spent, ticked>>

rtc_open ==
  /\ In("run") /\ Booted /\ cur \in Users
  /\ Enter("open")
  /\ asked' = LOWEST_FREQ
  /\ UNCHANGED <<pic, cmos, eflags_if, cur, stack, port, prev, wanted, temp, number, term2, spent, ticked>>

(* A frequency that is no power of two is searched for ever, with          *)
(* interrupts off; one out of range is refused.                             *)
InRange(f) == f >= LOWEST_FREQ /\ f <= HIGHEST_FREQ
IfKept == TRUE  \* slip
IfWhileWriting == FALSE

rtc_write(f) ==
  /\ In("run") /\ Booted /\ cur \in Users
  /\ InRange(f)
  /\ eflags_if' = IfWhileWriting
  /\ IF Found(f) = {} THEN Enter("hung") /\ UNCHANGED wanted
     ELSE Enter("write") /\ wanted' = [wanted EXCEPT ![cur] = RateFor(f)]
  /\ asked' = f
  /\ UNCHANGED <<pic, cmos, cur, stack, port, prev, temp, number, term2, spent, ticked>>

WriteDone ==
  /\ PortsDone /\ mode[cur] = "write"
  /\ Enter("run")
  /\ eflags_if' = TRUE
  /\ LocalsDie
  /\ UNCHANGED <<pic, cmos, cur, stack, temp, asked, number, term2, spent, ticked>>

ReadStart ==
  /\ In("run") /\ Booted /\ cur \in Users
  /\ Enter("read")
  /\ temp' = [temp EXCEPT ![cur] = number]
  /\ ticked' = [ticked EXCEPT ![cur] = FALSE]
  /\ UNCHANGED <<pic, cmos, eflags_if, cur, stack, port, prev, wanted, asked, number, term2, spent>>

ReadReturn ==
  /\ In("read") /\ Changed
  /\ Enter("run")
  /\ temp' = [temp EXCEPT ![cur] = 0]
  /\ ticked' = [ticked EXCEPT ![cur] = FALSE]
  /\ UNCHANGED <<pic, cmos, eflags_if, cur, stack, port, prev, wanted, asked, number, term2, spent>>
-----------------------------------------------------------------------------
(* Exceptions: trap gates, so interrupts stay on.  All of them mask the    *)
(* keyboard, general protection and page faults the timer as well.          *)
Fault ==
  /\ In("run") /\ Booted
  /\ Enter("faulted")
  /\ UNCHANGED <<pic, cmos, eflags_if, cur, stack, clock, number, term2, spent, ticked>>

MaskAndSpin(timer) ==
  /\ In("faulted") /\ Enter("dead")
  /\ LET p == DisableIrq(pic, KEYBOARD)
     IN pic' = IF timer THEN DisableIrq(p, PIT) ELSE p
  /\ UNCHANGED <<cmos, eflags_if, cur, stack, clock, number, term2, spent, ticked>>
-----------------------------------------------------------------------------
Handler == PitWork \/ (\E i \in Devices : Eoi(i)) \/ rtc_int_handler
           \/ mouse_int_handler \/ TypedKey \/ \E q \in Proc : TerminalKey(q)
Boot == BootPic \/ init_keyboard \/ init_mouse \/ BootSti \/ init_pit
Driver == DoPort \/ InitRtcDone \/ WriteDone
Calls == rtc_open \/ ReadStart \/ (\E f \in Freqs : rtc_write(f)) \/ Fault
Exception == \E t \in BOOLEAN : MaskAndSpin(t)

Next ==
  \/ \E i \in Devices : Request(i) \/ Deliver(i)
  \/ Period
  \/ \E d \in 1..MaxDepth : Iret(d)
  \/ Handler \/ Boot \/ Driver \/ Calls \/ ReadReturn \/ Exception

(* The CPU runs on; the clock ticks; and because handlers are short beside *)
(* the time between interrupts, a request, an interrupted frame, a program  *)
(* or a spinning read gets its turn if it could again and again.            *)
Fairness ==
  /\ WF_vars(Period)
  /\ WF_vars(Handler \/ \E d \in 1..MaxDepth : Iret(d))
  /\ SF_vars(\E i \in Devices : Deliver(i))
  /\ SF_vars(Iret(1))
  /\ SF_vars(Boot \/ Driver \/ ReadReturn \/ Exception)

Spec == Init /\ [][Next]_vars /\ Fairness
-----------------------------------------------------------------------------
(* A line, and the slave's line for it, is in service only for a handler of *)
(* the current stack that will still end it: no switch, nesting or missing  *)
(* end of interrupt leaves a line blocked.                                   *)
InServiceIsHandled ==
  \A i \in pic.isr :
    \E k \in DOMAIN stack[cur] :
      LET f == stack[cur][k]
      IN /\ f.at # "iret"
         /\ f.irq = i \/ (i = CASCADE /\ f.irq >= GREATEST_IRQ)

(* What the controllers hold, and every other variable, is sound.            *)
LinesSound == TypeOK /\ InServiceIsHandled

(* Between calls the chip is as init_rtc and rtc_write mean it to be: the   *)
(* oscillator on, the periodic interrupt on, the mode bits kept and the     *)
(* rate the one last set, whatever interrupts came in between.  The rate    *)
(* the drivers set generates twice the frequency asked for.                 *)
ClockProgrammed ==
  mode[First] \notin {"pic", "keyboard", "rtc"} /\ (\A p \in Proc : ~InDriver(p))
    => cmos.runs /\ cmos.pie /\ cmos.mode /\ Hz(cmos.rate) = 2 * asked

(* rtc_read returns only after a tick that came during the call.             *)
ReadWaitsForTick ==
  [][\A p \in Proc : mode[p] = "read" /\ mode'[p] = "run" => ticked[p]]_vars

(* After an exception the CPU never leaves the process that caused it: the  *)
(* masked keyboard makes the message final.                                  *)
FaultIsFinal ==
  [][mode[cur] = "dead" => cur' = cur /\ mode'[cur] = "dead"]_vars

(* A waiting rtc_read returns, unless its terminal is switched away.        *)
ReadReturns ==
  \A p \in Proc : mode[p] = "read" /\ cur = p ~> mode[p] # "read" \/ cur # p

(* A key press reaches its handler, unless an exception masked it.          *)
KeysServed == KEYBOARD \in pic.irr ~> KEYBOARD \notin pic.irr \/ KEYBOARD \in pic.mask
=============================================================================
