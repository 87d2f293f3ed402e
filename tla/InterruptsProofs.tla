--------------------------- MODULE InterruptsProofs ---------------------------
(* What holds of Interrupts for every number of processes, every set of     *)
(* frequencies, any depth of nested handlers and any width of the tick       *)
(* counter.  The stacks and the controllers come first, then the modes of    *)
(* the processes, then what follows for exceptions, readers and the clock.   *)
EXTENDS Interrupts, SequenceTheorems, TLAPS
-----------------------------------------------------------------------------
(* The controllers and the chip keep their types. *)

LEMMA DevicesKnown ==
  /\ PIT \in Devices /\ KEYBOARD \in Devices /\ RTC_LINE \in Devices
  /\ MOUSE \in Devices /\ Devices \subseteq Int
BY SMT DEF Devices, PIT, KEYBOARD, RTC_LINE, MOUSE

LEMMA PicOps ==
  ASSUME NEW p \in PicState, NEW i \in Devices
  PROVE  /\ i8259_init(p) \in PicState /\ Raise(p, i) \in PicState
         /\ EnableIrq(p, i) \in PicState /\ DisableIrq(p, i) \in PicState
         /\ SendEoi(p, i) \in PicState /\ Acknowledge(p, i) \in PicState
<1> DEFINE of == IF i < GREATEST_IRQ THEN {} ELSE {CASCADE}
<1>1. p.mask \subseteq Lines /\ p.irr \subseteq Devices /\ p.isr \subseteq Lines
  BY Zenon DEF PicState
<1>2. /\ Lines \ {CASCADE} \in SUBSET Lines
      /\ p.mask \ {i} \in SUBSET Lines /\ p.mask \cup {i} \in SUBSET Lines
      /\ p.irr \ {i} \in SUBSET Devices /\ p.irr \cup {i} \in SUBSET Devices
      /\ p.isr \ ({i} \cup of) \in SUBSET Lines /\ p.isr \cup {i} \cup of \in SUBSET Lines
  BY <1>1, Zenon DEF Lines
<1>3. i8259_init(p) \in PicState /\ Raise(p, i) \in PicState
  BY <1>2, Zenon DEF PicState, i8259_init, Raise
<1>4. EnableIrq(p, i) \in PicState /\ DisableIrq(p, i) \in PicState
  BY <1>2, Zenon DEF PicState, EnableIrq, DisableIrq
<1>5. SendEoi(p, i) \in PicState /\ Acknowledge(p, i) \in PicState
  BY <1>2, Zenon DEF PicState, SendEoi, Acknowledge
<1>6. QED
  BY <1>3, <1>4, <1>5

LEMMA ChipOps ==
  ASSUME NEW c \in Chip, NEW r \in Register, NEW old \in Register, NEW rate \in Rate
  PROVE  /\ Selected(c, r) \in Chip /\ AfterGet(c) \in Chip
         /\ AfterPut(c, old, rate) \in Chip
<1>1. Selected(c, r) \in Chip
  BY Zenon DEF Chip, Selected
<1>2. AfterGet(c) \in Chip
  BY Zenon DEF Chip, AfterGet, Register
<1>3. \/ AfterPut(c, old, rate) = [c EXCEPT !.rate = rate, !.runs = @ /\ old = "A"]
      \/ AfterPut(c, old, rate) = [c EXCEPT !.pie = TRUE, !.mode = @ /\ old = "B"]
      \/ AfterPut(c, old, rate) = c
  BY Zenon DEF AfterPut
<1>4. /\ [c EXCEPT !.rate = rate, !.runs = @ /\ old = "A"] \in Chip
      /\ [c EXCEPT !.pie = TRUE, !.mode = @ /\ old = "B"] \in Chip
  BY Zenon DEF Chip
<1>5. QED
  BY <1>1, <1>2, <1>3, <1>4, Zenon

(* What the three things that happen to a stack do. *)
LEMMA FrameMoved ==
  ASSUME NEW st \in [Proc -> Seq(Frame)], NEW c \in Proc, st[c] # <<>>,
         NEW place \in {"enter", "eoi", "iret"}
  PROVE  \A m : m = [st EXCEPT ![c][Len(st[c])].at = place] =>
           /\ m \in [Proc -> Seq(Frame)]
           /\ Len(m[c]) = Len(st[c])
           /\ m[c] # <<>>
           /\ m[c][Len(st[c])].irq = st[c][Len(st[c])].irq
           /\ m[c][Len(st[c])].at = place
           /\ \A k \in 1..Len(st[c]) - 1 : m[c][k] = st[c][k]
           /\ \A p \in Proc : p # c => m[p] = st[p]
<1> DEFINE n == Len(st[c])
           top == [irq |-> st[c][n].irq, at |-> place]
           s == [st[c] EXCEPT ![n] = top]
<1>1. st[c] \in Seq(Frame) /\ n \in Nat \ {0} /\ n \in 1..Len(st[c])
  BY SMT
<1>2. st[c][n] \in Frame
  BY <1>1, SMT
<1>3. [st[c][n] EXCEPT !.at = place] = top /\ top \in Frame
  BY <1>2, SMT DEF Frame
<1>4. s \in Seq(Frame) /\ Len(s) = n /\ s # <<>>
  BY <1>1, <1>3, SMT
<1>5. s[n] = top /\ \A k \in 1..n - 1 : s[k] = st[c][k]
  BY <1>1, SMT
<1>6. [st EXCEPT ![c][n].at = place] = [st EXCEPT ![c] = s]
  BY <1>3, Zenon
<1>7. [st EXCEPT ![c] = s] \in [Proc -> Seq(Frame)]
  BY <1>4, Zenon
<1>8. /\ [st EXCEPT ![c] = s][c] = s
      /\ \A p \in Proc : p # c => [st EXCEPT ![c] = s][p] = st[p]
  BY Zenon
<1>9. top.irq = st[c][n].irq /\ top.at = place
  BY SMT
<1> HIDE DEF s, top
<1>10. QED
  BY <1>4, <1>5, <1>6, <1>7, <1>8, <1>9, Zenon

LEMMA FramePushed ==
  ASSUME NEW st \in [Proc -> Seq(Frame)], NEW c \in Proc, NEW i \in Devices
  PROVE  \A m : m = [st EXCEPT ![c] = Append(@, [irq |-> i, at |-> "enter"])] =>
           /\ m \in [Proc -> Seq(Frame)]
           /\ Len(m[c]) = Len(st[c]) + 1 /\ Len(st[c]) \in Nat
           /\ m[c] # <<>>
           /\ m[c][Len(m[c])].irq = i /\ m[c][Len(m[c])].at = "enter"
           /\ \A k \in 1..Len(st[c]) : m[c][k] = st[c][k]
           /\ \A p \in Proc : p # c => m[p] = st[p]
<1> DEFINE f == [irq |-> i, at |-> "enter"]
           s == Append(st[c], f)
<1>1. f \in Frame /\ f.irq = i /\ f.at = "enter"
  BY SMT DEF Frame
<1> HIDE DEF f
<1>2. /\ s \in Seq(Frame) /\ Len(s) = Len(st[c]) + 1 /\ s[Len(st[c]) + 1] = f
      /\ \A k \in 1..Len(st[c]) : s[k] = st[c][k]
      /\ Len(st[c]) \in Nat /\ s # <<>>
  BY <1>1, SMT
<1>3. [st EXCEPT ![c] = s] \in [Proc -> Seq(Frame)]
  BY <1>2, Zenon
<1>4. /\ [st EXCEPT ![c] = s][c] = s
      /\ \A p \in Proc : p # c => [st EXCEPT ![c] = s][p] = st[p]
  BY Zenon
<1>5. [st EXCEPT ![c] = Append(@, [irq |-> i, at |-> "enter"])] = [st EXCEPT ![c] = s]
  BY Zenon DEF f
<1> HIDE DEF s
<1>6. QED
  BY <1>1, <1>2, <1>3, <1>4, <1>5, Zenon

LEMMA FramePopped ==
  ASSUME NEW s \in Seq(Frame), Len(s) > 0
  PROVE  /\ SubSeq(s, 1, Len(s) - 1) \in Seq(Frame)
         /\ Len(SubSeq(s, 1, Len(s) - 1)) = Len(s) - 1 /\ Len(s) \in Nat \ {0}
         /\ SubSeq(s, 1, Len(s) - 1) # <<>> => Len(SubSeq(s, 1, Len(s) - 1)) > 0
         /\ \A k \in 1..Len(s) - 1 : SubSeq(s, 1, Len(s) - 1)[k] = s[k]
<1> DEFINE n == Len(s)
           r == SubSeq(s, 1, n - 1)
<1>1. n \in Nat \ {0} /\ \A k \in 1..n : s[k] \in Frame
  BY SMT
<1>2. /\ r \in Seq(Frame)
      /\ Len(r) = IF 1 <= n - 1 THEN (n - 1) - 1 + 1 ELSE 0
      /\ \A k \in 1..(n - 1) - 1 + 1 : r[k] = s[1 + k - 1]
  <2>1. /\ 1 \in 1..n + 1 /\ n - 1 \in (1 - 1)..n
        /\ \A k \in 1..n - 1 : s[k] \in Frame
    BY <1>1, SMT
  <2>2. QED
    BY <1>1, <2>1, SubSeqProperties
<1>3. Len(r) = n - 1
  <2>1. \A l \in Nat \ {0} : (IF 1 <= l - 1 THEN (l - 1) - 1 + 1 ELSE 0) = l - 1
    BY SMT
  <2>2. QED
    BY <1>1, <1>2, <2>1, Zenon
<1>4. \A k \in 1..n - 1 : r[k] = s[k]
  <2>1. \A k \in 1..n - 1 : k \in 1..(n - 1) - 1 + 1 /\ 1 + k - 1 = k
    BY <1>1, SMT
  <2>2. QED
    BY <1>2, <2>1, Zenon
<1> HIDE DEF r
<1>5. r # <<>> => Len(r) > 0
  BY <1>2, SMT
<1>6. QED
  BY <1>1, <1>2, <1>3, <1>4, <1>5, Zenon DEF r

-----------------------------------------------------------------------------
(* Types. *)

LEMMA RateTypes ==
  /\ INIT_RATE \in Rate
  /\ \A f : Found(f) # {} => RateFor(f) + 1 \in Found(f) /\ RateFor(f) \in Rate
<1>1. INIT_RATE \in Rate
  BY SMT DEF INIT_RATE, Rate
<1>2. ASSUME NEW f, Found(f) # {}
      PROVE  RateFor(f) + 1 \in Found(f) /\ RateFor(f) \in Rate
  <2>1. PICK r : r \in Found(f) /\ r = (CHOOSE x \in Found(f) : TRUE)
    BY <1>2, Zenon
  <2>2. RateFor(f) = r - 1 /\ r \in 2..16
    BY <2>1, Zenon DEF RateFor, Found
  <2>3. RateFor(f) + 1 = r /\ RateFor(f) \in Rate
    BY <2>2, SMT DEF Rate
  <2>4. QED
    BY <2>1, <2>3, Zenon
<1>3. QED
  BY <1>1, <1>2, Zenon

LEMMA PortOpsKnown ==
  /\ Len(PortOps) = 8
  /\ PortOps[1] = [op |-> "select", reg |-> "A"] /\ PortOps[2] = [op |-> "get"]
  /\ PortOps[3] = [op |-> "select", reg |-> "A"] /\ PortOps[4] = [op |-> "put"]
  /\ PortOps[5] = [op |-> "select", reg |-> "B"] /\ PortOps[6] = [op |-> "get"]
  /\ PortOps[7] = [op |-> "select", reg |-> "B"] /\ PortOps[8] = [op |-> "put"]
BY SMT DEF PortOps

(* The eight steps of the drivers, by the place in PortOps. *)
LEMMA DoPortCases ==
  ASSUME TypeOK, DoPort
  PROVE  /\ port[cur] \in 1..8 /\ Programming(cur) /\ Idle
         /\ port' = [port EXCEPT ![cur] = @ + 1]
         /\ \/ port[cur] \in {1, 3} /\ cmos' = Selected(cmos, "A") /\ prev' = prev
            \/ port[cur] \in {5, 7} /\ cmos' = Selected(cmos, "B") /\ prev' = prev
            \/ /\ port[cur] \in {2, 6} /\ cmos' = AfterGet(cmos)
               /\ prev' = [prev EXCEPT ![cur] = cmos.index]
            \/ /\ port[cur] \in {4, 8} /\ cmos' = AfterPut(cmos, prev[cur], wanted[cur])
               /\ prev' = prev
<1> DEFINE o == PortOps[port[cur]]
           c == CASE o.op = "select" -> Selected(cmos, o.reg)
                  [] o.op = "get" -> AfterGet(cmos)
                  [] o.op = "put" -> AfterPut(cmos, prev[cur], wanted[cur])
<1>1. /\ Idle /\ Programming(cur) /\ port[cur] <= Len(PortOps)
      /\ cmos' = c
      /\ prev' = [prev EXCEPT ![cur] = IF o.op = "get" THEN cmos.index ELSE @]
      /\ port' = [port EXCEPT ![cur] = @ + 1]
  BY Zenon DEF DoPort
<1>2. port[cur] \in 1..8
  BY <1>1, PortOpsKnown, SMT DEF TypeOK
<1>3. \/ port[cur] = 1 \/ port[cur] = 2 \/ port[cur] = 3 \/ port[cur] = 4
      \/ port[cur] = 5 \/ port[cur] = 6 \/ port[cur] = 7 \/ port[cur] = 8
  BY <1>2, SMT
<1>4. [prev EXCEPT ![cur] = prev[cur]] = prev
  BY SMT DEF TypeOK
<1>5. CASE port[cur] \in {1, 3}
  <2>1. o.op = "select" /\ o.reg = "A"
    BY <1>5, PortOpsKnown, SMT
  <2>2. c = Selected(cmos, "A") /\ prev' = prev
    BY <1>1, <1>4, <2>1, SMT
  <2>3. QED
    BY <1>1, <1>2, <1>5, <2>2, Zenon
<1>6. CASE port[cur] \in {5, 7}
  <2>1. o.op = "select" /\ o.reg = "B"
    BY <1>6, PortOpsKnown, SMT
  <2>2. c = Selected(cmos, "B") /\ prev' = prev
    BY <1>1, <1>4, <2>1, SMT
  <2>3. QED
    BY <1>1, <1>2, <1>6, <2>2, Zenon
<1>7. CASE port[cur] \in {2, 6}
  <2>1. o.op = "get"
    BY <1>7, PortOpsKnown, SMT
  <2>2. c = AfterGet(cmos) /\ prev' = [prev EXCEPT ![cur] = cmos.index]
    BY <1>1, <2>1, SMT
  <2>3. QED
    BY <1>1, <1>2, <1>7, <2>2, Zenon
<1>8. CASE port[cur] \in {4, 8}
  <2>1. o.op = "put"
    BY <1>8, PortOpsKnown, SMT
  <2>2. c = AfterPut(cmos, prev[cur], wanted[cur]) /\ prev' = prev
    BY <1>1, <1>4, <2>1, SMT
  <2>3. QED
    BY <1>1, <1>2, <1>8, <2>2, Zenon
<1>9. QED
  BY <1>3, <1>5, <1>6, <1>7, <1>8, Zenon

LEMMA TypeInit == Init => TypeOK
<1> SUFFICES ASSUME Init PROVE TypeOK
  OBVIOUS
<1>1. pic \in PicState
  <2>1. PICK r \in SUBSET {PIT, KEYBOARD} : pic = [mask |-> {}, irr |-> r, isr |-> {}]
    BY Zenon DEF Init
  <2>2. r \in SUBSET Devices /\ {} \in SUBSET Lines
    BY DevicesKnown, Zenon
  <2>3. QED
    BY <2>1, <2>2, Zenon DEF PicState
<1>2. AtReset \in Chip
  BY SMT DEF AtReset, Chip, Register, Rate
<1>3. cmos \in Chip
  <2>1. [AtReset EXCEPT !.flag = TRUE] \in Chip
    BY <1>2, Zenon DEF Chip
  <2>2. QED
    BY <1>2, <2>1, Zenon DEF Init
<1>4. stack \in [Proc -> Seq(Frame)]
  BY SMT DEF Init
<1>5. mode \in [Proc -> Mode]
  BY Zenon DEF Init, Mode
<1>6. port \in [Proc -> 1..Len(PortOps) + 1]
  BY PortOpsKnown, SMT DEF Init
<1>7. prev \in [Proc -> Register] /\ wanted \in [Proc -> Rate]
  BY RateTypes, Zenon DEF Init, Register
<1>8. /\ asked \in LOWEST_FREQ..HIGHEST_FREQ
      /\ number \in 0..WIDTH - 1 /\ temp \in [Proc -> 0..WIDTH - 1]
  BY InterruptsAssumption, SMT DEF Init, LOWEST_FREQ, HIGHEST_FREQ
<1>9. /\ eflags_if \in BOOLEAN /\ term2 \in BOOLEAN /\ spent \subseteq Devices
      /\ ticked \in [Proc -> BOOLEAN] /\ cur \in Proc
  BY InterruptsAssumption, Zenon DEF Init
<1>10. QED
  BY <1>1, <1>3, <1>4, <1>5, <1>6, <1>7, <1>8, <1>9, Zenon DEF TypeOK

LEMMA MovedTypes ==
  ASSUME TypeOK, NEW i \in Devices, NEW here, At(i, here),
         NEW place \in {"enter", "eoi", "iret"}
  PROVE  Moved(place) \in [Proc -> Seq(Frame)]
<1>1. stack \in [Proc -> Seq(Frame)] /\ cur \in Proc /\ stack[cur] # <<>>
  BY Zenon DEF TypeOK, At
<1>2. QED
  BY <1>1, FrameMoved, Zenon DEF Moved

LEMMA EnterTypes ==
  ASSUME TypeOK, NEW m \in Mode, Enter(m)
  PROVE  mode' \in [Proc -> Mode]
BY Zenon DEF TypeOK, Enter

LEMMA TypeNext == TypeOK /\ [Next]_vars => TypeOK'
<1> SUFFICES ASSUME TypeOK, [Next]_vars PROVE TypeOK'
  OBVIOUS
<1> USE DevicesKnown
<1>0. /\ pic \in PicState /\ cmos \in Chip /\ cur \in Proc
      /\ stack \in [Proc -> Seq(Frame)] /\ mode \in [Proc -> Mode]
      /\ prev \in [Proc -> Register] /\ wanted \in [Proc -> Rate]
      /\ port \in [Proc -> 1..Len(PortOps) + 1]
      /\ number \in 0..WIDTH - 1 /\ temp \in [Proc -> 0..WIDTH - 1]
      /\ spent \subseteq Devices /\ ticked \in [Proc -> BOOLEAN]
  BY Zenon DEF TypeOK
<1>1. ASSUME NEW i \in Devices, Request(i) PROVE TypeOK'
  <2>1. pic' \in PicState
    BY <1>0, <1>1, PicOps, Zenon DEF Request
  <2>2. spent' \subseteq Devices
    BY <1>0, <1>1, Zenon DEF Request
  <2>3. QED
    BY <1>1, <2>1, <2>2, Zenon DEF Request, TypeOK, clock
<1>2. ASSUME NEW i \in Devices, Deliver(i) PROVE TypeOK'
  <2>1. pic' \in PicState
    BY <1>0, <1>2, PicOps, Zenon DEF Deliver
  <2>2. stack' \in [Proc -> Seq(Frame)]
    <3>1. stack' = [stack EXCEPT ![cur] = Append(@, [irq |-> i, at |-> "enter"])]
      BY <1>2, Zenon DEF Deliver
    <3>2. QED
      BY <1>0, <3>1, FramePushed, Zenon
  <2>3. eflags_if' \in BOOLEAN /\ spent' \subseteq Devices
    BY <1>0, <1>2, Zenon DEF Deliver
  <2>4. QED
    BY <1>2, <2>1, <2>2, <2>3, Zenon DEF Deliver, TypeOK, clock
<1>3. CASE Period
  <2>1. cmos' \in Chip
    BY <1>0, <1>3, Zenon DEF Period, Chip
  <2>2. pic' \in PicState
    BY <1>0, <1>3, PicOps, Zenon DEF Period, RaiseIf
  <2>3. QED
    BY <1>3, <2>1, <2>2, Zenon DEF Period, TypeOK, clock
<1>4. ASSUME NEW d \in 1..MaxDepth, Iret(d) PROVE TypeOK'
  <2>1. Len(stack[cur]) = d /\ d > 0 /\ Len(stack[cur]) > 0
    BY <1>4, Zenon DEF Iret
  <2>2. stack' = [stack EXCEPT ![cur] = SubSeq(@, 1, Len(stack[cur]) - 1)]
    BY <1>4, <2>1, Zenon DEF Iret
  <2>3. stack' \in [Proc -> Seq(Frame)]
    <3>1. stack[cur] \in Seq(Frame)
      BY <1>0, Zenon
    <3>2. SubSeq(stack[cur], 1, Len(stack[cur]) - 1) \in Seq(Frame)
      BY <2>1, <3>1, FramePopped, Zenon
    <3>3. QED
      BY <1>0, <2>2, <3>2, Zenon
  <2>4. QED
    BY <1>4, <2>3, Zenon DEF Iret, TypeOK, clock
<1>5. CASE Handler
  <2>1. CASE PitWork
    BY <2>1, MovedTypes, Zenon DEF PitWork, TypeOK, clock
  <2>2. ASSUME NEW i \in Devices, Eoi(i) PROVE TypeOK'
    <3>1. pic' \in PicState
      BY <1>0, <2>2, PicOps, Zenon DEF Eoi
    <3>2. QED
      BY <2>2, <3>1, MovedTypes, Zenon DEF Eoi, TypeOK, clock
  <2>3. CASE rtc_int_handler
    <3>1. pic' \in PicState
      BY <1>0, <2>3, PicOps, Zenon DEF rtc_int_handler
    <3>2. cmos' \in Chip
      <4>1. "C" \in Register
        BY Zenon DEF Register
      <4>2. PICK rate \in Rate : TRUE
        BY RateTypes, Zenon
      <4>3. Selected(cmos, "C") \in Chip
        BY <1>0, <4>1, <4>2, ChipOps, Zenon
      <4>4. AfterGet(Selected(cmos, "C")) \in Chip
        BY <4>1, <4>2, <4>3, ChipOps, Zenon
      <4>5. QED
        BY <2>3, <4>4, Zenon DEF rtc_int_handler, Discarded
    <3>3. number' \in 0..WIDTH - 1
      BY <1>0, <2>3, InterruptsAssumption, SMT DEF rtc_int_handler
    <3>4. ticked' \in [Proc -> BOOLEAN]
      BY <2>3, Zenon DEF rtc_int_handler
    <3>5. QED
      BY <2>3, <3>1, <3>2, <3>3, <3>4, MovedTypes, Zenon DEF rtc_int_handler, TypeOK, clock
  <2>4. CASE mouse_int_handler
    <3>1. pic' \in PicState
      BY <1>0, <2>4, PicOps, Zenon DEF mouse_int_handler
    <3>2. QED
      BY <2>4, <3>1, MovedTypes, Zenon DEF mouse_int_handler, TypeOK, clock
  <2>5. CASE TypedKey
    BY <2>5, MovedTypes, Zenon DEF TypedKey, TypeOK, clock
  <2>6. ASSUME NEW q \in Proc, TerminalKey(q) PROVE TypeOK'
    <3>1. pic' \in PicState
      BY <1>0, <2>6, PicOps, Zenon DEF TerminalKey, SwitchEoi, ContextEoi
    <3>2. QED
      BY <2>6, <3>1, MovedTypes, Zenon DEF TerminalKey, TypeOK, clock
  <2>7. QED
    BY <1>5, <2>1, <2>2, <2>3, <2>4, <2>5, <2>6, Zenon DEF Handler
<1>6. CASE Boot
  <2>1. pic' \in PicState
    BY <1>0, <1>6, PicOps, Zenon
       DEF Boot, BootPic, init_keyboard, init_mouse, init_pit, BootSti, BootEnable
  <2>2. mode' \in [Proc -> Mode]
    BY <1>0, <1>6, Zenon
       DEF Boot, BootPic, init_keyboard, init_mouse, init_pit, BootSti, BootEnable, Enter, Mode
  <2>3. QED
    BY <1>6, <2>1, <2>2, Zenon
       DEF Boot, BootPic, init_keyboard, init_mouse, init_pit, BootSti, BootEnable, TypeOK, clock
<1>7. CASE Driver
  <2>1. CASE DoPort
    <3>1. pic' \in PicState
      <4>1. pic' = pic \/ pic' = Raise(pic, RTC_LINE)
        BY <2>1, Zenon DEF DoPort, RaiseIf
      <4>2. QED
        BY <1>0, <4>1, PicOps, Zenon
    <3>2. cmos' \in Chip /\ prev' \in [Proc -> Register]
      <4>1. cmos.index \in Register /\ "A" \in Register /\ "B" \in Register
        BY <1>0, Zenon DEF Chip, Register
      <4>2. prev[cur] \in Register /\ wanted[cur] \in Rate
        BY <1>0, Zenon
      <4>3. /\ Selected(cmos, "A") \in Chip /\ Selected(cmos, "B") \in Chip
            /\ AfterGet(cmos) \in Chip /\ AfterPut(cmos, prev[cur], wanted[cur]) \in Chip
        BY <1>0, <4>1, <4>2, ChipOps, Zenon
      <4>4. /\ \/ cmos' = Selected(cmos, "A") \/ cmos' = Selected(cmos, "B")
               \/ cmos' = AfterGet(cmos) \/ cmos' = AfterPut(cmos, prev[cur], wanted[cur])
            /\ prev' = prev \/ prev' = [prev EXCEPT ![cur] = cmos.index]
        BY <2>1, DoPortCases, Zenon
      <4>5. QED
        BY <1>0, <4>1, <4>3, <4>4, Zenon
    <3>3. port' \in [Proc -> 1..Len(PortOps) + 1]
      <4>1. port[cur] \in 1..8 /\ port' = [port EXCEPT ![cur] = @ + 1]
        BY <2>1, DoPortCases, Zenon
      <4>2. port[cur] + 1 \in 1..Len(PortOps) + 1
        BY <4>1, PortOpsKnown, SMT
      <4>3. QED
        BY <1>0, <4>1, <4>2, Zenon
    <3>4. QED
      BY <2>1, <3>1, <3>2, <3>3, Zenon DEF DoPort, TypeOK, clock
  <2>2. CASE InitRtcDone
    <3>1. pic' \in PicState
      BY <1>0, <2>2, PicOps, Zenon DEF InitRtcDone
    <3>2. mode' \in [Proc -> Mode]
      BY <1>0, <2>2, Zenon DEF InitRtcDone, Enter, Mode
    <3>3. number' \in 0..WIDTH - 1
      BY <2>2, InterruptsAssumption, SMT DEF InitRtcDone
    <3>4. /\ port' \in [Proc -> 1..Len(PortOps) + 1]
          /\ prev' \in [Proc -> Register] /\ wanted' \in [Proc -> Rate]
      <4>1. 1 \in 1..Len(PortOps) + 1 /\ "D" \in Register
        BY PortOpsKnown, SMT DEF Register
      <4>2. QED
        BY <1>0, <2>2, <4>1, RateTypes, Zenon DEF InitRtcDone, LocalsDie
    <3>5. QED
      BY <2>2, <3>1, <3>2, <3>3, <3>4, Zenon DEF InitRtcDone, TypeOK, clock
  <2>3. CASE WriteDone
    <3>1. mode' \in [Proc -> Mode]
      BY <1>0, <2>3, Zenon DEF WriteDone, Enter, Mode
    <3>2. /\ port' \in [Proc -> 1..Len(PortOps) + 1]
          /\ prev' \in [Proc -> Register] /\ wanted' \in [Proc -> Rate]
      <4>1. 1 \in 1..Len(PortOps) + 1 /\ "D" \in Register
        BY PortOpsKnown, SMT DEF Register
      <4>2. QED
        BY <1>0, <2>3, <4>1, RateTypes, Zenon DEF WriteDone, LocalsDie
    <3>3. QED
      BY <2>3, <3>1, <3>2, Zenon DEF WriteDone, TypeOK, clock
  <2>4. QED
    BY <1>7, <2>1, <2>2, <2>3, Zenon DEF Driver
<1>8. CASE Calls \/ ReadReturn \/ Exception
  <2>1. mode' \in [Proc -> Mode]
    BY <1>0, <1>8, Zenon
       DEF Calls, rtc_open, ReadStart, rtc_write, Fault, ReadReturn, Exception, MaskAndSpin, Enter, Mode
  <2>2. CASE rtc_open
    <3>1. asked' \in LOWEST_FREQ..HIGHEST_FREQ
      BY <2>2, SMT DEF rtc_open, LOWEST_FREQ, HIGHEST_FREQ
    <3>2. QED
      BY <2>1, <2>2, <3>1, Zenon DEF rtc_open, TypeOK, clock
  <2>3. ASSUME NEW f \in Freqs, rtc_write(f) PROVE TypeOK'
    <3>1. asked' \in LOWEST_FREQ..HIGHEST_FREQ
      BY <2>3, InterruptsAssumption, SMT DEF rtc_write, InRange, LOWEST_FREQ, HIGHEST_FREQ
    <3>2. wanted' \in [Proc -> Rate]
      <4>1. wanted' = wanted
              \/ (Found(f) # {} /\ wanted' = [wanted EXCEPT ![cur] = RateFor(f)])
        BY <2>3, Zenon DEF rtc_write
      <4>2. Found(f) # {} => RateFor(f) \in Rate
        BY RateTypes, Zenon
      <4>3. QED
        BY <1>0, <4>1, <4>2, Zenon
    <3>3. QED
      BY <2>1, <2>3, <3>1, <3>2, Zenon DEF rtc_write, IfWhileWriting, TypeOK, clock
  <2>4. CASE ReadStart
    BY <1>0, <2>1, <2>4, Zenon DEF ReadStart, TypeOK, clock
  <2>5. CASE Fault
    BY <1>0, <2>1, <2>5, Zenon DEF Fault, TypeOK, clock
  <2>6. CASE ReadReturn
    <3>1. 0 \in 0..WIDTH - 1
      BY InterruptsAssumption, SMT
    <3>2. QED
      BY <1>0, <2>1, <2>6, <3>1, Zenon DEF ReadReturn, TypeOK, clock
  <2>7. CASE Exception
    <3>1. pic' \in PicState
      BY <1>0, <2>7, PicOps, Zenon DEF Exception, MaskAndSpin
    <3>2. QED
      BY <1>0, <2>1, <2>7, <3>1, Zenon DEF Exception, MaskAndSpin, TypeOK, clock
  <2>8. QED
    BY <1>8, <2>2, <2>3, <2>4, <2>5, <2>6, <2>7, Zenon DEF Calls
<1>9. CASE UNCHANGED vars
  BY <1>9, Zenon DEF vars, clock, TypeOK
<1>10. QED
  BY <1>1, <1>2, <1>3, <1>4, <1>5, <1>6, <1>7, <1>8, <1>9, Zenon DEF Next

(* Every variable keeps its type, whatever interrupts come. *)
THEOREM TypeCorrect == Spec => []TypeOK
BY TypeInit, TypeNext, PTL DEF Spec
-----------------------------------------------------------------------------
(* Lines in service.  The frames below the innermost one only have to      *)
(* return; a stack the CPU has left waits in its key's handler; what is in  *)
(* service is the innermost handler's line, and the timer's is in service   *)
(* as long as its handler is before its end of interrupt, which is why its  *)
(* early sti lets nothing in.                                               *)
Line(i) == {i} \cup IF i < GREATEST_IRQ THEN {} ELSE {CASCADE}
Upper(p) == stack[p][Len(stack[p])]

LowerReturn == \A p \in Proc : \A k \in 1..Len(stack[p]) - 1 : stack[p][k].at = "iret"
SwitchedAway ==
  \A p \in Proc : p # cur /\ stack[p] # <<>> =>
    ~term2 /\ Upper(p).irq = KEYBOARD /\ Upper(p).at = "eoi"
InService == \A i \in pic.isr : ~Idle /\ Top.at # "iret" /\ i \in Line(Top.irq)
PitFirst == ~Idle /\ Top.irq = PIT /\ Top.at # "iret" => PIT \in pic.isr
FlagOn == eflags_if => Idle \/ Top.at = "iret" \/ (Top.irq = PIT /\ Top.at = "eoi")
LineInv == LowerReturn /\ SwitchedAway /\ InService /\ PitFirst /\ FlagOn

LEMMA PicFields ==
  ASSUME NEW p \in PicState, NEW i \in Devices
  PROVE  /\ i8259_init(p).isr = p.isr
         /\ Raise(p, i).isr = p.isr /\ Raise(p, i).mask = p.mask
         /\ EnableIrq(p, i).isr = p.isr /\ EnableIrq(p, i).mask = p.mask \ {i}
         /\ DisableIrq(p, i).isr = p.isr /\ DisableIrq(p, i).mask = p.mask \cup {i}
         /\ SendEoi(p, i).isr = p.isr \ Line(i) /\ SendEoi(p, i).mask = p.mask
         /\ Acknowledge(p, i).isr = p.isr \cup Line(i)
         /\ Acknowledge(p, i).mask = p.mask
<1>1. /\ i8259_init(p).isr = p.isr
      /\ Raise(p, i).isr = p.isr /\ Raise(p, i).mask = p.mask
  BY Zenon DEF PicState, i8259_init, Raise
<1>2. /\ EnableIrq(p, i).isr = p.isr /\ EnableIrq(p, i).mask = p.mask \ {i}
      /\ DisableIrq(p, i).isr = p.isr /\ DisableIrq(p, i).mask = p.mask \cup {i}
  BY Zenon DEF PicState, EnableIrq, DisableIrq
<1>3. SendEoi(p, i).isr = p.isr \ Line(i) /\ SendEoi(p, i).mask = p.mask
  BY Zenon DEF PicState, SendEoi, Line
<1>4. /\ Acknowledge(p, i).isr = p.isr \cup Line(i)
      /\ Acknowledge(p, i).mask = p.mask
  BY Zenon DEF PicState, Acknowledge, Line
<1>5. QED
  BY <1>1, <1>2, <1>3, <1>4, Zenon

(* A step that leaves the stacks and the lines in service alone. *)
LEMMA LinesKept ==
  ASSUME LineInv, stack' = stack, cur' = cur, term2' = term2, pic'.isr = pic.isr,
         eflags_if' => eflags_if \/ Idle
  PROVE  LineInv'
BY Zenon DEF LineInv, LowerReturn, SwitchedAway, InService, PitFirst, FlagOn, Upper, Top, Idle

(* A handler's step: the innermost frame moves on. *)
LEMMA HandlerMoves ==
  ASSUME TypeOK, NEW i \in Devices, NEW here, At(i, here),
         NEW place \in {"enter", "eoi", "iret"}, stack' = Moved(place)
  PROVE  /\ stack[cur] # <<>> /\ stack'[cur] # <<>>
         /\ Len(stack'[cur]) = Len(stack[cur])
         /\ stack'[cur][Len(stack'[cur])].irq = i
         /\ stack'[cur][Len(stack'[cur])].at = place
         /\ \A p \in Proc : p # cur => stack'[p] = stack[p]
         /\ LowerReturn => LowerReturn'
<1>1. stack \in [Proc -> Seq(Frame)] /\ cur \in Proc /\ stack[cur] # <<>>
  BY Zenon DEF TypeOK, At
<1>2. stack' = [stack EXCEPT ![cur][Len(stack[cur])].at = place]
  BY Zenon DEF Moved
<1>3. /\ Len(stack'[cur]) = Len(stack[cur])
      /\ stack'[cur] # <<>>
      /\ stack'[cur][Len(stack[cur])].irq = stack[cur][Len(stack[cur])].irq
      /\ stack'[cur][Len(stack[cur])].at = place
      /\ \A k \in 1..Len(stack[cur]) - 1 : stack'[cur][k] = stack[cur][k]
      /\ \A p \in Proc : p # cur => stack'[p] = stack[p]
  BY <1>1, <1>2, FrameMoved, SMT
<1>4. stack[cur][Len(stack[cur])].irq = i
  BY Zenon DEF At, Top
<1>5. ASSUME LowerReturn PROVE LowerReturn'
  <2>1. ASSUME NEW p \in Proc, NEW k \in 1..Len(stack'[p]) - 1
        PROVE  stack'[p][k].at = "iret"
    <3>1. Len(stack'[p]) = Len(stack[p]) /\ stack'[p][k] = stack[p][k]
      BY <1>3, SMT
    <3>2. QED
      BY <1>5, <3>1, SMT DEF LowerReturn
  <2>2. QED
    BY <2>1, SMT DEF LowerReturn
<1>6. QED
  BY <1>1, <1>3, <1>4, <1>5, SMT

LEMMA LineInit == Init => LineInv
<1> SUFFICES ASSUME Init PROVE LineInv
  OBVIOUS
<1>1. \A p \in Proc : stack[p] = <<>>
  <2>1. stack = [p \in Proc |-> <<>>]
    BY SMT DEF Init
  <2>2. QED
    BY <2>1, Zenon
<1>2. LowerReturn
  BY <1>1, SMT DEF LowerReturn
<1>3. pic.isr = {} /\ ~eflags_if
  <2>1. PICK r \in SUBSET {PIT, KEYBOARD} : pic = [mask |-> {}, irr |-> r, isr |-> {}]
    BY Zenon DEF Init
  <2>2. QED
    BY <2>1, Zenon DEF Init
<1>4. Idle
  BY <1>1, InterruptsAssumption, Zenon DEF Init, Idle
<1>5. QED
  BY <1>1, <1>2, <1>3, <1>4, Zenon DEF LineInv, SwitchedAway, InService, PitFirst, FlagOn

(* What is in service lets a handler be entered only if it is empty. *)
LEMMA LineDeliver ==
  ASSUME TypeOK, LineInv, NEW i \in Devices, Deliver(i)
  PROVE  LineInv'
<1> DEFINE n == Len(stack[cur])
<1>1. /\ pic \in PicState /\ cur \in Proc /\ stack \in [Proc -> Seq(Frame)]
      /\ eflags_if /\ cur' = cur /\ term2' = term2 /\ eflags_if' = FALSE
      /\ pic'.isr = pic.isr \cup Line(i)
      /\ \A j \in pic.isr : j > i
      /\ stack' = [stack EXCEPT ![cur] = Append(@, [irq |-> i, at |-> "enter"])]
  BY PicFields, Zenon DEF TypeOK, Deliver, Deliverable, Open
<1>2. /\ Len(stack'[cur]) = n + 1 /\ n \in Nat
      /\ stack'[cur] # <<>>
      /\ stack'[cur][Len(stack'[cur])].irq = i
      /\ stack'[cur][Len(stack'[cur])].at = "enter"
      /\ \A k \in 1..n : stack'[cur][k] = stack[cur][k]
      /\ \A p \in Proc : p # cur => stack'[p] = stack[p]
  BY <1>1, FramePushed, SMT
<1>3. ~(Top.irq = PIT /\ Top.at = "eoi") \/ Idle
  <2>1. PIT \in pic.isr => PIT > i
    BY <1>1, Zenon
  <2>2. ~(PIT > i)
    BY SMT DEF PIT, Devices, KEYBOARD, RTC_LINE, MOUSE
  <2>3. QED
    BY <2>1, <2>2, Zenon DEF LineInv, PitFirst
<1>4. Idle \/ Top.at = "iret"
  BY <1>1, <1>3, Zenon DEF LineInv, FlagOn
<1>5. pic.isr = {}
  BY <1>4, Zenon DEF LineInv, InService
<1>6. ~Idle' /\ Top'.irq = i /\ Top'.at = "enter"
  BY <1>1, <1>2, Zenon DEF Idle, Top
<1>7. LowerReturn'
  <2>1. ASSUME NEW k \in 1..Len(stack'[cur]) - 1
        PROVE  stack'[cur][k].at = "iret"
    <3>1. k \in 1..n /\ (k = n \/ k \in 1..n - 1)
      BY <1>2, SMT
    <3>2. CASE k \in 1..n - 1
      BY <1>1, <1>2, <3>1, <3>2, SMT DEF LineInv, LowerReturn
    <3>3. CASE k = n
      <4>1. ~Idle
        BY <1>2, <3>1, SMT DEF Idle
      <4>2. QED
        BY <1>2, <1>4, <3>1, <3>3, <4>1, Zenon DEF Top
    <3>4. QED
      BY <3>1, <3>2, <3>3, Zenon
  <2>2. QED
    BY <1>1, <1>2, <2>1, SMT DEF LineInv, LowerReturn
<1>8. SwitchedAway'
  BY <1>1, <1>2, Zenon DEF LineInv, SwitchedAway, Upper
<1>9. InService' /\ PitFirst'
  BY <1>1, <1>5, <1>6, Zenon DEF InService, PitFirst, Line
<1>10. FlagOn'
  BY <1>1, Zenon DEF FlagOn
<1>11. QED
  BY <1>7, <1>8, <1>9, <1>10, Zenon DEF LineInv

(* A return: the frame below, if there is one, is the innermost now. *)
LEMMA FrameReturns ==
  ASSUME TypeOK, NEW d \in 1..MaxDepth, Iret(d)
  PROVE  /\ Len(stack'[cur]) = Len(stack[cur]) - 1 /\ Len(stack[cur]) \in Nat \ {0}
         /\ stack'[cur] # <<>> => Len(stack'[cur]) > 0
         /\ \A k \in 1..Len(stack[cur]) - 1 : stack'[cur][k] = stack[cur][k]
         /\ \A p \in Proc : p # cur => stack'[p] = stack[p]
<1>1. /\ cur \in Proc /\ stack \in [Proc -> Seq(Frame)]
      /\ Len(stack[cur]) > 0
      /\ stack' = [stack EXCEPT ![cur] = SubSeq(@, 1, Len(stack[cur]) - 1)]
  BY Zenon DEF TypeOK, Iret
<1>2. /\ stack'[cur] = SubSeq(stack[cur], 1, Len(stack[cur]) - 1)
      /\ \A p \in Proc : p # cur => stack'[p] = stack[p]
  BY <1>1, Zenon
<1>3. stack[cur] \in Seq(Frame)
  BY <1>1, Zenon
<1>4. QED
  BY <1>1, <1>2, <1>3, FramePopped, Zenon

LEMMA ReturnsToReturn ==
  ASSUME TypeOK, LowerReturn, NEW d \in 1..MaxDepth, Iret(d)
  PROVE  /\ cur' = cur
         /\ Idle' \/ Top'.at = "iret"
         /\ \A i, here : here # "iret" => ~At(i, here)'
<1>1. cur \in Proc /\ cur' = cur
  BY Zenon DEF TypeOK, Iret
<1>2. stack'[cur] # <<>> => Len(stack'[cur]) \in 1..Len(stack[cur]) - 1
  BY FrameReturns, SMT
<1>3. stack'[cur] # <<>> => stack[cur][Len(stack'[cur])].at = "iret"
  BY <1>1, <1>2, Zenon DEF LowerReturn
<1>4. stack'[cur] # <<>> => stack'[cur][Len(stack'[cur])] = stack[cur][Len(stack'[cur])]
  BY <1>2, FrameReturns, Zenon
<1>5. stack'[cur] # <<>> => stack'[cur][Len(stack'[cur])].at = "iret"
  BY <1>3, <1>4, Zenon
<1>6. QED
  BY <1>1, <1>5, Zenon DEF Idle, Top, At

LEMMA LineIret ==
  ASSUME TypeOK, LineInv, NEW d \in 1..MaxDepth, Iret(d)
  PROVE  LineInv'
<1> DEFINE n == Len(stack[cur])
<1>1. /\ cur \in Proc /\ cur' = cur /\ term2' = term2 /\ pic' = pic
      /\ Top.at = "iret"
  BY Zenon DEF TypeOK, Iret
<1>2. /\ Len(stack'[cur]) = n - 1 /\ n \in Nat \ {0}
      /\ stack'[cur] # <<>> => Len(stack'[cur]) > 0
      /\ \A k \in 1..n - 1 : stack'[cur][k] = stack[cur][k]
      /\ \A p \in Proc : p # cur => stack'[p] = stack[p]
  BY FrameReturns, Zenon
<1>3. pic.isr = {}
  BY <1>1, Zenon DEF LineInv, InService
<1>4. Idle' \/ Top'.at = "iret"
  BY ReturnsToReturn, Zenon DEF LineInv
<1>5. LowerReturn'
  <2>1. \A k \in 1..Len(stack'[cur]) - 1 : k \in 1..n - 1
    BY <1>2, SMT
  <2>2. \A k \in 1..n - 1 : stack[cur][k].at = "iret"
    BY <1>1, Zenon DEF LineInv, LowerReturn
  <2>3. \A k \in 1..n - 1 : stack'[cur][k].at = "iret"
    BY <1>2, <2>2, Zenon
  <2>4. \A k \in 1..Len(stack'[cur]) - 1 : stack'[cur][k].at = "iret"
    BY <2>1, <2>3, Zenon
  <2>5. ASSUME NEW p \in Proc, p # cur, NEW k \in 1..Len(stack'[p]) - 1
        PROVE  stack'[p][k].at = "iret"
    BY <1>2, <2>5, SMT DEF LineInv, LowerReturn
  <2>6. QED
    BY <2>4, <2>5, SMT DEF LowerReturn
<1>6. SwitchedAway'
  BY <1>1, <1>2, Zenon DEF LineInv, SwitchedAway, Upper
<1>7. QED
  BY <1>1, <1>3, <1>4, <1>5, <1>6, Zenon DEF LineInv, InService, PitFirst, FlagOn

(* A handler that goes on without leaving its stack. *)
LEMMA LineMoves ==
  ASSUME TypeOK, LineInv, NEW i \in Devices, NEW here \in {"enter", "eoi"}, At(i, here),
         NEW place \in {"eoi", "iret"}, stack' = Moved(place),
         cur' = cur, term2' = term2,
         i = PIT \/ eflags_if' = eflags_if,
         i = PIT /\ place = "eoi" => pic'.isr = pic.isr,
         place = "iret" => pic'.isr = pic.isr \ Line(i),
         i # PIT => pic'.isr \subseteq pic.isr
  PROVE  LineInv'
<1>1. /\ stack[cur] # <<>> /\ stack'[cur] # <<>>
      /\ stack'[cur][Len(stack'[cur])].irq = i
      /\ stack'[cur][Len(stack'[cur])].at = place
      /\ \A p \in Proc : p # cur => stack'[p] = stack[p]
      /\ LowerReturn'
  BY HandlerMoves, Zenon DEF LineInv
<1>2. Top.irq = i /\ Top.at = here /\ ~Idle
  BY Zenon DEF At, Idle
<1>3. ~Idle' /\ Top'.irq = i /\ Top'.at = place
  BY <1>1, Zenon DEF Idle, Top
<1>4. SwitchedAway'
  BY <1>1, Zenon DEF LineInv, SwitchedAway, Upper
<1>5. \A j \in pic.isr : j \in Line(i)
  BY <1>2, Zenon DEF LineInv, InService
<1>6. InService'
  <2>1. CASE place = "iret"
    BY <1>5, <2>1, Zenon DEF InService
  <2>2. CASE place # "iret"
    <3>1. pic'.isr \subseteq pic.isr
      BY <2>2, Zenon
    <3>2. QED
      BY <1>3, <1>5, <2>2, <3>1, Zenon DEF InService
  <2>3. QED
    BY <2>1, <2>2, Zenon
<1>7. PitFirst'
  BY <1>2, <1>3, Zenon DEF LineInv, PitFirst
<1>8. FlagOn'
  <2>1. i # PIT => ~eflags_if
    BY <1>2, Zenon DEF LineInv, FlagOn
  <2>2. QED
    BY <1>3, <2>1, Zenon DEF FlagOn
<1>9. QED
  BY <1>1, <1>4, <1>6, <1>7, <1>8, Zenon DEF LineInv

(* A terminal key leaves nothing in service behind. *)
LEMMA LineSwitch ==
  ASSUME TypeOK, LineInv, NEW q \in Proc, TerminalKey(q)
  PROVE  LineInv'
<1> USE DevicesKnown
<1>1. /\ At(KEYBOARD, "enter") /\ stack' = Moved("eoi") /\ cur' = q /\ q # cur
      /\ ~term2' /\ eflags_if' = term2 /\ (term2 \/ stack[q] # <<>>)
      /\ pic \in PicState /\ cur \in Proc
  BY Zenon DEF TerminalKey, TypeOK
<1>2. /\ stack'[cur] # <<>>
      /\ stack'[cur][Len(stack'[cur])].irq = KEYBOARD
      /\ stack'[cur][Len(stack'[cur])].at = "eoi"
      /\ \A p \in Proc : p # cur => stack'[p] = stack[p]
      /\ LowerReturn'
  BY <1>1, HandlerMoves, Zenon DEF LineInv
<1>3. pic'.isr = {}
  <2>1. SendEoi(pic, KEYBOARD) \in PicState
    BY <1>1, PicOps, Zenon
  <2>2. pic'.isr \subseteq pic.isr \ Line(KEYBOARD)
    <3>1. \/ pic' = SendEoi(pic, KEYBOARD)
          \/ pic' = SendEoi(SendEoi(pic, KEYBOARD), PIT)
      BY Zenon DEF TerminalKey, SwitchEoi, ContextEoi
    <3>2. /\ SendEoi(pic, KEYBOARD).isr = pic.isr \ Line(KEYBOARD)
          /\ SendEoi(SendEoi(pic, KEYBOARD), PIT).isr
               = SendEoi(pic, KEYBOARD).isr \ Line(PIT)
      BY <1>1, <2>1, PicFields, Zenon
    <3>3. QED
      BY <3>1, <3>2, Zenon
  <2>3. \A j \in pic.isr : j \in Line(KEYBOARD)
    BY <1>1, Zenon DEF LineInv, InService, At
  <2>4. QED
    BY <2>2, <2>3, Zenon
<1>4. SwitchedAway'
  BY <1>1, <1>2, Zenon DEF LineInv, SwitchedAway, Upper
<1>5. Idle' \/ (Top'.irq = KEYBOARD /\ Top'.at = "eoi" /\ ~term2)
  BY <1>1, <1>2, Zenon DEF LineInv, SwitchedAway, Upper, Idle, Top
<1>6. InService'
  BY <1>3, Zenon DEF InService
<1>7. PitFirst'
  <2>1. KEYBOARD # PIT
    BY SMT DEF KEYBOARD, PIT
  <2>2. QED
    BY <1>5, <2>1, Zenon DEF PitFirst
<1>8. FlagOn'
  BY <1>1, <1>5, Zenon DEF FlagOn
<1>9. QED
  BY <1>2, <1>4, <1>6, <1>7, <1>8, Zenon DEF LineInv

LEMMA LineNext == TypeOK /\ LineInv /\ [Next]_vars => LineInv'
<1> SUFFICES ASSUME TypeOK, LineInv, [Next]_vars PROVE LineInv'
  OBVIOUS
<1> USE DevicesKnown
<1>0. pic \in PicState
  BY Zenon DEF TypeOK
<1>1. ASSUME NEW i \in Devices, Request(i) PROVE LineInv'
  BY <1>0, <1>1, PicFields, LinesKept, Zenon DEF Request
<1>2. ASSUME NEW i \in Devices, Deliver(i) PROVE LineInv'
  BY <1>2, LineDeliver, Zenon
<1>3. CASE Period
  BY <1>0, <1>3, PicFields, LinesKept, Zenon DEF Period, RaiseIf
<1>4. ASSUME NEW d \in 1..MaxDepth, Iret(d) PROVE LineInv'
  BY <1>4, LineIret, Zenon
<1>5. CASE Handler
  <2>1. CASE PitWork
    BY <2>1, LineMoves, Zenon DEF PitWork
  <2>2. ASSUME NEW i \in Devices, Eoi(i) PROVE LineInv'
    <3>1. pic'.isr = pic.isr \ Line(i)
      BY <1>0, <2>2, PicFields, Zenon DEF Eoi
    <3>2. QED
      BY <2>2, <3>1, LineMoves, Zenon DEF Eoi
  <2>3. CASE rtc_int_handler
    <3>1. pic'.isr = pic.isr \ Line(RTC_LINE)
      BY <1>0, <2>3, PicFields, Zenon DEF rtc_int_handler
    <3>2. QED
      BY <2>3, <3>1, LineMoves, Zenon DEF rtc_int_handler
  <2>4. CASE mouse_int_handler
    <3>1. pic'.isr = pic.isr \ Line(MOUSE)
      BY <1>0, <2>4, PicFields, Zenon DEF mouse_int_handler
    <3>2. QED
      BY <2>4, <3>1, LineMoves, Zenon DEF mouse_int_handler
  <2>5. CASE TypedKey
    BY <2>5, LineMoves, Zenon DEF TypedKey
  <2>6. ASSUME NEW q \in Proc, TerminalKey(q) PROVE LineInv'
    BY <2>6, LineSwitch, Zenon
  <2>7. QED
    BY <1>5, <2>1, <2>2, <2>3, <2>4, <2>5, <2>6, Zenon DEF Handler
<1>6. CASE Boot
  <2>1. /\ stack' = stack /\ cur' = cur /\ term2' = term2
        /\ eflags_if' => eflags_if \/ Idle
    BY <1>6, Zenon
       DEF Boot, BootPic, init_keyboard, init_mouse, init_pit, BootSti, BootEnable, In
  <2>2. \/ pic' = pic \/ pic' = i8259_init(pic) \/ pic' = EnableIrq(pic, KEYBOARD)
        \/ pic' = EnableIrq(pic, MOUSE) \/ pic' = EnableIrq(pic, PIT)
    BY <1>6, Zenon
       DEF Boot, BootPic, init_keyboard, init_mouse, init_pit, BootSti, BootEnable
  <2>3. pic'.isr = pic.isr
    <3>1. \A i \in Devices : /\ i8259_init(pic).isr = pic.isr
                            /\ Raise(pic, i).isr = pic.isr
                            /\ EnableIrq(pic, i).isr = pic.isr
      BY <1>0, PicFields, Zenon
    <3>2. QED
      BY <2>2, <3>1, SMT
  <2>4. QED
    BY <2>1, <2>3, LinesKept, Zenon
<1>7. CASE Driver
  <2>1. /\ stack' = stack /\ cur' = cur /\ term2' = term2
        /\ eflags_if' => eflags_if \/ Idle
    BY <1>7, Zenon DEF Driver, DoPort, InitRtcDone, WriteDone, PortsDone
  <2>2. pic' = pic \/ pic' = Raise(pic, RTC_LINE) \/ pic' = EnableIrq(pic, RTC_LINE)
    BY <1>7, Zenon DEF Driver, DoPort, InitRtcDone, WriteDone, RaiseIf
  <2>3. pic'.isr = pic.isr
    <3>1. \A i \in Devices : /\ i8259_init(pic).isr = pic.isr
                            /\ Raise(pic, i).isr = pic.isr
                            /\ EnableIrq(pic, i).isr = pic.isr
      BY <1>0, PicFields, Zenon
    <3>2. QED
      BY <2>2, <3>1, SMT
  <2>4. QED
    BY <2>1, <2>3, LinesKept, Zenon
<1>8. CASE Calls \/ ReadReturn \/ Exception
  <2>1. stack' = stack /\ cur' = cur /\ term2' = term2
    BY <1>8, Zenon DEF Calls, rtc_open, ReadStart, rtc_write, Fault, ReadReturn,
                       Exception, MaskAndSpin
  <2>1a. eflags_if' = eflags_if \/ ~eflags_if'
    BY <1>8, Zenon DEF Calls, rtc_open, ReadStart, rtc_write, IfWhileWriting, Fault,
                       ReadReturn, Exception, MaskAndSpin
  <2>1b. eflags_if' => eflags_if \/ Idle
    BY <2>1a, Zenon
  <2>2. pic'.isr = pic.isr
    <3>1. CASE Calls \/ ReadReturn
      BY <3>1, Zenon DEF Calls, rtc_open, ReadStart, rtc_write, Fault, ReadReturn
    <3>2. CASE Exception
      <4>1. DisableIrq(pic, KEYBOARD) \in PicState
        BY <1>0, PicOps, Zenon
      <4>2. \/ pic' = DisableIrq(pic, KEYBOARD)
            \/ pic' = DisableIrq(DisableIrq(pic, KEYBOARD), PIT)
        BY <3>2, Zenon DEF Exception, MaskAndSpin
      <4>3. /\ DisableIrq(pic, KEYBOARD).isr = pic.isr
            /\ DisableIrq(DisableIrq(pic, KEYBOARD), PIT).isr = DisableIrq(pic, KEYBOARD).isr
        BY <1>0, <4>1, PicFields, Zenon
      <4>4. QED
        BY <4>2, <4>3, Zenon
    <3>3. QED
      BY <1>8, <3>1, <3>2
  <2>3. QED
    BY <2>1, <2>1b, <2>2, LinesKept, Zenon
<1>9. CASE UNCHANGED vars
  BY <1>9, LinesKept, Zenon DEF vars
<1>10. QED
  BY <1>1, <1>2, <1>3, <1>4, <1>5, <1>6, <1>7, <1>8, <1>9, Zenon DEF Next

LEMMA LinesFollow == TypeOK /\ LineInv => LinesSound
<1> SUFFICES ASSUME TypeOK, LineInv PROVE InServiceIsHandled
  BY DEF LinesSound
<1> DEFINE n == Len(stack[cur])
<1>1. ASSUME NEW i \in pic.isr
      PROVE  /\ n \in DOMAIN stack[cur]
             /\ stack[cur][n].at # "iret"
             /\ \/ stack[cur][n].irq = i
                \/ i = CASCADE /\ stack[cur][n].irq >= GREATEST_IRQ
  <2>1. ~Idle /\ Top.at # "iret" /\ i \in Line(Top.irq)
    BY <1>1, Zenon DEF LineInv, InService
  <2>2. stack[cur] \in Seq(Frame) /\ n \in DOMAIN stack[cur] /\ stack[cur][n] \in Frame
    BY <2>1, SMT DEF TypeOK, Idle
  <2>3. stack[cur][n].irq \in Int
    BY <2>2, DevicesKnown, Zenon DEF Frame
  <2>4. \/ stack[cur][n].irq = i
        \/ i = CASCADE /\ stack[cur][n].irq >= GREATEST_IRQ
    BY <2>1, <2>3, SMT DEF Top, Line, GREATEST_IRQ
  <2>5. QED
    BY <2>1, <2>2, <2>4, Zenon DEF Top
<1>2. QED
  BY <1>1, Zenon DEF InServiceIsHandled

(* Whatever interrupts what, and for any number of processes and handlers,  *)
(* a line is in service only for a handler of the current stack that will   *)
(* still end it.                                                             *)
THEOREM LinesCorrect == Spec => []LinesSound
<1>1. Spec => [](TypeOK /\ LineInv)
  BY TypeInit, TypeNext, LineInit, LineNext, PTL DEF Spec
<1>2. QED
  BY <1>1, LinesFollow, PTL
-----------------------------------------------------------------------------
(* What the processes' own code does: every change of a mode, and what it  *)
(* presupposes.                                                              *)
BootMode == {"pic", "keyboard", "rtc", "mouse", "sti", "pit"}

ModeStep ==
  /\ Idle /\ cur' = cur /\ stack' = stack
  /\ \/ mode[cur] \in BootMode /\ \E m \in BootMode \cup {"run"} : Enter(m)
     \/ /\ mode[cur] = "run" /\ Booted /\ cur \in Users
        /\ \E m \in {"open", "write", "hung", "read"} : Enter(m)
     \/ mode[cur] = "run" /\ Booted /\ Enter("faulted")
     \/ mode[cur] \in {"open", "write"} /\ Enter("run")
     \/ mode[cur] = "read" /\ Changed /\ Enter("run")
     \/ mode[cur] = "faulted" /\ Enter("dead")

LEMMA ModeSteps ==
  ASSUME [Next]_vars
  PROVE  mode' = mode \/ ModeStep
<1>1. CASE Boot
  BY <1>1, Zenon DEF Boot, BootPic, init_keyboard, init_mouse, init_pit, BootSti,
                     BootEnable, In, ModeStep, BootMode
<1>2. CASE InitRtcDone
  <2>1. CASE mode[cur] = "rtc"
    <3>1. Enter("mouse")
      BY <1>2, <2>1, Zenon DEF InitRtcDone
    <3>2. QED
      BY <1>2, <2>1, <3>1, Zenon DEF InitRtcDone, PortsDone, ModeStep, BootMode
  <2>2. CASE mode[cur] = "open"
    <3>1. "open" # "rtc"
      OBVIOUS
    <3>2. Enter("run")
      BY <1>2, <2>2, <3>1, Zenon DEF InitRtcDone
    <3>3. QED
      BY <1>2, <2>2, <3>2, Zenon DEF InitRtcDone, PortsDone, ModeStep
  <2>3. QED
    BY <1>2, <2>1, <2>2, Zenon DEF InitRtcDone
<1>3. CASE WriteDone
  BY <1>3, Zenon DEF WriteDone, PortsDone, ModeStep
<1>4. CASE rtc_open \/ ReadStart \/ Fault
  BY <1>4, Zenon DEF rtc_open, ReadStart, Fault, In, ModeStep
<1>5. ASSUME NEW f \in Freqs, rtc_write(f) PROVE mode' = mode \/ ModeStep
  BY <1>5, Zenon DEF rtc_write, In, ModeStep
<1>6. CASE ReadReturn
  BY <1>6, Zenon DEF ReadReturn, In, ModeStep
<1>7. CASE Exception
  BY <1>7, Zenon DEF Exception, MaskAndSpin, In, ModeStep
<1>8. CASE DoPort
  BY <1>8, Zenon DEF DoPort
<1>9. CASE Handler
  BY <1>9, Zenon DEF Handler, PitWork, Eoi, rtc_int_handler, mouse_int_handler, TypedKey,
                     TerminalKey
<1>10. CASE Period \/ (\E i \in Devices : Request(i) \/ Deliver(i)) \/ \E d \in 1..MaxDepth : Iret(d)
  BY <1>10, Zenon DEF Period, Request, Deliver, Iret
<1>11. CASE UNCHANGED vars
  BY <1>11, Zenon DEF vars
<1>12. QED
  BY <1>1, <1>2, <1>3, <1>4, <1>5, <1>6, <1>7, <1>8, <1>9, <1>10, <1>11, Zenon
     DEF Next, Driver, Calls

(* The kernel boots in one process while the others have not begun, and    *)
(* only users of the clock are in its driver.                                *)
BootAlone == \A p \in Proc : /\ mode[p] \in BootMode => p = First
                             /\ ~Booted /\ p # First => mode[p] = "run"
UsersOnly == \A p \in Proc : mode[p] \in {"open", "write", "read"} => p \in Users
BootInv == BootAlone /\ UsersOnly

LEMMA BootInit == Init => BootInv
<1> SUFFICES ASSUME Init PROVE BootInv
  OBVIOUS
<1>1. mode = [p \in Proc |-> IF p = First THEN "pic" ELSE "run"]
  BY SMT DEF Init
<1>2. QED
  BY <1>1, SMT DEF BootInv, BootAlone, UsersOnly, BootMode

LEMMA BootNext == TypeOK /\ BootInv /\ [Next]_vars => BootInv'
<1> SUFFICES ASSUME TypeOK, BootInv, [Next]_vars PROVE BootInv'
  OBVIOUS
<1>1. cur \in Proc /\ First \in Proc /\ mode \in [Proc -> Mode]
  BY InterruptsAssumption, Zenon DEF TypeOK
<1>2. CASE mode' = mode
  BY <1>2, Zenon DEF BootInv, BootAlone, UsersOnly, Booted
<1>3. CASE ModeStep
  <2>1. PICK m : mode' = [mode EXCEPT ![cur] = m]
    BY <1>3, Zenon DEF ModeStep, Enter
  <2>2. mode'[cur] = m /\ \A p \in Proc : p # cur => mode'[p] = mode[p]
    BY <1>1, <2>1, SMT
  <2>3. \A n : Enter(n) => mode'[cur] = n
    BY <1>1, SMT DEF Enter
  <2>4. CASE mode[cur] \in BootMode
    <3>1. cur = First /\ m \in BootMode \cup {"run"}
      BY <1>1, <1>3, <2>2, <2>3, <2>4, SMT DEF ModeStep, BootInv, BootAlone, BootMode
    <3>2. ~Booted
      BY <2>4, <3>1, SMT DEF Booted, BootMode
    <3>3. QED
      BY <1>1, <2>2, <3>1, <3>2, SMT DEF BootInv, BootAlone, UsersOnly, BootMode
  <2>5. CASE mode[cur] \notin BootMode
    <3>1. /\ m \notin BootMode /\ (m \in {"open", "write", "read"} => cur \in Users)
          /\ mode[cur] # "run" \/ Booted
      BY <1>3, <2>2, <2>3, <2>5, SMT DEF ModeStep, BootMode
    <3>2. Booted
      <4>1. cur = First => Booted
        BY <2>5, SMT DEF Booted, BootMode
      <4>2. QED
        BY <1>1, <3>1, <4>1, Zenon DEF BootInv, BootAlone
    <3>3. Booted'
      BY <1>1, <2>2, <3>1, <3>2, SMT DEF Booted, BootMode
    <3>4. QED
      BY <1>1, <2>2, <3>1, <3>3, Zenon DEF BootInv, BootAlone, UsersOnly
  <2>6. QED
    BY <2>4, <2>5
<1>4. QED
  BY <1>2, <1>3, ModeSteps
-----------------------------------------------------------------------------
(* A dead process has the CPU, the keyboard masked, and no key's handler   *)
(* about to begin: only that could switch away.                              *)
DeadInv ==
  \A p \in Proc : mode[p] = "dead" => p = cur /\ KEYBOARD \in pic.mask /\ ~At(KEYBOARD, "enter")

LEMMA DeadInit == Init => DeadInv
<1> SUFFICES ASSUME Init PROVE DeadInv
  OBVIOUS
<1>1. mode = [p \in Proc |-> IF p = First THEN "pic" ELSE "run"]
  BY SMT DEF Init
<1>2. QED
  BY <1>1, SMT DEF DeadInv

(* A step that lets nobody die, keeps the keyboard masked and brings no key. *)
LEMMA DeadKept ==
  ASSUME DeadInv, cur' = cur, \A p \in Proc : mode'[p] = "dead" => mode[p] = "dead",
         mode[cur] = "dead" /\ KEYBOARD \in pic.mask => KEYBOARD \in pic'.mask,
         mode[cur] = "dead" /\ KEYBOARD \in pic.mask /\ ~At(KEYBOARD, "enter")
           => ~At(KEYBOARD, "enter")'
  PROVE  DeadInv'
BY Zenon DEF DeadInv

LEMMA MaskFacts ==
  ASSUME NEW p \in PicState, NEW i \in Devices, KEYBOARD \in p.mask
  PROVE  /\ KEYBOARD \in Raise(p, i).mask /\ KEYBOARD \in SendEoi(p, i).mask
         /\ KEYBOARD \in Acknowledge(p, i).mask
BY PicFields, Zenon

LEMMA DeadNext == TypeOK /\ LineInv /\ DeadInv /\ [Next]_vars => DeadInv'
<1> SUFFICES ASSUME TypeOK, LineInv, DeadInv, [Next]_vars PROVE DeadInv'
  OBVIOUS
<1> USE DevicesKnown
<1>0. /\ pic \in PicState /\ cur \in Proc /\ mode \in [Proc -> Mode]
      /\ stack \in [Proc -> Seq(Frame)]
  BY Zenon DEF TypeOK
<1>1. ASSUME NEW i \in Devices, Request(i) PROVE DeadInv'
  BY <1>0, <1>1, PicFields, DeadKept, Zenon DEF Request, At, Top
<1>2. ASSUME NEW i \in Devices, Deliver(i) PROVE DeadInv'
  <2>1. /\ cur' = cur /\ mode' = mode /\ pic'.mask = pic.mask
        /\ i \notin pic.mask
        /\ stack' = [stack EXCEPT ![cur] = Append(@, [irq |-> i, at |-> "enter"])]
    BY <1>0, <1>2, PicFields, Zenon DEF Deliver, Deliverable, Open
  <2>2. stack'[cur][Len(stack'[cur])].irq = i
    BY <1>0, <2>1, FramePushed, SMT
  <2>3. KEYBOARD \in pic.mask => ~At(KEYBOARD, "enter")'
    BY <2>1, <2>2, Zenon DEF At, Top
  <2>4. QED
    BY <2>1, <2>3, DeadKept, Zenon
<1>3. CASE Period
  BY <1>0, <1>3, PicFields, DeadKept, Zenon DEF Period, RaiseIf, At, Top
<1>4. ASSUME NEW d \in 1..MaxDepth, Iret(d) PROVE DeadInv'
  <2>1. cur' = cur /\ mode' = mode /\ pic' = pic
    BY <1>4, Zenon DEF Iret
  <2>3. ~At(KEYBOARD, "enter")'
    BY <1>4, ReturnsToReturn, Zenon DEF LineInv
  <2>4. QED
    BY <2>1, <2>3, DeadKept, Zenon
<1>5. CASE Handler
  <2>1. ASSUME NEW i \in Devices, NEW here, At(i, here),
               NEW place \in {"eoi", "iret"}, stack' = Moved(place),
               cur' = cur, mode' = mode, pic'.mask = pic.mask
        PROVE  DeadInv'
    <3>1. stack'[cur][Len(stack'[cur])].at = place
      BY <2>1, HandlerMoves, Zenon
    <3>2. ~At(KEYBOARD, "enter")'
      BY <2>1, <3>1, Zenon DEF At, Top
    <3>3. QED
      BY <2>1, <3>2, DeadKept, Zenon
  <2>2. CASE PitWork
    BY <2>1, <2>2, Zenon DEF PitWork
  <2>3. ASSUME NEW i \in Devices, Eoi(i) PROVE DeadInv'
    <3>1. pic'.mask = pic.mask
      BY <1>0, <2>3, PicFields, Zenon DEF Eoi
    <3>2. QED
      BY <2>1, <2>3, <3>1, Zenon DEF Eoi
  <2>4. CASE rtc_int_handler
    <3>1. pic'.mask = pic.mask
      BY <1>0, <2>4, PicFields, Zenon DEF rtc_int_handler
    <3>2. QED
      BY <2>1, <2>4, <3>1, Zenon DEF rtc_int_handler
  <2>5. CASE mouse_int_handler
    <3>1. pic'.mask = pic.mask
      BY <1>0, <2>5, PicFields, Zenon DEF mouse_int_handler
    <3>2. QED
      BY <2>1, <2>5, <3>1, Zenon DEF mouse_int_handler
  <2>6. CASE TypedKey
    BY <2>1, <2>6, Zenon DEF TypedKey
  <2>7. ASSUME NEW q \in Proc, TerminalKey(q) PROVE DeadInv'
    BY <1>0, <2>7, Zenon DEF TerminalKey, DeadInv
  <2>8. QED
    BY <1>5, <2>2, <2>3, <2>4, <2>5, <2>6, <2>7, Zenon DEF Handler
<1>6. CASE Boot \/ InitRtcDone \/ WriteDone \/ Calls \/ ReadReturn
  <2>1. /\ mode[cur] # "dead" /\ cur' = cur /\ stack' = stack
        /\ \E m \in Mode \ {"dead"} : mode' = [mode EXCEPT ![cur] = m]
    BY <1>6, Zenon DEF Boot, BootPic, init_keyboard, init_mouse, init_pit, BootSti, BootEnable, In,
       InitRtcDone, WriteDone, Calls, rtc_open, ReadStart, rtc_write, Fault, ReadReturn, Enter, Mode
  <2>2. \A p \in Proc : mode'[p] = "dead" => mode[p] = "dead"
    BY <1>0, <2>1, Zenon
  <2>3. QED
    BY <2>1, <2>2, DeadKept, Zenon
<1>7. CASE DoPort
  <2>1. /\ cur' = cur /\ mode' = mode /\ stack' = stack
        /\ pic' = pic \/ pic' = Raise(pic, RTC_LINE)
    BY <1>7, Zenon DEF DoPort, RaiseIf
  <2>2. KEYBOARD \in pic.mask => KEYBOARD \in pic'.mask
    BY <1>0, <2>1, MaskFacts, Zenon
  <2>3. QED
    BY <2>1, <2>2, DeadKept, Zenon DEF At, Top
<1>8. CASE Exception
  <2>1. /\ Idle /\ cur' = cur /\ stack' = stack /\ mode' = [mode EXCEPT ![cur] = "dead"]
        /\ mode[cur] = "faulted"
        /\ \/ pic' = DisableIrq(pic, KEYBOARD)
           \/ pic' = DisableIrq(DisableIrq(pic, KEYBOARD), PIT)
    BY <1>8, Zenon DEF Exception, MaskAndSpin, In, Enter
  <2>2. KEYBOARD \in pic'.mask
    <3>1. DisableIrq(pic, KEYBOARD) \in PicState
      BY <1>0, PicOps, Zenon
    <3>2. DisableIrq(pic, KEYBOARD).mask = pic.mask \cup {KEYBOARD}
      BY <1>0, PicFields, Zenon
    <3>3. DisableIrq(DisableIrq(pic, KEYBOARD), PIT).mask
            = DisableIrq(pic, KEYBOARD).mask \cup {PIT}
      BY <3>1, PicFields, Zenon
    <3>4. QED
      BY <2>1, <3>2, <3>3, Zenon
  <2>3. \A p \in Proc : mode'[p] = "dead" => p = cur
    BY <1>0, <2>1, SMT DEF DeadInv
  <2>4. QED
    BY <2>1, <2>2, <2>3, Zenon DEF DeadInv, At, Idle
<1>9. CASE UNCHANGED vars
  BY <1>9, DeadKept, Zenon DEF vars, At, Top
<1>10. QED
  BY <1>1, <1>2, <1>3, <1>4, <1>5, <1>6, <1>7, <1>8, <1>9, Zenon DEF Next, Driver

LEMMA DeadStays ==
  ASSUME TypeOK, DeadInv, [Next]_vars, mode[cur] = "dead"
  PROVE  cur' = cur /\ mode'[cur] = "dead"
<1>1. cur \in Proc /\ ~At(KEYBOARD, "enter")
  BY Zenon DEF TypeOK, DeadInv
<1>2. mode' = mode
  BY ModeSteps, SMT DEF ModeStep, BootMode
<1>3. cur' = cur
  <2>1. \A q \in Proc : ~TerminalKey(q)
    BY <1>1, Zenon DEF TerminalKey
  <2>2. CASE Handler
    BY <2>1, <2>2, Zenon
       DEF Handler, PitWork, Eoi, rtc_int_handler, mouse_int_handler, TypedKey
  <2>3. CASE Boot \/ Driver
    BY <2>3, Zenon DEF Boot, BootPic, init_keyboard, init_mouse, init_pit, BootSti, BootEnable,
                       Driver, DoPort, InitRtcDone, WriteDone
  <2>4. CASE Calls \/ ReadReturn \/ Exception
    BY <2>4, Zenon DEF Calls, rtc_open, ReadStart, rtc_write, Fault, ReadReturn,
                       Exception, MaskAndSpin
  <2>5. CASE Period \/ (\E i \in Devices : Request(i) \/ Deliver(i)) \/ \E d \in 1..MaxDepth : Iret(d)
    BY <2>5, Zenon DEF Period, Request, Deliver, Iret
  <2>6. CASE UNCHANGED vars
    BY <2>6, Zenon DEF vars
  <2>7. QED
    BY <2>2, <2>3, <2>4, <2>5, <2>6, Zenon DEF Next
<1>4. QED
  BY <1>2, <1>3

(* After an exception the CPU never leaves the process that caused it,      *)
(* although interrupts stay on.                                              *)
THEOREM FaultCorrect == Spec => FaultIsFinal
<1>1. Spec => [](TypeOK /\ LineInv /\ DeadInv)
  BY TypeInit, TypeNext, LineInit, LineNext, DeadInit, DeadNext, PTL DEF Spec
<1>2. TypeOK /\ DeadInv /\ [Next]_vars
        => (mode[cur] = "dead" => cur' = cur /\ mode'[cur] = "dead")
  BY DeadStays
<1>3. QED
  BY <1>1, <1>2, PTL DEF Spec, FaultIsFinal
-----------------------------------------------------------------------------
(* A reader whose copy of the counter is old has had its tick.               *)
ReadInv == \A p \in Proc : mode[p] = "read" /\ number # temp[p] => ticked[p]

LEMMA ReadInit == Init => ReadInv
BY SMT DEF Init, ReadInv

LEMMA ReadNext ==
  ASSUME \A u, v \in Users : u = v, TypeOK, BootInv, ReadInv, [Next]_vars
  PROVE  ReadInv'
<1>0. cur \in Proc /\ mode \in [Proc -> Mode] /\ ticked \in [Proc -> BOOLEAN]
      /\ temp \in [Proc -> 0..WIDTH - 1]
  BY Zenon DEF TypeOK
<1>1. ASSUME number' = number, temp' = temp, ticked' = ticked,
             \A p \in Proc : mode'[p] = "read" => mode[p] = "read"
      PROVE  ReadInv'
  BY <1>1, Zenon DEF ReadInv
<1>2. ASSUME NEW m, m # "read", mode' = [mode EXCEPT ![cur] = m]
      PROVE  \A p \in Proc : mode'[p] = "read" => mode[p] = "read"
  BY <1>0, <1>2, Zenon
<1>3. CASE Period \/ (\E i \in Devices : Request(i) \/ Deliver(i)) \/ \E d \in 1..MaxDepth : Iret(d)
  BY <1>1, <1>3, Zenon DEF Period, Request, Deliver, Iret, clock
<1>4. CASE PitWork \/ (\E i \in Devices : Eoi(i)) \/ mouse_int_handler \/ TypedKey
           \/ \E q \in Proc : TerminalKey(q)
  BY <1>1, <1>4, Zenon DEF PitWork, Eoi, mouse_int_handler, TypedKey, TerminalKey, clock
<1>5. CASE rtc_int_handler
  <2>1. mode' = mode /\ ticked' = [p \in Proc |-> mode[p] = "read"]
    BY <1>5, Zenon DEF rtc_int_handler
  <2>2. QED
    BY <2>1, Zenon DEF ReadInv
<1>6. CASE Boot
  <2>1. /\ number' = number /\ temp' = temp /\ ticked' = ticked
        /\ \E m : m # "read" /\ mode' = [mode EXCEPT ![cur] = m]
    BY <1>6, Zenon DEF Boot, BootPic, init_keyboard, init_mouse, init_pit, BootSti, BootEnable,
                       Enter, clock
  <2>2. QED
    BY <1>1, <1>2, <2>1, Zenon
<1>7. CASE DoPort \/ WriteDone \/ rtc_open \/ (\E f \in Freqs : rtc_write(f)) \/ Fault
           \/ Exception
  <2>1. /\ number' = number /\ temp' = temp /\ ticked' = ticked
        /\ mode' = mode \/ \E m : m # "read" /\ mode' = [mode EXCEPT ![cur] = m]
    BY <1>7, Zenon DEF DoPort, WriteDone, rtc_open, rtc_write, Fault, Exception, MaskAndSpin,
                       Enter, clock
  <2>2. QED
    BY <1>1, <1>2, <2>1, Zenon
<1>8. CASE InitRtcDone
  <2>1. \A p \in Proc : mode'[p] # "read"
    <3>1. /\ mode[cur] \in {"rtc", "open"}
          /\ mode' = [mode EXCEPT ![cur] = IF mode[cur] = "rtc" THEN "mouse" ELSE "run"]
      BY <1>8, Zenon DEF InitRtcDone, Enter
    <3>2. mode'[cur] # "read" /\ \A p \in Proc : p # cur => mode'[p] = mode[p]
      BY <1>0, <3>1, SMT
    <3>3. ASSUME NEW p \in Proc, p # cur, mode[p] = "read" PROVE FALSE
      <4>1. CASE mode[cur] = "open"
        BY <1>0, <3>3, <4>1, Zenon DEF BootInv, UsersOnly
      <4>2. CASE mode[cur] = "rtc"
        <5>1. cur = First
          BY <1>0, <4>2, Zenon DEF BootInv, BootAlone, BootMode
        <5>2. ~Booted
          BY <4>2, <5>1, Zenon DEF Booted
        <5>3. "run" # "read"
          OBVIOUS
        <5>4. QED
          BY <3>3, <5>1, <5>2, <5>3, Zenon DEF BootInv, BootAlone
      <4>3. QED
        BY <3>1, <4>1, <4>2, Zenon
    <3>4. QED
      BY <3>2, <3>3, Zenon
  <2>2. QED
    BY <2>1, Zenon DEF ReadInv
<1>9. CASE ReadStart
  <2>1. /\ number' = number /\ temp' = [temp EXCEPT ![cur] = number]
        /\ ticked' = [ticked EXCEPT ![cur] = FALSE]
        /\ mode' = [mode EXCEPT ![cur] = "read"]
    BY <1>9, Zenon DEF ReadStart, Enter
  <2>2. ASSUME NEW p \in Proc PROVE (mode[p] = "read" /\ number # temp[p] => ticked[p])'
    <3>1. CASE p = cur
      BY <1>0, <2>1, <3>1, Zenon
    <3>2. CASE p # cur
      BY <1>0, <2>1, <3>2, Zenon DEF ReadInv
    <3>3. QED
      BY <3>1, <3>2
  <2>3. QED
    BY <2>2, Zenon DEF ReadInv
<1>10. CASE ReadReturn
  <2>1. /\ number' = number /\ temp' = [temp EXCEPT ![cur] = 0]
        /\ ticked' = [ticked EXCEPT ![cur] = FALSE]
        /\ mode' = [mode EXCEPT ![cur] = "run"] /\ "run" # "read"
    BY <1>10, Zenon DEF ReadReturn, Enter
  <2>2. ASSUME NEW p \in Proc PROVE (mode[p] = "read" /\ number # temp[p] => ticked[p])'
    <3>1. CASE p = cur
      BY <1>0, <2>1, <3>1, Zenon
    <3>2. CASE p # cur
      BY <1>0, <2>1, <3>2, Zenon DEF ReadInv
    <3>3. QED
      BY <3>1, <3>2
  <2>3. QED
    BY <2>2, Zenon DEF ReadInv
<1>11. CASE UNCHANGED vars
  BY <1>1, <1>11, Zenon DEF vars, clock
<1>12. QED
  BY <1>3, <1>4, <1>5, <1>6, <1>7, <1>8, <1>9, <1>10, <1>11, Zenon
     DEF Next, Handler, Driver, Calls

(* rtc_read returns only after a tick of its own, for every width of the    *)
(* counter, as long as one process uses the clock: another one's rtc_open    *)
(* sets the counter back under the reader.                                   *)
THEOREM ReadCorrect ==
  ASSUME \A u, v \in Users : u = v
  PROVE  Spec => ReadWaitsForTick
<1>1. TypeOK /\ BootInv /\ ReadInv /\ [Next]_vars => ReadInv'
  BY ReadNext
<1>2. Spec => [](TypeOK /\ BootInv /\ ReadInv)
  BY <1>1, TypeInit, TypeNext, BootInit, BootNext, ReadInit, PTL DEF Spec
<1>3. TypeOK /\ ReadInv /\ [Next]_vars
        => \A p \in Proc : mode[p] = "read" /\ mode'[p] = "run" => ticked[p]
  <2> SUFFICES ASSUME TypeOK, ReadInv, [Next]_vars,
                      NEW p \in Proc, mode[p] = "read", mode'[p] = "run"
               PROVE  ticked[p]
    OBVIOUS
  <2>1. cur \in Proc /\ mode \in [Proc -> Mode]
    BY Zenon DEF TypeOK
  <2>2. ModeStep
    BY ModeSteps
  <2>3. \A n : Enter(n) => mode' = [mode EXCEPT ![cur] = n]
    BY Zenon DEF Enter
  <2>4. p = cur
    BY <2>1, <2>2, <2>3, SMT DEF ModeStep
  <2>5. Changed
    BY <2>1, <2>2, <2>3, <2>4, SMT DEF ModeStep, BootMode
  <2>6. QED
    BY <2>4, <2>5, Zenon DEF ReadInv, Changed
<1>4. QED
  BY <1>2, <1>3, PTL DEF Spec, ReadWaitsForTick
-----------------------------------------------------------------------------
(* The clock chip.  Only one process is in the driver, and it has the CPU;  *)
(* at boot and in rtc_write nothing can interrupt it, in rtc_open the        *)
(* clock's own handler does not (rule quiet); so the chip is always where    *)
(* the driver's next port operation expects it.                              *)
LEMMA HzOfRates ==
  /\ Hz(1) = 32768 /\ Hz(2) = 16384 /\ Hz(3) = 8192 /\ Hz(4) = 4096
  /\ Hz(5) = 2048 /\ Hz(6) = 1024 /\ Hz(7) = 512 /\ Hz(8) = 256
  /\ Hz(9) = 128 /\ Hz(10) = 64 /\ Hz(11) = 32 /\ Hz(12) = 16
  /\ Hz(13) = 8 /\ Hz(14) = 4 /\ Hz(15) = 2 /\ Hz(16) = 1
BY SMT DEF Hz

LEMMA HzDoubles ==
  ASSUME NEW r \in 2..16
  PROVE  Hz(r - 1) = 2 * Hz(r)
<1>1. \/ r = 2 \/ r = 3 \/ r = 4 \/ r = 5 \/ r = 6 \/ r = 7 \/ r = 8 \/ r = 9
      \/ r = 10 \/ r = 11 \/ r = 12 \/ r = 13 \/ r = 14 \/ r = 15 \/ r = 16
  BY SMT
<1>2. QED
  BY <1>1, HzOfRates, SMT

(* The rates the drivers set, for the frequencies they are set for. *)
LEMMA RatesDouble ==
  /\ Hz(INIT_RATE) = 2 * LOWEST_FREQ
  /\ \A f : Found(f) # {} => Hz(RateFor(f)) = 2 * f
<1>1. Hz(INIT_RATE) = 2 * LOWEST_FREQ
  BY HzOfRates, SMT DEF INIT_RATE, LOWEST_FREQ
<1>2. ASSUME NEW f, Found(f) # {} PROVE Hz(RateFor(f)) = 2 * f
  <2>1. PICK r : r = RateFor(f) + 1 /\ r \in 2..16 /\ Hz(r) = f /\ RateFor(f) \in Rate
    BY <1>2, RateTypes, Zenon DEF Found
  <2>2. RateFor(f) = r - 1
    BY <2>1, SMT DEF Rate
  <2>3. QED
    BY <2>1, <2>2, HzDoubles, Zenon
<1>3. QED
  BY <1>1, <1>2

Exclusive == {"pic", "keyboard", "rtc", "write"}

BootAsked == mode[First] \in {"pic", "keyboard"} => asked = LOWEST_FREQ
DriverAlone == \A p \in Proc : Programming(p) => p = cur
DriverReady == \A p \in Proc : ~Programming(p) => port[p] = 1 /\ wanted[p] = INIT_RATE
Uninterrupted == /\ mode[cur] \in Exclusive => Idle /\ ~eflags_if
                 /\ mode[cur] = "open" => ~At(RTC_LINE, "enter")
RateAsked == Programming(cur) => Hz(wanted[cur]) = 2 * asked
PortStep ==
  Programming(cur) =>
    /\ port[cur] \in {2, 4} => cmos.index = "A"
    /\ port[cur] \in {3, 4} => prev[cur] = "A"
    /\ port[cur] \in 5..9 => cmos.rate = wanted[cur]
    /\ port[cur] \in {6, 8} => cmos.index = "B"
    /\ port[cur] \in {7, 8} => prev[cur] = "B"
    /\ port[cur] = 9 => cmos.pie
ChipSound == cmos.runs /\ cmos.mode

ClockInv == /\ BootAsked /\ DriverAlone /\ DriverReady /\ Uninterrupted
            /\ RateAsked /\ PortStep /\ ChipSound /\ ClockProgrammed

LEMMA ClockInit == Init => ClockInv
<1> SUFFICES ASSUME Init PROVE ClockInv
  OBVIOUS
<1>1. /\ mode = [p \in Proc |-> IF p = First THEN "pic" ELSE "run"]
      /\ port = [p \in Proc |-> 1] /\ wanted = [p \in Proc |-> INIT_RATE]
      /\ stack = [p \in Proc |-> <<>>] /\ cur = First /\ asked = LOWEST_FREQ
      /\ eflags_if = FALSE
  BY SMT DEF Init
<1>2. First \in Proc /\ mode[First] = "pic" /\ \A p \in Proc : ~Programming(p)
  BY <1>1, InterruptsAssumption, SMT DEF Programming
<1>3. BootAsked /\ DriverAlone /\ DriverReady /\ RateAsked /\ PortStep
  BY <1>1, <1>2, Zenon DEF BootAsked, DriverAlone, DriverReady, RateAsked, PortStep
<1>4. Uninterrupted
  BY <1>1, <1>2, SMT DEF Uninterrupted, Idle
<1>5. ChipSound
  <2>1. AtReset.runs /\ AtReset.mode
    BY Zenon DEF AtReset
  <2>2. CASE cmos = AtReset
    BY <2>1, <2>2 DEF ChipSound
  <2>3. CASE cmos = [AtReset EXCEPT !.flag = TRUE]
    BY <2>3, Zenon DEF ChipSound, AtReset
  <2>4. QED
    BY <2>2, <2>3, Zenon DEF Init
<1>6. ClockProgrammed
  BY <1>2, Zenon DEF ClockProgrammed
<1>7. QED
  BY <1>3, <1>4, <1>5, <1>6 DEF ClockInv

(* A step of somebody else: the driver's variables, and of the chip what it *)
(* was set to, stay.                                                          *)
LEMMA ClockKept ==
  ASSUME ClockInv, mode' = mode, port' = port, prev' = prev, wanted' = wanted,
         asked' = asked, cur' = cur,
         Programming(cur) => cmos'.index = cmos.index,
         cmos'.rate = cmos.rate, cmos.pie => cmos'.pie, ChipSound => ChipSound',
         mode[cur] \in Exclusive => stack' = stack /\ (eflags_if' => eflags_if),
         mode[cur] = "open" /\ ~At(RTC_LINE, "enter") => ~At(RTC_LINE, "enter")'
  PROVE  ClockInv'
<1>1. \A p : Programming(p)' <=> Programming(p)
  BY Zenon DEF Programming
<1>2. \A p : InDriver(p)' <=> InDriver(p)
  BY <1>1, Zenon DEF InDriver
<1>3. BootAsked' /\ DriverAlone' /\ DriverReady' /\ RateAsked'
  BY <1>1, Zenon DEF ClockInv, BootAsked, DriverAlone, DriverReady, RateAsked
<1>4. Uninterrupted'
  <2>1. mode'[cur'] = mode[cur]
    BY Zenon
  <2>2. mode[cur] \in Exclusive => Idle' /\ ~eflags_if'
    BY Zenon DEF ClockInv, Uninterrupted, Idle
  <2>3. mode[cur] = "open" => ~At(RTC_LINE, "enter")'
    BY Zenon DEF ClockInv, Uninterrupted
  <2>4. QED
    BY <2>1, <2>2, <2>3, Zenon DEF Uninterrupted
<1>5. PortStep'
  BY <1>1, Zenon DEF ClockInv, PortStep
<1>6. ClockProgrammed'
  <2>1. SUFFICES ASSUME mode'[First] \notin {"pic", "keyboard", "rtc"},
                        \A p \in Proc : ~InDriver(p)'
                 PROVE  cmos'.runs /\ cmos'.pie /\ cmos'.mode /\ Hz(cmos'.rate) = 2 * asked'
    BY Zenon DEF ClockProgrammed
  <2>2. \A p \in Proc : ~InDriver(p)
    BY <1>2, <2>1, Zenon
  <2>3. cmos.runs /\ cmos.pie /\ cmos.mode /\ Hz(cmos.rate) = 2 * asked
    BY <2>1, <2>2, Zenon DEF ClockInv, ClockProgrammed
  <2>4. QED
    BY <2>3, Zenon DEF ClockInv, ChipSound
<1>7. QED
  BY <1>3, <1>4, <1>5, <1>6, Zenon DEF ClockInv

(* The driver's port operations, one after the other. *)
LEMMA SelectKeeps ==
  ASSUME NEW c \in Chip, NEW r, c.runs, c.mode
  PROVE  /\ Selected(c, r).index = r /\ Selected(c, r).rate = c.rate
         /\ Selected(c, r).runs /\ Selected(c, r).mode
BY Zenon DEF Selected, Chip

LEMMA GetKeeps ==
  ASSUME NEW c \in Chip
  PROVE  /\ AfterGet(c).rate = c.rate
         /\ AfterGet(c).runs = c.runs /\ AfterGet(c).pie = c.pie /\ AfterGet(c).mode = c.mode
BY Zenon DEF AfterGet, Chip

LEMMA PutIntoA ==
  ASSUME NEW c \in Chip, NEW rate, c.index = "A", c.runs, c.mode
  PROVE  /\ AfterPut(c, "A", rate).rate = rate
         /\ AfterPut(c, "A", rate).runs /\ AfterPut(c, "A", rate).mode
<1>1. AfterPut(c, "A", rate) = [c EXCEPT !.rate = rate, !.runs = @ /\ "A" = "A"]
  BY Zenon DEF AfterPut
<1>2. QED
  BY <1>1, Zenon DEF Chip

LEMMA PutIntoB ==
  ASSUME NEW c \in Chip, NEW rate, c.index = "B", c.runs, c.mode
  PROVE  /\ AfterPut(c, "B", rate).rate = c.rate /\ AfterPut(c, "B", rate).pie
         /\ AfterPut(c, "B", rate).runs /\ AfterPut(c, "B", rate).mode
<1>1. "A" # "B"
  OBVIOUS
<1>2. AfterPut(c, "B", rate) = [c EXCEPT !.pie = TRUE, !.mode = @ /\ "B" = "B"]
  BY <1>1, Zenon DEF AfterPut
<1>3. QED
  BY <1>2, Zenon DEF Chip

LEMMA ClockPort ==
  ASSUME TypeOK, ClockInv, DoPort
  PROVE  ClockInv'
<1> DEFINE n == port[cur]
           old == prev[cur]
           rate == wanted[cur]
<1>1. /\ n \in 1..8 /\ Programming(cur) /\ Idle
      /\ port' = [port EXCEPT ![cur] = @ + 1]
      /\ \/ n \in {1, 3} /\ cmos' = Selected(cmos, "A") /\ prev' = prev
         \/ n \in {5, 7} /\ cmos' = Selected(cmos, "B") /\ prev' = prev
         \/ n \in {2, 6} /\ cmos' = AfterGet(cmos) /\ prev' = [prev EXCEPT ![cur] = cmos.index]
         \/ n \in {4, 8} /\ cmos' = AfterPut(cmos, old, rate) /\ prev' = prev
  BY DoPortCases, Zenon
<1>2. /\ mode' = mode /\ cur' = cur /\ wanted' = wanted /\ asked' = asked
      /\ stack' = stack /\ eflags_if' = eflags_if
  BY Zenon DEF DoPort
<1>3. /\ cur \in Proc /\ cmos \in Chip /\ port \in [Proc -> 1..Len(PortOps) + 1]
      /\ prev \in [Proc -> Register]
  BY Zenon DEF TypeOK
<1>4. /\ n \in {2, 4} => cmos.index = "A"
      /\ n \in {3, 4} => old = "A"
      /\ n \in 5..9 => cmos.rate = rate
      /\ n \in {6, 8} => cmos.index = "B"
      /\ n \in {7, 8} => old = "B"
      /\ cmos.runs /\ cmos.mode
  BY <1>1, Zenon DEF ClockInv, PortStep, ChipSound
<1>5. /\ port'[cur] = n + 1
      /\ \A p \in Proc : p # cur => port'[p] = port[p]
  BY <1>1, <1>3, SMT
<1>6. /\ n + 1 \in {2, 4} => cmos'.index = "A"
      /\ n + 1 \in {3, 4} => prev'[cur] = "A"
      /\ n + 1 \in 5..9 => cmos'.rate = rate
      /\ n + 1 \in {6, 8} => cmos'.index = "B"
      /\ n + 1 \in {7, 8} => prev'[cur] = "B"
      /\ n + 1 = 9 => cmos'.pie
      /\ cmos'.runs /\ cmos'.mode
  <2> HIDE DEF n, old, rate
  <2>1. \/ n = 1 \/ n = 2 \/ n = 3 \/ n = 4 \/ n = 5 \/ n = 6 \/ n = 7 \/ n = 8
    BY <1>1, SMT
  <2>2. CASE n \in {1, 3}
    <3>1. cmos' = Selected(cmos, "A") /\ prev' = prev
      BY <1>1, <2>2, SMT
    <3>2. cmos'.index = "A" /\ cmos'.runs /\ cmos'.mode
      BY <1>3, <1>4, <3>1, SelectKeeps, Zenon
    <3>3. prev'[cur] = old
      BY <3>1 DEF old
    <3>4. QED
      BY <1>4, <2>2, <3>2, <3>3, SMT
  <2>3. CASE n \in {5, 7}
    <3>1. cmos' = Selected(cmos, "B") /\ prev' = prev
      BY <1>1, <2>3, SMT
    <3>2. cmos'.index = "B" /\ cmos'.runs /\ cmos'.mode /\ cmos'.rate = cmos.rate
      BY <1>3, <1>4, <3>1, SelectKeeps, Zenon
    <3>3. prev'[cur] = old
      BY <3>1 DEF old
    <3>4. QED
      BY <1>4, <2>3, <3>2, <3>3, SMT
  <2>4. CASE n \in {2, 6}
    <3>1. cmos' = AfterGet(cmos) /\ prev' = [prev EXCEPT ![cur] = cmos.index]
      BY <1>1, <2>4, SMT
    <3>2. cmos'.runs /\ cmos'.mode /\ cmos'.rate = cmos.rate
      BY <1>3, <1>4, <3>1, GetKeeps, Zenon
    <3>3. prev'[cur] = cmos.index
      BY <1>3, <3>1, Zenon
    <3>4. QED
      BY <1>4, <2>4, <3>2, <3>3, SMT
  <2>5. CASE n = 4
    <3>1. cmos' = AfterPut(cmos, old, rate)
      BY <1>1, <2>5, SMT
    <3>2. cmos.index = "A" /\ old = "A"
      BY <1>4, <2>5, SMT
    <3>3. cmos'.rate = rate /\ cmos'.runs /\ cmos'.mode
      BY <1>3, <1>4, <3>1, <3>2, PutIntoA, Zenon
    <3>4. QED
      BY <2>5, <3>3, SMT
  <2>6. CASE n = 8
    <3>1. cmos' = AfterPut(cmos, old, rate)
      BY <1>1, <2>6, SMT
    <3>2. cmos.index = "B" /\ old = "B" /\ cmos.rate = rate
      BY <1>4, <2>6, SMT
    <3>3. cmos'.rate = rate /\ cmos'.pie /\ cmos'.runs /\ cmos'.mode
      BY <1>3, <1>4, <3>1, <3>2, PutIntoB, Zenon
    <3>4. QED
      BY <2>6, <3>3, SMT
  <2>7. QED
    BY <2>1, <2>2, <2>3, <2>4, <2>5, <2>6, SMT
<1>7. PortStep' /\ ChipSound'
  BY <1>2, <1>5, <1>6, Zenon DEF PortStep, ChipSound
<1>8. /\ BootAsked' /\ DriverAlone' /\ RateAsked' /\ Uninterrupted' /\ DriverReady'
  <2>1. \A p : Programming(p)' <=> Programming(p)
    BY <1>2, Zenon DEF Programming
  <2>2. BootAsked' /\ DriverAlone' /\ RateAsked'
    BY <1>2, <2>1, Zenon DEF ClockInv, BootAsked, DriverAlone, RateAsked
  <2>3. Uninterrupted'
    BY <1>1, <1>2, Zenon DEF ClockInv, Uninterrupted, At, Idle
  <2>4. DriverReady'
    BY <1>1, <1>2, <1>5, <2>1, Zenon DEF ClockInv, DriverReady
  <2>5. QED
    BY <2>2, <2>3, <2>4
<1>9. ClockProgrammed'
  <2>1. Programming(cur)'
    BY <1>1, <1>2, Zenon DEF Programming
  <2>2. QED
    BY <1>2, <1>3, <2>1, Zenon DEF ClockProgrammed, InDriver
<1>10. QED
  BY <1>7, <1>8, <1>9 DEF ClockInv

(* The end of the driver: the chip has the rate, and it is the one asked    *)
(* for.                                                                       *)
LEMMA ClockDone ==
  ASSUME TypeOK, BootInv, ClockInv, InitRtcDone \/ WriteDone
  PROVE  ClockInv'
<1> DEFINE after == IF mode[cur] = "rtc" THEN "mouse" ELSE "run"
<1>1. /\ Idle /\ port[cur] = Len(PortOps) + 1 /\ mode[cur] \in {"rtc", "open", "write"}
      /\ mode' = [mode EXCEPT ![cur] = after]
      /\ LocalsDie
      /\ cmos' = cmos /\ cur' = cur /\ asked' = asked /\ stack' = stack
  <2>1. CASE InitRtcDone
    BY <2>1, Zenon DEF InitRtcDone, PortsDone, Enter
  <2>2. CASE WriteDone
    <3>1. "write" # "rtc"
      OBVIOUS
    <3>2. QED
      BY <2>2, <3>1, Zenon DEF WriteDone, PortsDone, Enter
  <2>3. QED
    BY <2>1, <2>2
<1>2. /\ cur \in Proc /\ First \in Proc /\ mode \in [Proc -> Mode]
      /\ port \in [Proc -> 1..Len(PortOps) + 1]
      /\ wanted \in [Proc -> Rate]
  BY InterruptsAssumption, Zenon DEF TypeOK
<1>3. /\ mode'[cur] \in {"mouse", "run"}
      /\ \A p \in Proc : p # cur => mode'[p] = mode[p]
      /\ port'[cur] = 1 /\ wanted'[cur] = INIT_RATE
      /\ \A p \in Proc : p # cur => port'[p] = port[p] /\ wanted'[p] = wanted[p]
  BY <1>1, <1>2, SMT DEF LocalsDie
<1>4. Programming(cur)
  BY <1>1, Zenon DEF Programming
<1>5. \A p \in Proc : ~Programming(p)'
  <2>1. ASSUME NEW p \in Proc, p # cur PROVE mode'[p] \notin {"rtc", "open", "write"}
    BY <1>3, <2>1, Zenon DEF ClockInv, DriverAlone, Programming
  <2>2. mode'[cur] \notin {"rtc", "open", "write"}
    BY <1>3, SMT
  <2>3. QED
    BY <2>1, <2>2, Zenon DEF Programming
<1>6. BootAsked'
  <2>1. mode'[First] \in {"pic", "keyboard"} => mode[First] \in {"pic", "keyboard"}
    BY <1>2, <1>3, SMT
  <2>2. QED
    BY <1>1, <2>1, Zenon DEF ClockInv, BootAsked
<1>7. DriverAlone' /\ RateAsked' /\ PortStep'
  BY <1>1, <1>2, <1>5, Zenon DEF DriverAlone, RateAsked, PortStep
<1>8. DriverReady'
  <2>1. ASSUME NEW p \in Proc PROVE port'[p] = 1 /\ wanted'[p] = INIT_RATE
    <3>1. CASE p = cur
      BY <1>3, <3>1
    <3>2. CASE p # cur
      BY <1>3, <3>2, Zenon DEF ClockInv, DriverAlone, DriverReady
    <3>3. QED
      BY <3>1, <3>2
  <2>2. QED
    BY <2>1, Zenon DEF DriverReady
<1>9. Uninterrupted'
  BY <1>1, <1>3, SMT DEF Uninterrupted, Exclusive
<1>10. ChipSound' /\ ClockProgrammed'
  <2>1. port[cur] = 9
    BY <1>1, PortOpsKnown, SMT
  <2>2. cmos.pie /\ cmos.rate = wanted[cur]
    <3>1. 9 \in 5..9
      BY SMT
    <3>2. QED
      BY <1>4, <2>1, <3>1, Zenon DEF ClockInv, PortStep
  <2>3. Hz(cmos.rate) = 2 * asked
    BY <1>4, <2>2, Zenon DEF ClockInv, RateAsked
  <2>4. QED
    BY <1>1, <2>2, <2>3, Zenon DEF ClockInv, ChipSound, ClockProgrammed
<1>11. QED
  BY <1>6, <1>7, <1>8, <1>9, <1>10 DEF ClockInv

(* Every other change of a mode: into the driver or past it. *)
LEMMA ClockModes ==
  ASSUME TypeOK, BootInv, ClockInv, [Next]_vars,
         Boot \/ Calls \/ ReadReturn \/ Exception
  PROVE  ClockInv'
<1>1. /\ cur \in Proc /\ First \in Proc /\ mode \in [Proc -> Mode]
      /\ wanted \in [Proc -> Rate]
  BY InterruptsAssumption, Zenon DEF TypeOK
<1>2. cmos' = cmos /\ cur' = cur /\ stack' = stack /\ port' = port /\ Idle
  BY Zenon DEF Boot, BootPic, init_keyboard, init_mouse, init_pit, BootSti, BootEnable,
     Calls, rtc_open, ReadStart, rtc_write, Fault, ReadReturn, Exception, MaskAndSpin, In, clock
<1>3. ChipSound' 
  BY <1>2, Zenon DEF ClockInv, ChipSound
<1>4. ASSUME NEW m, mode' = [mode EXCEPT ![cur] = m],
             mode[cur] \notin {"rtc", "open", "write"},
             m \notin {"open", "write", "rtc", "keyboard", "pic"},
             wanted' = wanted,
             asked' = asked \/ m = "hung",
             mode[cur] # "keyboard", mode[cur] # "pic",
             m = "hung" \/ mode[cur] # "hung",
             m = "hung" => Booted
      PROVE  ClockInv'
  <2>1. mode'[cur] = m /\ \A p \in Proc : p # cur => mode'[p] = mode[p]
    BY <1>1, <1>4, SMT
  <2>2. \A p \in Proc : ~Programming(p) /\ ~Programming(p)'
    <3>1. ~Programming(cur) /\ ~Programming(cur)'
      BY <1>2, <1>4, <2>1, Zenon DEF Programming
    <3>2. \A p \in Proc : ~Programming(p)
      BY <3>1, Zenon DEF ClockInv, DriverAlone
    <3>3. \A p \in Proc : p # cur => (Programming(p)' <=> Programming(p))
      BY <2>1, Zenon DEF Programming
    <3>4. mode'[cur] \notin {"rtc", "open", "write"}
      BY <1>4, <2>1, SMT
    <3>5. QED
      BY <3>2, <3>3, <3>4, Zenon DEF Programming
  <2>3. BootAsked'
    <3>1. mode'[First] \in {"pic", "keyboard"} => mode[First] \in {"pic", "keyboard"}
      BY <1>1, <1>4, <2>1, SMT
    <3>2. mode[First] \in {"pic", "keyboard"} => ~Booted
      BY SMT DEF Booted
    <3>3. QED
      BY <1>4, <3>1, <3>2, Zenon DEF ClockInv, BootAsked
  <2>4. DriverAlone' /\ DriverReady' /\ RateAsked' /\ PortStep'
    BY <1>1, <1>2, <1>4, <2>2, Zenon DEF ClockInv, DriverAlone, DriverReady, RateAsked, PortStep
  <2>5. Uninterrupted'
    BY <1>2, <1>4, <2>1, SMT DEF Uninterrupted, Exclusive
  <2>6. ClockProgrammed'
    <3>1. SUFFICES ASSUME mode'[First] \notin {"pic", "keyboard", "rtc"},
                          \A p \in Proc : ~InDriver(p)'
                   PROVE  cmos'.runs /\ cmos'.pie /\ cmos'.mode /\ Hz(cmos'.rate) = 2 * asked'
      BY Zenon DEF ClockProgrammed
    <3>2. \A p \in Proc : mode'[p] # "hung"
      BY <3>1, Zenon DEF InDriver
    <3>3. m # "hung" /\ asked' = asked
      BY <1>1, <1>4, <2>1, <3>2, Zenon
    <3>4. \A p \in Proc : mode[p] # "hung"
      BY <1>4, <2>1, <3>2, <3>3, SMT
    <3>5. mode[First] \notin {"pic", "keyboard", "rtc"}
      BY <1>1, <1>4, <2>1, <3>1, SMT
    <3>6. \A p \in Proc : ~InDriver(p)
      BY <2>2, <3>4, Zenon DEF InDriver
    <3>7. QED
      BY <1>2, <3>3, <3>5, <3>6, Zenon DEF ClockInv, ClockProgrammed
  <2>7. QED
    BY <1>3, <2>3, <2>4, <2>5, <2>6 DEF ClockInv
<1>5. ASSUME NEW m \in {"keyboard", "rtc", "open", "write"},
             mode' = [mode EXCEPT ![cur] = m],
             mode[cur] = "run" \/ (mode[cur] = "pic" /\ m = "keyboard")
               \/ (mode[cur] = "keyboard" /\ m = "rtc"),
             mode[cur] = "run" => Booted /\ m \in {"open", "write"},
             \A p \in Proc : p # cur => wanted'[p] = wanted[p],
             m # "write" => wanted' = wanted,
             m = "open" => asked' = LOWEST_FREQ,
             m \in {"keyboard", "rtc"} => asked' = asked,
             m = "write" => Hz(wanted'[cur]) = 2 * asked',
             eflags_if' => eflags_if,
             m = "write" => ~eflags_if'
      PROVE  ClockInv'
  <2>1. mode'[cur] = m /\ \A p \in Proc : p # cur => mode'[p] = mode[p]
    BY <1>1, <1>5, SMT
  <2>2. mode[cur] \notin {"rtc", "open", "write"}
    BY <1>5, SMT
  <2>3. \A p \in Proc : ~Programming(p)
    BY <2>2, Zenon DEF ClockInv, DriverAlone, Programming
  <2>4. \A p \in Proc : p # cur => ~Programming(p)'
    BY <2>1, <2>3, Zenon DEF Programming
  <2>5. port[cur] = 1 /\ wanted[cur] = INIT_RATE
    BY <1>1, <2>3, Zenon DEF ClockInv, DriverReady
  <2>6. mode[cur] \in {"pic", "keyboard"} => cur = First
    BY <1>1, Zenon DEF BootInv, BootAlone, BootMode
  <2>7. BootAsked'
    <3>1. CASE mode[cur] = "run"
      <4>1. mode'[First] \notin {"pic", "keyboard"}
        BY <1>1, <1>5, <2>1, <3>1, SMT DEF Booted
      <4>2. QED
        BY <4>1, Zenon DEF BootAsked
    <3>2. CASE mode[cur] # "run"
      <4>1. mode[First] \in {"pic", "keyboard"} /\ asked' = asked
        BY <1>5, <2>6, <3>2, SMT
      <4>2. QED
        BY <4>1, Zenon DEF ClockInv, BootAsked
    <3>3. QED
      BY <3>1, <3>2
  <2>8. DriverAlone' /\ DriverReady'
    <3>1. ASSUME NEW p \in Proc, ~Programming(p)' PROVE port'[p] = 1 /\ wanted'[p] = INIT_RATE
      <4>1. CASE p = cur
        <5>1. m \notin {"rtc", "open", "write"}
          BY <2>1, <3>1, <4>1, Zenon DEF Programming
        <5>2. wanted' = wanted
          BY <1>5, <5>1, SMT
        <5>3. QED
          BY <1>2, <2>5, <4>1, <5>2, Zenon
      <4>2. CASE p # cur
        BY <1>2, <1>5, <2>3, <4>2, Zenon DEF ClockInv, DriverReady
      <4>3. QED
        BY <4>1, <4>2
    <3>2. QED
      BY <1>2, <2>4, <3>1, Zenon DEF DriverAlone, DriverReady
  <2>9. Uninterrupted'
    <3>1. m \in Exclusive => ~eflags_if'
      <4>1. CASE mode[cur] = "run"
        BY <1>5, <4>1, SMT DEF Exclusive
      <4>2. CASE mode[cur] # "run"
        <5>1. mode[cur] \in Exclusive
          BY <1>5, <4>2, SMT DEF Exclusive
        <5>2. QED
          BY <1>5, <5>1, Zenon DEF ClockInv, Uninterrupted
      <4>3. QED
        BY <4>1, <4>2
    <3>2. Idle' /\ ~At(RTC_LINE, "enter")'
      BY <1>2, Zenon DEF Idle, At
    <3>3. QED
      BY <1>2, <2>1, <3>1, <3>2, Zenon DEF Uninterrupted
  <2>10. RateAsked'
    <3>1. SUFFICES ASSUME Programming(cur)' PROVE Hz(wanted'[cur]) = 2 * asked'
      BY <1>2, Zenon DEF RateAsked
    <3>2. m \in {"rtc", "open", "write"}
      BY <1>2, <2>1, <3>1, Zenon DEF Programming
    <3>3. CASE m = "write"
      BY <1>5, <3>3
    <3>4. CASE m = "open"
      <4>1. wanted' = wanted /\ asked' = LOWEST_FREQ
        BY <1>5, <3>4, SMT
      <4>2. QED
        BY <2>5, <4>1, RatesDouble, Zenon
    <3>5. CASE m = "rtc"
      <4>1. wanted' = wanted /\ asked' = asked /\ mode[cur] = "keyboard"
        BY <1>5, <3>5, SMT
      <4>2. asked = LOWEST_FREQ
        BY <2>6, <4>1, Zenon DEF ClockInv, BootAsked
      <4>3. QED
        BY <2>5, <4>1, <4>2, RatesDouble, Zenon
    <3>6. QED
      BY <3>2, <3>3, <3>4, <3>5, Zenon
  <2>11. PortStep'
    BY <1>2, <2>5, SMT DEF PortStep
  <2>12. ClockProgrammed'
    <3>1. CASE m = "keyboard" \/ m = "rtc"
      <4>1. mode'[First] \in {"keyboard", "rtc"}
        BY <1>5, <2>1, <2>6, <3>1, SMT
      <4>2. QED
        BY <4>1, Zenon DEF ClockProgrammed
    <3>2. CASE m = "open" \/ m = "write"
      <4>1. Programming(cur)'
        BY <1>2, <2>1, <3>2, Zenon DEF Programming
      <4>2. QED
        BY <1>1, <1>2, <4>1, Zenon DEF ClockProgrammed, InDriver
    <3>3. QED
      BY <3>1, <3>2, Zenon
  <2>13. QED
    BY <1>3, <2>7, <2>8, <2>9, <2>10, <2>11, <2>12 DEF ClockInv
<1>6. CASE BootPic
  <2>1. /\ mode' = [mode EXCEPT ![cur] = "keyboard"] /\ mode[cur] = "pic"
        /\ wanted' = wanted /\ asked' = asked /\ eflags_if' = eflags_if
    BY <1>6, Zenon DEF BootPic, In, Enter, clock
  <2>2. "keyboard" \notin {"rtc", "open", "write"} /\ "pic" # "run"
    OBVIOUS
  <2>3. QED
    BY <1>5, <2>1, <2>2, Zenon
<1>7. CASE init_keyboard
  <2>1. /\ mode' = [mode EXCEPT ![cur] = "rtc"] /\ mode[cur] = "keyboard"
        /\ wanted' = wanted /\ asked' = asked /\ eflags_if' = eflags_if
    BY <1>7, Zenon DEF init_keyboard, BootEnable, In, Enter, clock
  <2>2. "rtc" \notin {"open", "write"} /\ "keyboard" # "run"
    OBVIOUS
  <2>3. QED
    BY <1>5, <2>1, <2>2, Zenon
<1>8. CASE init_mouse \/ BootSti \/ init_pit \/ ReadStart \/ Fault \/ ReadReturn \/ Exception
  <2>1. /\ mode[cur] \in {"mouse", "sti", "pit", "run", "read", "faulted"}
        /\ \E m \in {"sti", "pit", "run", "read", "faulted", "dead"} :
             mode' = [mode EXCEPT ![cur] = m]
        /\ wanted' = wanted /\ asked' = asked
    BY <1>8, Zenon DEF init_mouse, BootSti, init_pit, BootEnable, ReadStart, Fault, ReadReturn,
                       Exception, MaskAndSpin, In, Enter, clock
  <2>2. PICK m \in {"sti", "pit", "run", "read", "faulted", "dead"} :
          mode' = [mode EXCEPT ![cur] = m]
    BY <2>1
  <2>3. /\ m \notin {"open", "write", "rtc", "keyboard", "pic"} /\ m # "hung"
        /\ mode[cur] \notin {"rtc", "open", "write"}
        /\ mode[cur] # "keyboard" /\ mode[cur] # "pic" /\ mode[cur] # "hung"
    BY <2>1, <2>2, SMT
  <2>4. QED
    BY <1>4, <2>1, <2>2, <2>3, Zenon
<1>9. CASE rtc_open
  <2>1. /\ mode' = [mode EXCEPT ![cur] = "open"] /\ mode[cur] = "run" /\ Booted
        /\ wanted' = wanted /\ asked' = LOWEST_FREQ /\ eflags_if' = eflags_if
    BY <1>9, Zenon DEF rtc_open, In, Enter
  <2>2. "open" \notin {"write", "keyboard", "rtc"}
    OBVIOUS
  <2>3. QED
    BY <1>5, <2>1, <2>2, Zenon
<1>10. ASSUME NEW f \in Freqs, rtc_write(f) PROVE ClockInv'
  <2>1. mode[cur] = "run" /\ Booted /\ eflags_if' = FALSE /\ asked' = f
    BY <1>10, Zenon DEF rtc_write, In, IfWhileWriting
  <2>2. CASE Found(f) = {}
    <3>1. mode' = [mode EXCEPT ![cur] = "hung"] /\ wanted' = wanted
      BY <1>10, <2>2, Zenon DEF rtc_write, Enter
    <3>2. /\ "hung" \notin {"open", "write", "rtc", "keyboard", "pic"}
          /\ mode[cur] \notin {"rtc", "open", "write"}
          /\ mode[cur] # "keyboard" /\ mode[cur] # "pic"
      BY <2>1, SMT
    <3>3. QED
      BY <1>4, <2>1, <3>1, <3>2, Zenon
  <2>3. CASE Found(f) # {}
    <3>1. /\ mode' = [mode EXCEPT ![cur] = "write"]
          /\ wanted' = [wanted EXCEPT ![cur] = RateFor(f)]
      BY <1>10, <2>3, Zenon DEF rtc_write, Enter
    <3>2. wanted'[cur] = RateFor(f) /\ \A p \in Proc : p # cur => wanted'[p] = wanted[p]
      BY <1>1, <3>1, SMT
    <3>3. Hz(wanted'[cur]) = 2 * asked'
      BY <2>1, <2>3, <3>2, RatesDouble, Zenon
    <3>4. "write" \notin {"open", "keyboard", "rtc"}
      OBVIOUS
    <3>5. QED
      BY <1>5, <2>1, <3>1, <3>2, <3>3, <3>4, Zenon
  <2>4. QED
    BY <2>2, <2>3
<1>11. QED
  BY <1>6, <1>7, <1>8, <1>9, <1>10, Zenon DEF Boot, Calls

(* A terminal key finds nobody in the driver. *)
LEMMA ClockSwitch ==
  ASSUME "quiet" \in Rules, TypeOK, LineInv, BootInv, ClockInv,
         NEW q \in Proc, TerminalKey(q)
  PROVE  ClockInv'
<1>1. /\ At(KEYBOARD, "enter") /\ Booted /\ q # cur /\ cur' = q /\ mode[cur] # "open"
      /\ mode' = mode /\ cmos' = cmos /\ stack' = Moved("eoi")
      /\ port' = port /\ prev' = prev /\ wanted' = wanted /\ asked' = asked
      /\ cur \in Proc
  BY Zenon DEF TerminalKey, clock, TypeOK
<1>2. mode[cur] \notin Exclusive
  BY <1>1, Zenon DEF ClockInv, Uninterrupted, At, Idle
<1>3. ~Programming(cur)
  BY <1>1, <1>2, SMT DEF Programming, Exclusive
<1>4. \A p \in Proc : ~Programming(p)
  BY <1>3, Zenon DEF ClockInv, DriverAlone
<1>5. \A p : (Programming(p)' <=> Programming(p)) /\ (InDriver(p)' <=> InDriver(p))
  BY <1>1, Zenon DEF Programming, InDriver
<1>6. BootAsked' /\ DriverAlone' /\ DriverReady' /\ RateAsked' /\ PortStep' /\ ChipSound'
  <2>1. BootAsked' /\ ChipSound'
    BY <1>1, Zenon DEF ClockInv, BootAsked, ChipSound
  <2>2. DriverAlone' /\ DriverReady'
    BY <1>1, <1>4, <1>5, Zenon DEF ClockInv, DriverAlone, DriverReady
  <2>3. mode'[cur'] \notin {"rtc", "open", "write"}
    BY <1>1, <1>4, Zenon DEF Programming
  <2>4. RateAsked' /\ PortStep'
    BY <2>3, Zenon DEF RateAsked, PortStep, Programming
  <2>5. QED
    BY <2>1, <2>2, <2>4
<1>7. Uninterrupted'
  <2>1. mode[q] \notin Exclusive
    <3>1. mode[q] \notin {"rtc", "write"}
      BY <1>4, SMT DEF Programming
    <3>2. mode[q] \in {"pic", "keyboard"} => q = First
      BY Zenon DEF BootInv, BootAlone, BootMode
    <3>3. mode[First] \notin {"pic", "keyboard"}
      BY <1>1, SMT DEF Booted
    <3>4. QED
      BY <3>1, <3>2, <3>3, SMT DEF Exclusive
  <2>2. mode[q] # "open"
    BY <1>4, Zenon DEF Programming
  <2>3. QED
    BY <1>1, <2>1, <2>2, Zenon DEF Uninterrupted
<1>8. ClockProgrammed'
  BY <1>1, <1>5, Zenon DEF ClockInv, ClockProgrammed
<1>9. QED
  BY <1>6, <1>7, <1>8 DEF ClockInv

LEMMA ClockNext ==
  ASSUME "quiet" \in Rules, TypeOK, LineInv, BootInv, ClockInv, [Next]_vars
  PROVE  ClockInv'
<1> USE DevicesKnown
<1>0. cmos \in Chip /\ cur \in Proc /\ stack \in [Proc -> Seq(Frame)]
  BY Zenon DEF TypeOK
<1>1. ASSUME NEW i \in Devices, Request(i) PROVE ClockInv'
  BY <1>1, ClockKept, Zenon DEF Request, clock, ChipSound, At, Top
<1>2. ASSUME NEW i \in Devices, Deliver(i) PROVE ClockInv'
  <2>1. /\ mode' = mode /\ cmos' = cmos /\ cur' = cur /\ eflags_if
        /\ port' = port /\ prev' = prev /\ wanted' = wanted /\ asked' = asked
        /\ stack' = [stack EXCEPT ![cur] = Append(@, [irq |-> i, at |-> "enter"])]
        /\ i = RTC_LINE => mode[cur] # "open"
    BY <1>2, Zenon DEF Deliver, clock
  <2>2. mode[cur] \notin Exclusive
    BY <2>1, Zenon DEF ClockInv, Uninterrupted
  <2>3. stack'[cur][Len(stack'[cur])].irq = i
    BY <1>0, <2>1, FramePushed, SMT
  <2>4. mode[cur] = "open" => ~At(RTC_LINE, "enter")'
    BY <2>1, <2>3, Zenon DEF At, Top
  <2>5. QED
    BY <2>1, <2>2, <2>4, ClockKept, Zenon DEF ChipSound
<1>3. CASE Period
  <2>1. /\ mode' = mode /\ cur' = cur /\ stack' = stack /\ eflags_if' = eflags_if
        /\ port' = port /\ prev' = prev /\ wanted' = wanted /\ asked' = asked
        /\ cmos' = [cmos EXCEPT !.flag = TRUE]
    BY <1>3, Zenon DEF Period, clock
  <2>2. /\ cmos'.index = cmos.index /\ cmos'.rate = cmos.rate
        /\ cmos'.runs = cmos.runs /\ cmos'.pie = cmos.pie /\ cmos'.mode = cmos.mode
    BY <1>0, <2>1, Zenon DEF Chip
  <2>3. QED
    BY <2>1, <2>2, ClockKept, Zenon DEF ChipSound, At, Top
<1>4. ASSUME NEW d \in 1..MaxDepth, Iret(d) PROVE ClockInv'
  <2>1. /\ mode' = mode /\ cur' = cur /\ cmos' = cmos /\ Top.at = "iret"
        /\ port' = port /\ prev' = prev /\ wanted' = wanted /\ asked' = asked
    BY <1>4, Zenon DEF Iret, clock
  <2>2. Len(stack[cur]) # 0
    BY <1>4, SMT DEF Iret
  <2>3. ~Idle
    BY <2>2, SMT DEF Idle
  <2>4. mode[cur] \notin Exclusive
    BY <2>3, Zenon DEF ClockInv, Uninterrupted
  <2>5. ~At(RTC_LINE, "enter")'
    BY <1>4, ReturnsToReturn, Zenon DEF LineInv
  <2>6. QED
    BY <2>1, <2>4, <2>5, ClockKept, Zenon DEF ChipSound
<1>5. CASE Handler
  <2>1. ASSUME NEW i \in Devices, NEW here, At(i, here),
               NEW place \in {"eoi", "iret"}, stack' = Moved(place),
               cur' = cur, mode' = mode, port' = port, prev' = prev, wanted' = wanted,
               asked' = asked, cmos'.rate = cmos.rate, cmos.pie => cmos'.pie,
               ChipSound => ChipSound',
               cmos' = cmos \/ (i = RTC_LINE /\ here = "enter")
        PROVE  ClockInv'
    <3>1. stack'[cur][Len(stack'[cur])].at = place
      BY <2>1, HandlerMoves, Zenon
    <3>2. ~At(RTC_LINE, "enter")'
      BY <2>1, <3>1, Zenon DEF At, Top
    <3>3. mode[cur] \notin Exclusive
      BY <2>1, Zenon DEF ClockInv, Uninterrupted, At, Idle
    <3>4. Programming(cur) => cmos' = cmos
      <4>1. Programming(cur) => mode[cur] = "open"
        BY <3>3, SMT DEF Programming, Exclusive
      <4>2. QED
        BY <2>1, <4>1, Zenon DEF ClockInv, Uninterrupted
    <3>5. QED
      BY <2>1, <3>2, <3>3, <3>4, ClockKept, Zenon
  <2>2. CASE PitWork
    BY <2>1, <2>2, Zenon DEF PitWork, clock, ChipSound
  <2>3. ASSUME NEW i \in Devices, Eoi(i) PROVE ClockInv'
    BY <2>1, <2>3, Zenon DEF Eoi, clock, ChipSound
  <2>4. CASE rtc_int_handler
    <3>1. cmos' = AfterGet(Selected(cmos, "C"))
      BY <2>4, Zenon DEF rtc_int_handler, Discarded
    <3>2. Selected(cmos, "C") \in Chip
      BY <1>0, Zenon DEF Selected, Chip, Register
    <3>3. /\ Selected(cmos, "C").rate = cmos.rate /\ Selected(cmos, "C").runs = cmos.runs
          /\ Selected(cmos, "C").pie = cmos.pie /\ Selected(cmos, "C").mode = cmos.mode
      BY <1>0, Zenon DEF Selected, Chip
    <3>4. /\ cmos'.rate = cmos.rate /\ cmos'.runs = cmos.runs
          /\ cmos'.pie = cmos.pie /\ cmos'.mode = cmos.mode
      BY <3>1, <3>2, <3>3, GetKeeps, Zenon
    <3>5. (cmos.pie => cmos'.pie) /\ (ChipSound => ChipSound')
      BY <3>4, Zenon DEF ChipSound
    <3>6. /\ At(RTC_LINE, "enter") /\ stack' = Moved("iret") /\ cur' = cur /\ mode' = mode
          /\ port' = port /\ prev' = prev /\ wanted' = wanted /\ asked' = asked
      BY <2>4, Zenon DEF rtc_int_handler, clock
    <3>7. QED
      BY <2>1, <3>4, <3>5, <3>6, Zenon
  <2>5. CASE mouse_int_handler
    BY <2>1, <2>5, Zenon DEF mouse_int_handler, clock, ChipSound
  <2>6. CASE TypedKey
    BY <2>1, <2>6, Zenon DEF TypedKey, clock, ChipSound
  <2>7. ASSUME NEW q \in Proc, TerminalKey(q) PROVE ClockInv'
    BY <2>7, ClockSwitch, Zenon
  <2>8. QED
    BY <1>5, <2>2, <2>3, <2>4, <2>5, <2>6, <2>7, Zenon DEF Handler
<1>6. CASE Boot \/ Calls \/ ReadReturn \/ Exception
  BY <1>6, ClockModes, Zenon
<1>7. CASE Driver
  BY <1>7, ClockPort, ClockDone, Zenon DEF Driver
<1>8. CASE UNCHANGED vars
  BY <1>8, ClockKept, Zenon DEF vars, clock, ChipSound, At, Top
<1>9. QED
  BY <1>1, <1>2, <1>3, <1>4, <1>5, <1>6, <1>7, <1>8, Zenon DEF Next

(* Between calls the chip has what the last call asked of it, for every     *)
(* set of frequencies, any number of processes and any nesting, as long as   *)
(* neither a tick nor a terminal key comes during rtc_open.                  *)
THEOREM ClockCorrect ==
  ASSUME "quiet" \in Rules
  PROVE  Spec => []ClockProgrammed
<1>1. TypeOK /\ LineInv /\ BootInv /\ ClockInv /\ [Next]_vars => ClockInv'
  BY ClockNext
<1>2. Spec => [](TypeOK /\ LineInv /\ BootInv /\ ClockInv)
  BY <1>1, TypeInit, TypeNext, LineInit, LineNext, BootInit, BootNext, ClockInit, PTL DEF Spec
<1>3. ClockInv => ClockProgrammed
  BY DEF ClockInv
<1>4. QED
  BY <1>2, <1>3, PTL
=============================================================================
