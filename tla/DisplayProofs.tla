--------------------------- MODULE DisplayProofs ---------------------------
(* Proofs about Display, for every size of screen, place of the buttons,    *)
(* number of ticks in a second and range of the digits.                     *)
EXTENDS Display, TLAPS

(* The clock, the string and the bar hold the same time: the string that of *)
(* the clock as soon as it has one, and the clock the seconds of ticks.     *)
ClockInv ==
  /\ Seconds(sys_time) = ticks \div TICKS
  /\ status # None => status = sys_time

(* A key on the port has its interrupt latched, and while the mouse handler *)
(* reads there is none.                                                      *)
PortInv ==
  /\ key # None <=> irq1
  /\ at # "idle" => ~irq1

(* What is on the port: a packet, the rest of one, or, if movements may     *)
(* overflow, the rest of a dropped one, no byte of which can begin a packet. *)
Packet(q) == /\ Len(q) = 3 /\ q[1] \in FirstByte
             /\ q[2] \in Movement /\ q[3] \in Movement
             /\ "slow" \in Rules => ~q[1].over
Dropped(q) == "slow" \notin Rules /\ \A i \in 1..Len(q) : q[i] \in Movement

QueueInv ==
  /\ at = "idle" => queue = <<>> \/ Packet(queue) \/ Dropped(queue)
  /\ at = "status" => Packet(queue) \/ (Dropped(queue) /\ queue # <<>>)
  /\ at = "x" => /\ Len(queue) = 2
                 /\ queue[1] \in Movement /\ queue[2] \in Movement
  /\ at = "y" => /\ Len(queue) = 1
                 /\ queue[1] \in Movement /\ xm \in Movement

(* A click on a button on its way is meant for the neighbour.               *)
Meant(b, dx, dy) ==
  b.left => /\ ~irq1
            /\ \A t \in Button(move_mouse(dx.val, dy.val)) : screen_num = t + 1
ClickInv ==
  /\ at \in {"idle", "status"} /\ Packet(queue)
       => Meant(queue[1], queue[2], queue[3])
  /\ at = "x" => Meant(input_packet, queue[1], queue[2])
  /\ at = "y" => Meant(input_packet, xm, queue[1])

USE DisplayAssumption, NoneAssumption

-----------------------------------------------------------------------------
(* Arithmetic: remainders, and products of numbers that are not constants.  *)

LEMMA DivModUnique ==
  ASSUME NEW B \in Nat \ {0}, NEW q \in Nat, NEW r \in 0..B - 1
  PROVE  (q * B + r) \div B = q /\ (q * B + r) % B = r
  OBVIOUS

LEMMA DivMod ==
  ASSUME NEW B \in Nat \ {0}, NEW x \in Nat
  PROVE  /\ x \div B \in Nat /\ x % B \in 0..B - 1
         /\ x = (x \div B) * B + (x % B)
  OBVIOUS

LEMMA Wrap ==
  ASSUME NEW R \in Nat \ {0}, NEW x \in 0..R - 1, NEW y, y = (x + 1) % R
  PROVE  /\ x + 1 < R => y = x + 1 /\ (y + R - 1) % R = x
         /\ x + 1 = R => y = 0 /\ (y + R - 1) % R = x
<1>1. x % R = x /\ (1 * R + x) % R = x /\ (1 * R + 0) % R = 0
  BY DivModUnique
<1>2. CASE x + 1 < R
  <2>1. (0 * R + (x + 1)) % R = x + 1
    BY <1>2, DivModUnique
  <2>2. 0 * R + (x + 1) = x + 1
    OBVIOUS
  <2>3. y = x + 1
    BY <2>1, <2>2, Zenon
  <2>4. y + R - 1 = 1 * R + x
    BY <2>3
  <2> QED
    BY <1>1, <1>2, <2>3, <2>4
<1>3. CASE x + 1 = R
  <2>1. x + 1 = 1 * R + 0
    BY <1>3
  <2>2. y = 0
    BY <1>1, <2>1, Zenon
  <2>3. y + R - 1 = x
    BY <1>3, <2>2
  <2> QED
    BY <1>1, <1>3, <2>2, <2>3
<1> QED
  BY <1>2, <1>3

LEMMA Product ==
  ASSUME NEW x \in Nat, NEW y \in Nat
  PROVE  x * y \in Nat /\ (x + 1) * y = x * y + y
  OBVIOUS

LEMMA Positive ==
  ASSUME NEW x \in Nat \ {0}, NEW y \in Nat \ {0}
  PROVE  x * y \in Nat \ {0}
  OBVIOUS

(* A number below B in front of a digit: the largest, and the next.         *)
LEMMA Digit ==
  ASSUME NEW B \in Nat \ {0}, NEW top \in Nat, NEW hi \in 0..B - 1, NEW lo \in 0..top
  PROVE  /\ hi * (top + 1) + lo \in 0..B * (top + 1) - 1
         /\ hi * (top + 1) + lo = B * (top + 1) - 1 <=> hi = B - 1 /\ lo = top
<1>1. PICK k \in Nat : B = hi + 1 + k
  OBVIOUS
<1>2. k * (top + 1) \in Nat /\ hi * (top + 1) \in Nat
  BY Product
<1>3. B * (top + 1) = hi * (top + 1) + (top + 1) + k * (top + 1)
  BY <1>1
<1>4. k # 0 => k * (top + 1) # 0
  BY Positive
<1> QED
  BY <1>1, <1>2, <1>3, <1>4

(* The clock's reading counts on by one in every case of the carries.       *)
Minute == TEN + 1
Units == UNIT + 1
ALL == Minute * Units * Minute * Units

LEMMA ClockConstants ==
  /\ Minute \in Nat \ {0} /\ Units \in Nat \ {0}
  /\ Minute * Units \in Nat \ {0}
  /\ Minute * Units * Minute \in Nat \ {0}
  /\ ALL \in Nat \ {0}
  /\ ROUND = ALL * TICKS /\ ROUND \in Nat \ {0}
<1>1. Minute \in Nat \ {0} /\ Units \in Nat \ {0}
  BY DEF Minute, Units
<1>2. Minute * Units \in Nat \ {0}
  BY <1>1, Positive
<1>3. Minute * Units * Minute \in Nat \ {0}
  BY <1>1, <1>2, Positive
<1>4. ALL \in Nat \ {0}
  BY <1>1, <1>3, Positive DEF ALL
<1>5. ROUND = ALL * TICKS
  BY <1>1 DEF ROUND, ALL, Minute, Units
<1>6. ALL * TICKS \in Nat \ {0}
  BY <1>4, Positive
<1> QED
  BY <1>1, <1>2, <1>3, <1>4, <1>5, <1>6

LEMMA DigitTypes ==
  ASSUME NEW d \in Digits
  PROVE  /\ d \in [Place -> Nat]
         /\ d[0] \in 0..TEN /\ d[1] \in 0..UNIT /\ d[3] \in 0..TEN /\ d[4] \in 0..UNIT
  BY SMT DEF Digits, Place, Top

LEMMA NextDigits ==
  ASSUME NEW d \in Digits, NEW e, e = get_system_time(d)
  PROVE  /\ e \in Digits
         /\ d[4] < UNIT => e[0] = d[0] /\ e[1] = d[1] /\ e[3] = d[3] /\ e[4] = d[4] + 1
         /\ d[4] = UNIT => e[4] = 0
         /\ d[4] = UNIT /\ d[3] < TEN => e[0] = d[0] /\ e[1] = d[1] /\ e[3] = d[3] + 1
         /\ d[4] = UNIT /\ d[3] = TEN => e[3] = 0
         /\ d[4] = UNIT /\ d[3] = TEN /\ d[1] < UNIT => e[0] = d[0] /\ e[1] = d[1] + 1
         /\ d[4] = UNIT /\ d[3] = TEN /\ d[1] = UNIT
              => e[1] = 0 /\ e[0] = IF d[0] = TEN THEN 0 ELSE d[0] + 1
<1> DEFINE ten == d[4] = UNIT
           min == ten /\ d[3] = TEN
           tenmin == min /\ d[1] = UNIT
           hour == tenmin /\ d[0] = TEN
<1>1. /\ e \in [Place -> Nat]
      /\ e[4] = IF ten THEN 0 ELSE d[4] + 1
      /\ e[3] = IF min THEN 0 ELSE IF ten THEN d[3] + 1 ELSE d[3]
      /\ e[1] = IF tenmin THEN 0 ELSE IF min THEN d[1] + 1 ELSE d[1]
      /\ e[0] = IF hour THEN 0 ELSE IF tenmin THEN d[0] + 1 ELSE d[0]
  BY DigitTypes, SMT DEF get_system_time, MinuteIsOver, Place
<1>2. /\ d[0] \in 0..TEN /\ d[1] \in 0..UNIT
      /\ d[3] \in 0..TEN /\ d[4] \in 0..UNIT
  BY DigitTypes
<1>3. e[0] <= TEN /\ e[1] <= UNIT /\ e[3] <= TEN /\ e[4] <= UNIT
  BY <1>1, <1>2, SMT
<1>4. e \in Digits
  BY <1>1, <1>3, SMT DEF Digits, Place, Top
<1> QED
  BY <1>1, <1>2, <1>4, SMT

Follows(s, t) == t = IF s = ALL - 1 THEN 0 ELSE s + 1

LEMMA ClockCounts ==
  ASSUME NEW d \in Digits
  PROVE  /\ Seconds(d) \in 0..ALL - 1
         /\ Follows(Seconds(d), Seconds(get_system_time(d)))
<1> DEFINE e == get_system_time(d)
           m(x) == x[0] * Units + x[1]
           n(x) == m(x) * Minute + x[3]
           s(x) == n(x) * Units + x[4]
<1>0. Minute \in Nat \ {0} /\ Units \in Nat \ {0}
  BY ClockConstants
<1>1. \A x : Seconds(x) = s(x)
  BY DEF Seconds, Minute, Units
<1>2. /\ d[0] \in 0..TEN /\ d[1] \in 0..UNIT
      /\ d[3] \in 0..TEN /\ d[4] \in 0..UNIT
  BY DigitTypes
<1>3. /\ m(d) \in 0..Minute * Units - 1
      /\ m(d) = Minute * Units - 1 <=> d[0] = TEN /\ d[1] = UNIT
  <2>1. d[0] \in 0..Minute - 1 /\ Minute - 1 = TEN
    BY <1>2 DEF Minute
  <2>2. /\ d[0] * (UNIT + 1) + d[1] \in 0..Minute * (UNIT + 1) - 1
        /\ d[0] * (UNIT + 1) + d[1] = Minute * (UNIT + 1) - 1
             <=> d[0] = Minute - 1 /\ d[1] = UNIT
    BY <1>0, <1>2, <2>1, Digit
  <2> QED
    BY <2>1, <2>2 DEF Units
<1>4. /\ n(d) \in 0..Minute * Units * Minute - 1
      /\ n(d) = Minute * Units * Minute - 1 <=> m(d) = Minute * Units - 1 /\ d[3] = TEN
  <2> HIDE DEF m
  <2> QED
    BY <1>2, <1>3, Digit, ClockConstants DEF Minute
<1>5. /\ s(d) \in 0..ALL - 1
      /\ s(d) = ALL - 1 <=> n(d) = Minute * Units * Minute - 1 /\ d[4] = UNIT
  <2> HIDE DEF n
  <2>1. ASSUME NEW B \in Nat \ {0}, NEW h \in 0..B - 1
        PROVE  /\ h * (UNIT + 1) + d[4] \in 0..B * (UNIT + 1) - 1
               /\ h * (UNIT + 1) + d[4] = B * (UNIT + 1) - 1
                    <=> h = B - 1 /\ d[4] = UNIT
    BY <1>2, Digit
  <2>2. Minute * Units * Minute \in Nat \ {0}
    BY ClockConstants
  <2>3. /\ n(d) * (UNIT + 1) + d[4] \in 0..Minute * Units * Minute * (UNIT + 1) - 1
        /\ n(d) * (UNIT + 1) + d[4] = Minute * Units * Minute * (UNIT + 1) - 1
             <=> n(d) = Minute * Units * Minute - 1 /\ d[4] = UNIT
    BY <2>1, <2>2, <1>4, ZenonT(30)
  <2> QED
    BY <2>3 DEF ALL, Units
<1>6. ASSUME d[4] < UNIT
      PROVE  s(e) = s(d) + 1 /\ s(d) # ALL - 1
  <2>1. n(e) = n(d) /\ e[4] = d[4] + 1
    BY <1>6, NextDigits
  <2>2. n(d) * Units \in Nat
    <3> HIDE DEF n
    <3> QED
      BY <1>4, <1>0, Product, ClockConstants
  <2> HIDE DEF n
  <2> QED
    BY <1>2, <1>5, <1>6, <2>1, <2>2
<1>7. ASSUME d[4] = UNIT, n(e) = n(d) + 1, n(d) # Minute * Units * Minute - 1
      PROVE  s(e) = s(d) + 1 /\ s(d) # ALL - 1
  <2>1. e[4] = 0
    BY <1>7, NextDigits
  <2>2. n(d) \in Nat
    <3> HIDE DEF n
    <3> QED
      BY <1>4, ClockConstants
  <2> HIDE DEF n
  <2>3. n(d) * Units \in Nat /\ (n(d) + 1) * Units = n(d) * Units + Units
    BY <2>2, <1>0, Product
  <2> QED
    BY <1>2, <1>5, <1>7, <2>1, <2>3 DEF Units
<1>8. ASSUME d[4] = UNIT, d[3] < TEN
      PROVE  n(e) = n(d) + 1 /\ n(d) # Minute * Units * Minute - 1
  <2>1. m(e) = m(d) /\ e[3] = d[3] + 1
    BY <1>8, NextDigits
  <2>2. m(d) * Minute \in Nat
    <3> HIDE DEF m
    <3> QED
      BY <1>3, <1>0, Product, ClockConstants
  <2> HIDE DEF m
  <2> QED
    BY <1>2, <1>4, <1>8, <2>1, <2>2
<1>9. ASSUME d[4] = UNIT, d[3] = TEN, m(e) = m(d) + 1, m(d) # Minute * Units - 1
      PROVE  n(e) = n(d) + 1 /\ n(d) # Minute * Units * Minute - 1
  <2>1. e[3] = 0
    BY <1>9, NextDigits
  <2>2. m(d) \in Nat
    <3> HIDE DEF m
    <3> QED
      BY <1>3, ClockConstants
  <2> HIDE DEF m
  <2>3. m(d) * Minute \in Nat /\ (m(d) + 1) * Minute = m(d) * Minute + Minute
    BY <2>2, <1>0, Product
  <2> QED
    BY <1>2, <1>4, <1>9, <2>1, <2>3 DEF Minute
<1>10. ASSUME d[4] = UNIT, d[3] = TEN, d[1] < UNIT
       PROVE  m(e) = m(d) + 1 /\ m(d) # Minute * Units - 1
  <2>1. e[0] = d[0] /\ e[1] = d[1] + 1
    BY <1>10, NextDigits
  <2>2. d[0] * Units \in Nat
    BY <1>2, <1>0, Product
  <2> QED
    BY <1>2, <1>3, <1>10, <2>1, <2>2
<1>11. ASSUME d[4] = UNIT, d[3] = TEN, d[1] = UNIT, d[0] < TEN
       PROVE  m(e) = m(d) + 1 /\ m(d) # Minute * Units - 1
  <2>1. e[0] = d[0] + 1 /\ e[1] = 0
    BY <1>11, <1>2, NextDigits
  <2>2. d[0] * Units \in Nat /\ (d[0] + 1) * Units = d[0] * Units + Units
    BY <1>2, <1>0, Product
  <2> QED
    BY <1>2, <1>3, <1>11, <2>1, <2>2 DEF Units
<1>12. ASSUME d[4] = UNIT, d[3] = TEN, d[1] = UNIT, d[0] = TEN
       PROVE  s(e) = 0 /\ s(d) = ALL - 1
  <2>1. e[0] = 0 /\ e[1] = 0 /\ e[3] = 0 /\ e[4] = 0
    BY <1>12, NextDigits
  <2>2. s(d) = ALL - 1
    <3> HIDE DEF m, n, s
    <3> QED
      BY <1>12, <1>3, <1>4, <1>5
  <2>3. s(e) = 0
    BY <2>1, <1>0
  <2> QED
    BY <2>2, <2>3
<1> HIDE DEF m, n, s, e
<1>13. Follows(s(d), s(e))
  BY <1>2, <1>6, <1>7, <1>8, <1>9, <1>10, <1>11, <1>12 DEF Follows
<1> QED
  BY <1>1, <1>5, <1>13 DEF e

(* One tick: the quotient of ticks by TICKS goes on by one when the         *)
(* remainder gets to zero, also at the end of the round.                    *)
LEMMA Tick ==
  ASSUME NEW t \in 0..ROUND - 1, NEW u, u = (t + 1) % ROUND
  PROVE  /\ u \in 0..ROUND - 1
         /\ (u + ROUND - 1) % ROUND = t
         /\ t \div TICKS \in 0..ALL - 1
         /\ u % TICKS # 0 => u \div TICKS = t \div TICKS
         /\ u % TICKS = 0 => Follows(t \div TICKS, u \div TICKS)
<1> DEFINE q == t \div TICKS
           r == t % TICKS
<1>1. /\ TICKS \in Nat \ {0} /\ ALL \in Nat \ {0}
      /\ ROUND = ALL * TICKS /\ ROUND \in Nat \ {0} /\ t \in Nat
  BY ClockConstants
<1>w. /\ t + 1 < ROUND => u = t + 1 /\ (u + ROUND - 1) % ROUND = t
      /\ t + 1 = ROUND => u = 0 /\ (u + ROUND - 1) % ROUND = t
  <2>1. ROUND \in Nat \ {0}
    BY ClockConstants
  <2> QED
    BY <2>1, Wrap, ZenonT(60)
<1>d. \A k \in Nat, s \in 0..TICKS - 1 :
        (k * TICKS + s) \div TICKS = k /\ (k * TICKS + s) % TICKS = s
  BY DivModUnique
<1>2. q \in Nat /\ r \in 0..TICKS - 1 /\ t = q * TICKS + r
  BY <1>1, DivMod
<1> HIDE DEF q, r
<1>3. q * TICKS \in Nat
  BY <1>1, <1>2, Product
<1>4. q < ALL
  <2>1. SUFFICES ASSUME q >= ALL PROVE FALSE
    BY <1>1, <1>2
  <2>2. PICK k \in Nat : q = ALL + k
    BY <2>1, <1>1, <1>2
  <2>3. q * TICKS = ALL * TICKS + k * TICKS /\ k * TICKS \in Nat
    BY <2>2, <1>1, Product
  <2> QED
    BY <2>3, <1>1, <1>2
<1>5. CASE r + 1 < TICKS
  <2>1. t + 1 < ROUND
    <3>1. PICK k \in Nat : ALL = q + 1 + k
      BY <1>1, <1>2, <1>4
    <3>2. ALL * TICKS = q * TICKS + TICKS + k * TICKS /\ k * TICKS \in Nat
      BY <3>1, <1>1, <1>2, Product
    <3> QED
      BY <3>2, <1>5, <1>1, <1>2, <1>3
  <2>2. u = t + 1 /\ (u + ROUND - 1) % ROUND = t
    BY <2>1, <1>w
  <2>3. u = q * TICKS + (r + 1) /\ r + 1 \in 0..TICKS - 1
    BY <2>2, <1>2, <1>3, <1>5
  <2>4. u \div TICKS = q /\ u % TICKS = r + 1
    <3>1. (q * TICKS + (r + 1)) \div TICKS = q /\ (q * TICKS + (r + 1)) % TICKS = r + 1
      BY <2>3, <1>2, <1>d
    <3> QED
      BY <2>3, <3>1, Zenon
  <2> QED
    BY <2>1, <2>2, <2>4, <1>1, <1>2, <1>4 DEF q
<1>6. CASE r + 1 = TICKS /\ q + 1 < ALL
  <2>1. (q + 1) * TICKS = q * TICKS + TICKS
    BY <1>1, <1>2, Product
  <2>2. t + 1 = (q + 1) * TICKS + 0 /\ 0 \in 0..TICKS - 1 /\ q + 1 \in Nat
    BY <2>1, <1>1, <1>2, <1>3, <1>6
  <2>3. t + 1 < ROUND
    <3>1. PICK k \in Nat \ {0} : ALL = q + 1 + k
      BY <1>1, <1>2, <1>6
    <3>2. ALL * TICKS = (q + 1) * TICKS + k * TICKS /\ k * TICKS \in Nat \ {0}
      BY <3>1, <1>1, <1>2, Positive
    <3> QED
      BY <3>2, <2>1, <2>2, <1>1, <1>2, <1>3
  <2>4. u = t + 1 /\ (u + ROUND - 1) % ROUND = t
    BY <2>3, <1>w
  <2>5. u \div TICKS = q + 1 /\ u % TICKS = 0
    <3>1. /\ ((q + 1) * TICKS + 0) \div TICKS = q + 1
          /\ ((q + 1) * TICKS + 0) % TICKS = 0
      BY <2>2, <1>d
    <3> QED
      BY <2>2, <2>4, <3>1, Zenon
  <2> QED
    BY <2>3, <2>4, <2>5, <1>1, <1>2, <1>6 DEF q, Follows
<1>7. CASE r + 1 = TICKS /\ q + 1 = ALL
  <2>1. (q + 1) * TICKS = q * TICKS + TICKS
    BY <1>1, <1>2, Product
  <2>2. t + 1 = ROUND
    BY <2>1, <1>1, <1>2, <1>3, <1>7
  <2>3. u = 0 /\ (u + ROUND - 1) % ROUND = t
    BY <2>2, <1>w
  <2>4. 0 * TICKS + 0 = 0 /\ 0 \in 0..TICKS - 1
    BY <1>1
  <2>5. u \div TICKS = 0 /\ u % TICKS = 0
    <3>1. (0 * TICKS + 0) \div TICKS = 0 /\ (0 * TICKS + 0) % TICKS = 0
      BY <2>4, <1>d
    <3> QED
      BY <2>3, <2>4, <3>1, Zenon
  <2> QED
    BY <2>3, <2>5, <1>1, <1>2, <1>7 DEF q, Follows
<1> QED
  BY <1>1, <1>2, <1>4, <1>5, <1>6, <1>7

-----------------------------------------------------------------------------
(* Types.                                                                   *)

LEMMA Bytes ==
  /\ NoByte \in Byte /\ ScanCode \subseteq Byte
  /\ FirstByte \subseteq Byte /\ Movement \subseteq Byte
<1>1. \A s \in BOOLEAN, v \in -1..1 : Plain(s, v) \in Byte
  BY DEF Plain, Byte
<1>2. NoByte \in Byte
  <2>1. FALSE \in BOOLEAN /\ 0 \in -1..1
    OBVIOUS
  <2> QED
    BY <1>1, <2>1, Zenon DEF NoByte
<1>3. ScanCode \subseteq Byte
  BY <1>1 DEF ScanCode
<1>4. Movement \subseteq Byte
  BY <1>1 DEF Movement
<1>5. FirstByte \subseteq Byte
  <2>1. {TRUE} \subseteq BOOLEAN /\ {0} \subseteq -1..1
    OBVIOUS
  <2> QED
    BY <2>1, Zenon DEF FirstByte, Byte
<1> QED
  BY <1>2, <1>3, <1>4, <1>5

LEMMA PortRead ==
  ASSUME TypeOK
  PROVE  /\ ReadPort \in Byte
         /\ Consumed => /\ key' \in ScanCode \cup {None}
                        /\ queue' \in Seq(Byte) /\ Len(queue') <= 3
<1>1. queue # <<>> => /\ Head(queue) \in Byte /\ Tail(queue) \in Seq(Byte)
                      /\ Len(Tail(queue)) = Len(queue) - 1
  BY DEF TypeOK
<1>2. ReadPort \in Byte
  BY <1>1, Bytes DEF ReadPort, LastByte, TypeOK
<1>3. ASSUME Consumed
      PROVE  key' \in ScanCode \cup {None} /\ queue' \in Seq(Byte) /\ Len(queue') <= 3
  <2>1. CASE key # None
    BY <2>1, <1>3 DEF Consumed, TypeOK
  <2>2. CASE key = None /\ queue = <<>>
    BY <2>2, <1>3 DEF Consumed, TypeOK
  <2>3. CASE key = None /\ queue # <<>>
    <3>1. key' = None /\ queue' = Tail(queue)
      BY <2>3, <1>3 DEF Consumed
    <3>2. Len(queue) \in Nat /\ Len(queue) <= 3
      BY DEF TypeOK
    <3> QED
      BY <2>3, <1>1, <3>1, <3>2
  <2> QED
    BY <2>1, <2>2, <2>3
<1> QED
  BY <1>2, <1>3

LEMMA SwitchTypes ==
  ASSUME TypeOK, NEW new \in Terminals, NEW old \in 0..3, SwitchCursor(new, old)
  PROVE  /\ screen_num' \in Terminals /\ cursor' \in Terminals \cup {None}
         /\ components' \in [0..3 -> Terminals \cup {None}]
<1> DEFINE saved == [components EXCEPT ![old] = cursor]
<1>1. saved \in [0..3 -> Terminals \cup {None}]
  BY DEF TypeOK
<1>2. new \in 0..3
  BY DEF Terminals
<1>3. components' = [saved EXCEPT ![new] = None] /\ cursor' = saved[new] /\ screen_num' = new
  BY DEF SwitchCursor
<1> HIDE DEF saved
<1>4. [saved EXCEPT ![new] = None] \in [0..3 -> Terminals \cup {None}]
  BY <1>1
<1>5. saved[new] \in Terminals \cup {None}
  BY <1>1, <1>2
<1> QED
  BY <1>3, <1>4, <1>5

LEMMA Moves ==
  ASSUME mouse \in Cell, NEW dx \in -1..1, NEW dy \in -1..1
  PROVE  move_mouse(dx, dy) \in Cell
<1>1. Rem(dx, 3) \in Int /\ Rem(dy, 2) \in Int
  BY SMT DEF Rem
<1>2. \A v \in Int, limit \in Nat : Clamped(v, limit) \in 0..limit
  BY DEF Clamped
<1>3. /\ mouse.x \in 0..COLS - 1 /\ mouse.y \in 0..ROWS - 1
      /\ COLS - 1 \in Nat /\ ROWS - 1 \in Nat
  BY DEF Cell
<1>4. /\ Clamped(mouse.x + Rem(dx, 3), COLS - 1) \in 0..COLS - 1
      /\ Clamped(mouse.y - Rem(dy, 2), ROWS - 1) \in 0..ROWS - 1
  <2>1. mouse.x + Rem(dx, 3) \in Int /\ mouse.y - Rem(dy, 2) \in Int
    BY <1>1, <1>3
  <2> QED
    BY <2>1, <1>2, <1>3, Zenon
<1> QED
  BY <1>4 DEF move_mouse, Cell

LEMMA InitType == Init => TypeOK
<1> SUFFICES ASSUME Init PROVE TypeOK
  OBVIOUS
<1>1. ticks \in 0..ROUND - 1
  BY ClockConstants DEF Init
<1>2. sys_time \in Digits
  BY SMT DEF Init, Digits, Place, Top
<1>3. mouse \in Cell /\ pointer \subseteq Cell
  BY DEF Init, Cell, BAR
<1>4. components \in [0..3 -> Terminals \cup {None}]
  BY DEF Init, Terminals
<1>5. queue \in Seq(Byte) /\ Len(queue) <= 3
  BY DEF Init
<1>6. screen_num \in Terminals /\ cursor \in Terminals
  BY DEF Init, Terminals
<1>7. input_packet \in Byte /\ xm \in Byte
  BY Bytes DEF Init
<1>8. /\ status = None /\ bar = None /\ lit = None /\ key = None
      /\ irq1 = FALSE /\ at = "idle"
  BY DEF Init
<1> QED
  BY <1>1, <1>2, <1>3, <1>4, <1>5, <1>6, <1>7, <1>8 DEF TypeOK

LEMMA TimerType == TypeOK /\ pit_int_handler => TypeOK'
<1> SUFFICES ASSUME TypeOK, pit_int_handler PROVE TypeOK'
  OBVIOUS
<1>1. ticks' \in 0..ROUND - 1
  BY Tick DEF pit_int_handler, TypeOK
<1>2. sys_time' \in Digits /\ status' \in Digits \cup {None}
  BY NextDigits DEF pit_int_handler, TypeOK
<1>3. pointer' \subseteq Cell
  BY DEF pit_int_handler, PointerAfterBar, InText, TypeOK
<1>4. bar' \in Digits \cup {None} /\ lit' \in Terminals \cup {None}
  BY DEF pit_int_handler, StatusBar, TypeOK
<1> QED
  BY <1>1, <1>2, <1>3, <1>4 DEF pit_int_handler, port, TypeOK

LEMMA KeyType ==
  ASSUME TypeOK, NEW t \in Terminals, kbd_int_handler(t)
  PROVE  TypeOK'
<1>1. screen_num \in 0..3
  BY DEF TypeOK, Terminals
<1>2. /\ screen_num' \in Terminals /\ cursor' \in Terminals \cup {None}
      /\ components' \in [0..3 -> Terminals \cup {None}]
  BY <1>1, SwitchTypes DEF kbd_int_handler
<1>3. pointer' \subseteq Cell /\ bar' \in Digits \cup {None}
      /\ lit' \in Terminals \cup {None}
  BY DEF kbd_int_handler, TypeOK
<1>4. /\ key' \in ScanCode \cup {None} /\ queue' \in Seq(Byte) /\ Len(queue') <= 3
  BY PortRead DEF kbd_int_handler
<1> QED
  BY <1>2, <1>3, <1>4 DEF kbd_int_handler, clock, TypeOK

LEMMA ReadYType == TypeOK /\ ReadY => TypeOK'
<1> SUFFICES ASSUME TypeOK, ReadY PROVE TypeOK'
  OBVIOUS
<1> DEFINE m == move_mouse(xm.val, ReadPort.val)
           hit == IF input_packet.left THEN Button(m) ELSE {}
<1>1. m \in Cell
  <2>1. xm.val \in -1..1 /\ ReadPort.val \in -1..1
    BY PortRead DEF TypeOK, Byte
  <2> QED
    BY <2>1, Moves DEF TypeOK
<1> HIDE DEF m
<1>2. hit \subseteq Terminals
  BY DEF Button
<1>3. /\ screen_num' \in Terminals /\ cursor' \in Terminals \cup {None}
      /\ components' \in [0..3 -> Terminals \cup {None}]
      /\ bar' \in Digits \cup {None} /\ lit' \in Terminals \cup {None}
  <2>1. CASE hit = {}
    <3>1. UNCHANGED <<screen_num, cursor, components, bar, lit>>
      BY <2>1 DEF ReadY, m
    <3> QED
      BY <3>1 DEF TypeOK
  <2>2. CASE hit # {}
    <3>1. bar' = None /\ lit' = None /\ \E t \in hit : SwitchCursor(t, t + 1)
      BY <2>2 DEF ReadY, m
    <3>2. \A t \in hit : t \in Terminals /\ t + 1 \in 0..3
      BY <1>2 DEF Terminals
    <3> QED
      BY <3>1, <3>2, SwitchTypes
  <2> QED
    BY <2>1, <2>2
<1>4. /\ mouse' = m /\ at' = "idle" /\ input_packet' = NoByte /\ xm' = NoByte
      /\ UNCHANGED <<clock, irq1>> /\ Consumed
  BY DEF ReadY, m
<1>5. pointer' \subseteq Cell
  <2>1. pointer' \subseteq pointer \cup {m}
    BY DEF ReadY, m, InRow, OldCellCleared
  <2> QED
    BY <2>1, <1>1 DEF TypeOK
<1>6. key' \in ScanCode \cup {None} /\ queue' \in Seq(Byte) /\ Len(queue') <= 3
  BY <1>4, PortRead
<1> HIDE DEF hit
<1> QED
  BY <1>1, <1>3, <1>4, <1>5, <1>6, Bytes DEF clock, TypeOK

LEMMA MouseType ==
  ASSUME TypeOK, MouseInterrupt \/ attempt_read \/ ReadX
  PROVE  TypeOK'
<1>1. CASE MouseInterrupt
  BY <1>1 DEF MouseInterrupt, clock, screen, port, TypeOK
<1>2. CASE attempt_read
  <2>1. key' \in ScanCode \cup {None} /\ queue' \in Seq(Byte) /\ Len(queue') <= 3
    BY <1>2, PortRead DEF attempt_read
  <2>2. at' \in {"idle", "x"} /\ input_packet' \in Byte
    BY <1>2, PortRead DEF attempt_read, TypeOK
  <2> QED
    BY <1>2, <2>1, <2>2 DEF attempt_read, clock, screen, TypeOK
<1>3. CASE ReadX
  <2>1. key' \in ScanCode \cup {None} /\ queue' \in Seq(Byte) /\ Len(queue') <= 3
    BY <1>3, PortRead DEF ReadX
  <2>2. at' = "y" /\ xm' \in Byte
    BY <1>3, PortRead DEF ReadX
  <2> QED
    BY <1>3, <2>1, <2>2 DEF ReadX, clock, screen, TypeOK
<1> QED
  BY <1>1, <1>2, <1>3

LEMMA DeviceType ==
  ASSUME TypeOK, PressKey \/ MovePointer
  PROVE  TypeOK'
<1>1. CASE PressKey
  BY <1>1 DEF PressKey, clock, screen, TypeOK
<1>2. CASE MovePointer
  <2>1. PICK f \in FirstByte, dx \in Movement, dy \in Movement : queue' = <<f, dx, dy>>
    BY <1>2 DEF MovePointer
  <2>2. queue' \in Seq(Byte) /\ Len(queue') <= 3
    BY <2>1, Bytes
  <2> QED
    BY <1>2, <2>2 DEF MovePointer, clock, screen, TypeOK
<1> QED
  BY <1>1, <1>2

LEMMA StepType == TypeOK /\ [Next]_vars => TypeOK'
<1> SUFFICES ASSUME TypeOK, [Next]_vars PROVE TypeOK'
  OBVIOUS
<1>1. CASE UNCHANGED vars
  BY <1>1 DEF vars, clock, screen, port, TypeOK
<1>2. CASE Next
  BY <1>2, TimerType, KeyType, MouseType, ReadYType, DeviceType DEF Next
<1> QED
  BY <1>1, <1>2

-----------------------------------------------------------------------------
(* The clock, and with it the digits of the bar.                            *)

LEMMA InitClock == Init => ClockInv /\ BarShowsElapsed
<1> SUFFICES ASSUME Init PROVE ClockInv /\ BarShowsElapsed
  OBVIOUS
<1>1. Seconds(sys_time) = 0
  <2>1. sys_time[0] = 0 /\ sys_time[1] = 0 /\ sys_time[3] = 0 /\ sys_time[4] = 0
    BY DEF Init, Place
  <2>2. ((0 * (UNIT + 1) + 0) * (TEN + 1) + 0) * (UNIT + 1) + 0 = 0
    OBVIOUS
  <2> QED
    BY <2>1, <2>2 DEF Seconds
<1>2. 0 \div TICKS = 0
  <2>1. (0 * TICKS + 0) \div TICKS = 0
    BY DivModUnique
  <2> QED
    BY <2>1
<1> QED
  BY <1>1, <1>2 DEF Init, ClockInv, BarShowsElapsed

LEMMA StepClock ==
  ASSUME TypeOK, ClockInv, BarShowsElapsed, [Next]_vars
  PROVE  ClockInv' /\ BarShowsElapsed'
<1>1. CASE pit_int_handler
  <2>1. /\ ticks' = (ticks + 1) % ROUND /\ bar' = status
        /\ ticks \in 0..ROUND - 1 /\ sys_time \in Digits
    BY <1>1 DEF pit_int_handler, StatusBar, TypeOK
  <2>2. /\ (ticks' + ROUND - 1) % ROUND = ticks
        /\ ticks' % TICKS # 0 => ticks' \div TICKS = ticks \div TICKS
        /\ ticks' % TICKS = 0 => Follows(ticks \div TICKS, ticks' \div TICKS)
    BY <2>1, Tick
  <2>3. BarShowsElapsed'
    BY <2>1, <2>2, Zenon DEF ClockInv, BarShowsElapsed, Seconds
  <2>4. ClockInv'
    BY <1>1, <2>1, <2>2, ClockCounts, Zenon DEF pit_int_handler, ClockInv, Follows
  <2> QED
    BY <2>3, <2>4
<1>2. ASSUME UNCHANGED clock, bar' \in {bar, status, None}
      PROVE  ClockInv' /\ BarShowsElapsed'
  <2>1. ticks' = ticks /\ sys_time' = sys_time /\ status' = status
    BY <1>2 DEF clock
  <2> QED
    BY <1>2, <2>1, Zenon DEF ClockInv, BarShowsElapsed, Seconds
<1>3. CASE \E t \in Terminals : kbd_int_handler(t)
  BY <1>2, <1>3 DEF kbd_int_handler
<1>4. CASE ReadY
  BY <1>2, <1>4 DEF ReadY
<1>5. CASE PressKey \/ MovePointer \/ MouseInterrupt \/ attempt_read \/ ReadX
  BY <1>2, <1>5 DEF PressKey, MovePointer, MouseInterrupt, attempt_read, ReadX, screen
<1>6. CASE UNCHANGED vars
  BY <1>2, <1>6 DEF vars, screen
<1> QED
  BY <1>1, <1>3, <1>4, <1>5, <1>6 DEF Next

(* The pointer.                                                             *)
LEMMA StepPointer ==
  ASSUME TypeOK, PointerOnce, [Next]_vars
  PROVE  pointer' \subseteq {mouse'}
<1>1. CASE pit_int_handler
  BY <1>1 DEF pit_int_handler, PointerAfterBar, InText, PointerOnce
<1>2. CASE \E t \in Terminals : kbd_int_handler(t)
  BY <1>2 DEF kbd_int_handler
<1>3. CASE ReadY
  BY <1>3 DEF ReadY, InRow, OldCellCleared, PointerOnce
<1>4. CASE PressKey \/ MovePointer \/ MouseInterrupt \/ attempt_read \/ ReadX
  BY <1>4 DEF PressKey, MovePointer, MouseInterrupt, attempt_read, ReadX, screen, PointerOnce
<1>5. CASE UNCHANGED vars
  BY <1>5 DEF vars, screen, PointerOnce
<1> QED
  BY <1>1, <1>2, <1>3, <1>4, <1>5 DEF Next

(* What the screen shows is true, whatever users, mice and rules are: the    *)
(* bar shows the seconds since the timer was started, at most one tick       *)
(* late, through every carry and redrawing, and the pointer leaves no trace. *)
THEOREM ScreenCorrect == Spec => []ScreenTrue
<1> DEFINE ScreenInv == TypeOK /\ ClockInv /\ BarShowsElapsed /\ PointerOnce
<1>1. Init => ScreenInv
  <2>1. Init => PointerOnce
    BY InitType DEF Init, TypeOK, PointerOnce
  <2> QED
    BY <2>1, InitType, InitClock
<1>2. ScreenInv /\ [Next]_vars => ScreenInv'
  <2> SUFFICES ASSUME ScreenInv, [Next]_vars PROVE ScreenInv'
    OBVIOUS
  <2>1. TypeOK'
    BY StepType
  <2>2. PointerOnce'
    BY <2>1, StepPointer DEF PointerOnce, TypeOK
  <2> QED
    BY <2>1, <2>2, StepClock
<1>3. ScreenInv => ScreenTrue
  BY DEF ScreenTrue
<1> QED
  BY <1>1, <1>2, <1>3, PTL DEF Spec

-----------------------------------------------------------------------------
(* The port: a key has its interrupt, and none is there while the mouse      *)
(* handler reads.                                                            *)

LEMMA PressedKey == \A k \in ScanCode : k # None
  OBVIOUS

LEMMA StepPort ==
  ASSUME "hands" \in Rules, TypeOK, PortInv, [Next]_vars
  PROVE  PortInv'
<1>1. CASE pit_int_handler
  BY <1>1 DEF pit_int_handler, port, PortInv
<1>2. CASE \E t \in Terminals : kbd_int_handler(t)
  BY <1>2 DEF kbd_int_handler, Consumed, PortInv
<1>3. CASE PressKey
  BY <1>3, PressedKey DEF PressKey, PortInv
<1>4. CASE MovePointer
  BY <1>4 DEF MovePointer, PortInv
<1>5. CASE MouseInterrupt
  BY <1>5 DEF MouseInterrupt, port, PortInv
<1>6. CASE attempt_read \/ ReadX \/ ReadY
  <2>1. at # "idle" /\ irq1' = irq1 /\ Consumed
    BY <1>6 DEF attempt_read, ReadX, ReadY
  <2>2. key = None /\ ~irq1
    BY <2>1 DEF PortInv
  <2> QED
    BY <2>1, <2>2 DEF Consumed, PortInv
<1>7. CASE UNCHANGED vars
  BY <1>7 DEF vars, port, PortInv
<1> QED
  BY <1>1, <1>2, <1>3, <1>4, <1>5, <1>6, <1>7 DEF Next

(* Reading the port while there is no key takes the next byte of the mouse.  *)
LEMMA NextByte ==
  ASSUME TypeOK, PortInv, at # "idle", queue # <<>>, Consumed
  PROVE  /\ ReadPort = queue[1] /\ queue' = Tail(queue) /\ key' = None
         /\ queue' \in Seq(Byte) /\ Len(queue) \in Nat
         /\ Len(queue') = Len(queue) - 1
         /\ \A i \in 1..Len(queue') : queue'[i] = queue[i + 1]
<1>1. key = None
  BY DEF PortInv
<1>2. ReadPort = queue[1] /\ queue' = Tail(queue) /\ key' = None
  BY <1>1 DEF ReadPort, Consumed, TypeOK
<1> QED
  BY <1>2 DEF TypeOK

(* No movement is taken for the beginning of a packet.                      *)
LEMMA NotFirst == \A b \in Movement : ~b.sync
  BY DEF Movement, Plain

LEMMA FirstIs == \A b \in FirstByte : b.sync
  BY DEF FirstByte

LEMMA StepQueue ==
  ASSUME "hands" \in Rules, TypeOK, PortInv, QueueInv, [Next]_vars
  PROVE  QueueInv'
<1>1. CASE pit_int_handler \/ PressKey \/ UNCHANGED vars
  <2>1. queue' = queue /\ at' = at /\ xm' = xm
    BY <1>1 DEF pit_int_handler, PressKey, port, vars
  <2> QED
    BY <2>1, Zenon DEF QueueInv, Packet, Dropped
<1>2. CASE \E t \in Terminals : kbd_int_handler(t)
  <2>1. queue' = queue /\ at' = at /\ xm' = xm
    BY <1>2 DEF kbd_int_handler, Consumed, PortInv
  <2> QED
    BY <2>1, Zenon DEF QueueInv, Packet, Dropped
<1>3. CASE MovePointer
  <2>1. PICK f \in FirstByte, dx \in Movement, dy \in Movement :
          queue' = <<f, dx, dy>> /\ ("slow" \in Rules => ~f.over)
    BY <1>3 DEF MovePointer
  <2>2. at' = "idle"
    BY <1>3 DEF MovePointer
  <2>3. Packet(queue')
    BY <2>1 DEF Packet
  <2> QED
    BY <2>2, <2>3 DEF QueueInv, Packet, Dropped
<1>4. CASE MouseInterrupt
  <2>1. queue' = queue /\ queue # <<>> /\ at = "idle" /\ at' = "status"
    BY <1>4 DEF MouseInterrupt, port
  <2> QED
    BY <2>1 DEF QueueInv, Packet, Dropped
<1>5. CASE attempt_read
  <2>1. at = "status" /\ Consumed /\ queue # <<>>
    BY <1>5 DEF attempt_read, QueueInv, Packet, TypeOK
  <2>2. /\ ReadPort = queue[1] /\ Len(queue') = Len(queue) - 1
        /\ \A i \in 1..Len(queue') : queue'[i] = queue[i + 1]
    BY <2>1, NextByte
  <2>3. queue' \in Seq(Byte) /\ Len(queue) \in Nat
    BY <2>1, NextByte
  <2>4. CASE Packet(queue)
    <3>1. /\ Len(queue') = 2 /\ queue'[1] \in Movement /\ queue'[2] \in Movement
          /\ queue[1].sync
      BY <2>2, <2>4, FirstIs DEF Packet
    <3>2. CASE ~queue[1].over
      <4>1. at' = "x"
        BY <1>5, <2>2, <3>1, <3>2 DEF attempt_read, FirstOfPacket
      <4> QED
        BY <3>1, <4>1 DEF QueueInv
    <3>3. CASE queue[1].over
      <4>1. at' = "idle" /\ "slow" \notin Rules
        BY <1>5, <2>2, <2>4, <3>3 DEF attempt_read, FirstOfPacket, Packet
      <4>2. Dropped(queue)'
        BY <3>1, <4>1 DEF Dropped
      <4> QED
        BY <4>1, <4>2 DEF QueueInv
    <3> QED
      BY <3>2, <3>3
  <2>5. CASE Dropped(queue)
    <3>1. ~queue[1].sync
      BY <2>1, <2>3, <2>5, NotFirst DEF Dropped, TypeOK
    <3>2. at' = "idle"
      BY <1>5, <2>2, <3>1 DEF attempt_read, FirstOfPacket
    <3>3. Dropped(queue)'
      BY <2>2, <2>3, <2>5 DEF Dropped
    <3> QED
      BY <3>2, <3>3 DEF QueueInv
  <2> QED
    BY <2>1, <2>4, <2>5 DEF QueueInv
<1>6. CASE ReadX
  <2>1. /\ at = "x" /\ at' = "y" /\ Consumed /\ xm' = ReadPort
        /\ Len(queue) = 2 /\ queue[1] \in Movement /\ queue[2] \in Movement
    BY <1>6 DEF ReadX, QueueInv
  <2>0. at # "idle" /\ queue # <<>>
    BY <2>1
  <2>2. /\ ReadPort = queue[1] /\ Len(queue') = Len(queue) - 1
        /\ \A i \in 1..Len(queue') : queue'[i] = queue[i + 1]
    BY <2>0, <2>1, NextByte
  <2>3. Len(queue') = 1 /\ queue'[1] = queue[2]
    BY <2>1, <2>2
  <2> QED
    BY <2>1, <2>2, <2>3 DEF QueueInv
<1>7. CASE ReadY
  <2>1. at = "y" /\ at' = "idle" /\ Consumed /\ Len(queue) = 1
    BY <1>7 DEF ReadY, QueueInv
  <2>0. at # "idle" /\ queue # <<>>
    BY <2>1
  <2>2. Len(queue') = 0 /\ queue' \in Seq(Byte)
    BY <2>0, <2>1, NextByte
  <2>3. queue' = <<>>
    BY <2>2
  <2> QED
    BY <2>1, <2>3 DEF QueueInv
<1> QED
  BY <1>1, <1>2, <1>3, <1>4, <1>5, <1>6, <1>7 DEF Next

LEMMA InitPort == Init => PortInv /\ QueueInv /\ ClickInv
  BY DEF Init, PortInv, QueueInv, ClickInv, Packet

(* If nobody presses a key while the mouse's bytes are read and no movement  *)
(* overflows, the handler stays in step with the packets.                    *)
THEOREM PacketsCorrect ==
  ASSUME "hands" \in Rules, "slow" \in Rules
  PROVE  Spec => []PacketsInStep
<1> DEFINE PacketInv == TypeOK /\ PortInv /\ QueueInv
<1>1. Init => PacketInv
  BY InitType, InitPort
<1>2. PacketInv /\ [Next]_vars => PacketInv'
  BY StepType, StepPort, StepQueue
<1>3. PacketInv => PacketsInStep
  BY FirstIs DEF QueueInv, Packet, Dropped, PacketsInStep, TypeOK
<1> QED
  BY <1>1, <1>2, <1>3, PTL DEF Spec

-----------------------------------------------------------------------------
(* Clicks and cursors.                                                       *)

LEMMA StepClick ==
  ASSUME "hands" \in Rules, "neighbour" \in Rules,
         TypeOK, PortInv, QueueInv, ClickInv, [Next]_vars
  PROVE  ClickInv'
<1>1. CASE pit_int_handler \/ UNCHANGED vars
  <2>1. /\ queue' = queue /\ at' = at /\ xm' = xm /\ input_packet' = input_packet
        /\ mouse' = mouse /\ screen_num' = screen_num /\ irq1' = irq1
    BY <1>1 DEF pit_int_handler, port, vars, screen
  <2> QED
    BY <2>1 DEF ClickInv, Packet, Meant, move_mouse
<1>2. CASE \E t \in Terminals : kbd_int_handler(t)
  <2>1. queue' = queue /\ at = "idle" /\ at' = "idle" /\ irq1
    BY <1>2 DEF kbd_int_handler, Consumed, PortInv
  <2>2. Packet(queue) => ~queue[1].left
    BY <2>1 DEF ClickInv, Meant
  <2> QED
    BY <2>1, <2>2 DEF ClickInv, Packet, Meant
<1>3. CASE PressKey
  <2>1. /\ queue' = queue /\ at = "idle" /\ at' = "idle" /\ ~ClickComing
    BY <1>3 DEF PressKey
  <2>2. Packet(queue) => ~queue[1].left
    BY <2>1 DEF ClickComing, Packet
  <2> QED
    BY <2>1, <2>2 DEF ClickInv, Packet, Meant
<1>4. CASE MovePointer
  <2>1. PICK f \in FirstByte, dx \in Movement, dy \in Movement :
          /\ queue' = <<f, dx, dy>>
          /\ f.left => /\ ~irq1
                       /\ \A t \in Button(move_mouse(dx.val, dy.val)) : screen_num = t + 1
    BY <1>4 DEF MovePointer
  <2>2. /\ at' = "idle" /\ mouse' = mouse /\ screen_num' = screen_num /\ irq1' = irq1
    BY <1>4 DEF MovePointer, screen
  <2>3. queue'[1] = f /\ queue'[2] = dx /\ queue'[3] = dy
    BY <2>1
  <2> QED
    BY <2>1, <2>2, <2>3 DEF ClickInv, Meant, move_mouse
<1>5. CASE MouseInterrupt
  <2>1. /\ queue' = queue /\ at = "idle" /\ at' = "status"
        /\ mouse' = mouse /\ screen_num' = screen_num /\ irq1' = irq1
    BY <1>5 DEF MouseInterrupt, port, screen
  <2> QED
    BY <2>1 DEF ClickInv, Packet, Meant, move_mouse
<1>6. CASE attempt_read
  <2>1. /\ at = "status" /\ Consumed /\ queue # <<>>
        /\ mouse' = mouse /\ screen_num' = screen_num /\ irq1' = irq1
    BY <1>6 DEF attempt_read, screen, QueueInv, Packet
  <2>2. /\ ReadPort = queue[1] /\ Len(queue') = Len(queue) - 1
        /\ \A i \in 1..Len(queue') : queue'[i] = queue[i + 1]
    BY <2>1, NextByte
  <2>3. ~Packet(queue)'
    BY <2>2 DEF Packet, TypeOK
  <2>4. CASE at' = "x"
    <3>1. input_packet' = queue[1] /\ queue[1].sync
      BY <1>6, <2>2, <2>4 DEF attempt_read, FirstOfPacket
    <3>2. Packet(queue)
      BY <2>1, <3>1, NotFirst DEF QueueInv, Dropped, TypeOK
    <3>3. Len(queue') = 2 /\ queue'[1] = queue[2] /\ queue'[2] = queue[3]
      BY <2>2, <3>2 DEF Packet
    <3>4. Meant(queue[1], queue[2], queue[3])
      BY <2>1, <3>2 DEF ClickInv
    <3> QED
      BY <2>1, <2>4, <3>1, <3>3, <3>4 DEF ClickInv, Meant, move_mouse
  <2>5. CASE at' = "idle"
    BY <2>3, <2>5 DEF ClickInv
  <2> QED
    BY <1>6, <2>4, <2>5 DEF attempt_read
<1>7. CASE ReadX
  <2>1. /\ at = "x" /\ at' = "y" /\ Consumed /\ xm' = ReadPort
        /\ Len(queue) = 2 /\ input_packet' = input_packet
        /\ mouse' = mouse /\ screen_num' = screen_num /\ irq1' = irq1
    BY <1>7 DEF ReadX, QueueInv, screen
  <2>2. at # "idle" /\ queue # <<>>
    BY <2>1
  <2>3. ReadPort = queue[1] /\ queue'[1] = queue[2]
    <3>1. /\ ReadPort = queue[1] /\ Len(queue') = Len(queue) - 1
          /\ \A i \in 1..Len(queue') : queue'[i] = queue[i + 1]
      BY <2>1, <2>2, NextByte
    <3> QED
      BY <2>1, <3>1
  <2>4. Meant(input_packet, queue[1], queue[2])
    BY <2>1 DEF ClickInv
  <2> QED
    BY <2>1, <2>3, <2>4 DEF ClickInv, Meant, move_mouse
<1>8. CASE ReadY
  <2>1. at = "y" /\ at' = "idle" /\ Consumed /\ Len(queue) = 1
    BY <1>8 DEF ReadY, QueueInv
  <2>2. at # "idle" /\ queue # <<>>
    BY <2>1
  <2>3. Len(queue') = 0
    <3>1. Len(queue') = Len(queue) - 1
      BY <2>1, <2>2, NextByte, Zenon
    <3> QED
      BY <2>1, <3>1
  <2>4. ~Packet(queue)'
    BY <2>3 DEF Packet
  <2> QED
    BY <2>1, <2>4 DEF ClickInv
<1> QED
  BY <1>1, <1>2, <1>3, <1>4, <1>5, <1>6, <1>7, <1>8 DEF Next

(* A switch from the terminal on the screen keeps every cursor.             *)
LEMMA SwitchKeeps ==
  ASSUME TypeOK, CursorsKept, NEW new \in Terminals, SwitchCursor(new, screen_num)
  PROVE  CursorsKept'
<1> DEFINE saved == [components EXCEPT ![screen_num] = cursor]
<1>1. /\ components' = [saved EXCEPT ![new] = None] /\ cursor' = saved[new]
      /\ screen_num' = new
  BY DEF SwitchCursor
<1>2. /\ components \in [0..3 -> Terminals \cup {None}] /\ Terminals \subseteq 0..3
      /\ screen_num \in Terminals
  BY DEF TypeOK, Terminals
<1>3. \A t \in Terminals : saved[t] = t
  BY <1>2 DEF CursorsKept
<1>4. saved \in [0..3 -> Terminals \cup {None}]
  BY <1>2 DEF TypeOK
<1> HIDE DEF saved
<1>5. \A t \in Terminals \ {new} : components'[t] = t
  BY <1>1, <1>2, <1>3, <1>4
<1> QED
  BY <1>1, <1>3, <1>5 DEF CursorsKept

LEMMA StepCursors ==
  ASSUME TypeOK, PortInv, QueueInv, ClickInv, CursorsKept, [Next]_vars
  PROVE  CursorsKept'
<1>1. ASSUME UNCHANGED <<screen_num, cursor, components>>
      PROVE  CursorsKept'
  BY <1>1 DEF CursorsKept
<1>2. CASE \E t \in Terminals : kbd_int_handler(t)
  BY <1>2, SwitchKeeps DEF kbd_int_handler
<1>3. CASE ReadY
  <2>1. at = "y" /\ Consumed /\ Len(queue) = 1
    BY <1>3 DEF ReadY, QueueInv
  <2>2. at # "idle" /\ queue # <<>>
    BY <2>1
  <2>3. ReadPort = queue[1]
    BY <2>1, <2>2, NextByte
  <2>4. Meant(input_packet, xm, queue[1])
    BY <2>1 DEF ClickInv
  <2> DEFINE hit == IF input_packet.left THEN Button(move_mouse(xm.val, ReadPort.val)) ELSE {}
  <2>5. \A t \in hit : t \in Terminals /\ screen_num = t + 1
    BY <2>3, <2>4 DEF Meant, Button
  <2>6. \/ UNCHANGED <<screen_num, cursor, components>>
        \/ \E t \in hit : SwitchCursor(t, t + 1)
    BY <1>3 DEF ReadY
  <2> HIDE DEF hit
  <2> QED
    BY <1>1, <2>5, <2>6, SwitchKeeps
<1>4. CASE pit_int_handler \/ PressKey \/ MovePointer \/ MouseInterrupt \/ attempt_read
           \/ ReadX \/ UNCHANGED vars
  BY <1>1, <1>4 DEF pit_int_handler, PressKey, MovePointer, MouseInterrupt, attempt_read,
                    ReadX, screen, vars
<1> QED
  BY <1>2, <1>3, <1>4 DEF Next

(* If besides a terminal's button is clicked only on the terminal that the   *)
(* code takes for the old one, no terminal loses its cursor, whether keys or *)
(* clicks switch.  Movements may overflow.                                   *)
THEOREM CursorsCorrect ==
  ASSUME "hands" \in Rules, "neighbour" \in Rules
  PROVE  Spec => []CursorsKept
<1> DEFINE CursorInv == TypeOK /\ PortInv /\ QueueInv /\ ClickInv /\ CursorsKept
<1>1. Init => CursorInv
  <2>1. Init => CursorsKept
    BY DEF Init, CursorsKept, Terminals
  <2> QED
    BY <2>1, InitType, InitPort
<1>2. CursorInv /\ [Next]_vars => CursorInv'
  BY StepType, StepPort, StepQueue, StepClick, StepCursors
<1> QED
  BY <1>1, <1>2, PTL DEF Spec
=============================================================================
