-------------------------------- MODULE Cmos --------------------------------
(* The clock chip behind the index port 0x70 and the data port 0x71, as     *)
(* rtc.c uses it.  Of register A the rate and whether the oscillator runs   *)
(* are kept, of register B the periodic interrupt enable bit and whether    *)
(* its mode bits are the ones the firmware left, of register C the periodic *)
(* flag.  A value read from the data port is named by its register: only    *)
(* its upper bits are used again, and they depend on nothing else.          *)
EXTENDS Integers

Register == {"A", "B", "C", "D"}
Rate == 1..15
INIT_RATE == 14

Chip == [index: Register, rate: Rate, runs: BOOLEAN, pie: BOOLEAN,
         mode: BOOLEAN, flag: BOOLEAN]

AtReset == [index |-> "D", rate |-> 6, runs |-> TRUE, pie |-> FALSE,
            mode |-> TRUE, flag |-> FALSE]

Interrupting(c) == c.flag /\ c.pie

(* A read resets the index to register D; reading C clears the flag. *)
Selected(c, r) == [c EXCEPT !.index = r]
AfterGet(c) == [c EXCEPT !.index = "D", !.flag = @ /\ c.index # "C"]

(* rtc_int_handler reads C and throws the value away. *)
DiscardedWrong(c) == AfterGet(Selected(c, "B"))  \* slip
Discarded(c) == AfterGet(Selected(c, "C"))

(* C and D cannot be written.  The bits kept from a value of another       *)
(* register stop the oscillator or change the mode.                        *)
AfterPut(c, prev, rate) ==
  CASE c.index = "A" -> [c EXCEPT !.rate = rate, !.runs = @ /\ prev = "A"]
    [] c.index = "B" -> [c EXCEPT !.pie = TRUE, !.mode = @ /\ prev = "B"]
    [] OTHER -> c

(* The eight port operations that init_rtc and rtc_write have in common. *)
PortOps ==
  << [op |-> "select", reg |-> "A"], [op |-> "get"],
     [op |-> "select", reg |-> "A"], [op |-> "put"],
     [op |-> "select", reg |-> "B"], [op |-> "get"],
     [op |-> "select", reg |-> "B"], [op |-> "put"] >>

(* The rate is searched from 2 on until it generates the frequency, and     *)
(* then lowered by one.  Only powers of two are ever found.                 *)
LOWEST_FREQ == 2
HIGHEST_FREQ == 1024
Hz(rate) == 32768 \div 2 ^ (rate - 1)

Found(f) == {r \in 2..16 : Hz(r) = f}
RateFor(f) == (CHOOSE r \in Found(f) : TRUE) - 1
=============================================================================
