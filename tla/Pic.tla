-------------------------------- MODULE Pic --------------------------------
(* The pair of 8259 interrupt controllers as i8259.c drives it.  A          *)
(* controller state is a record of three sets of IRQ lines: masked lines,   *)
(* lines whose request is latched, and lines in service.  Line 2 of the     *)
(* master stands for the slave.  What the chips do with the bytes they are  *)
(* sent (fully nested mode, specific end of interrupt) is external.         *)
EXTENDS Integers, FiniteSets

PIT == 0
KEYBOARD == 1
CASCADE == 2
RTC_LINE == 8
MOUSE == 12
GREATEST_IRQ == 8                  \* the first line of the slave

Devices == {PIT, KEYBOARD, RTC_LINE, MOUSE}
Lines == Devices \cup {CASCADE}
PicState == [mask: SUBSET Lines, irr: SUBSET Devices, isr: SUBSET Lines]

(* The output latched while everything was still masked survives           *)
(* i8259_init; afterwards only the line of the slave is open.              *)
i8259_init(p) == [p EXCEPT !.mask = Lines \ {CASCADE}]

(* A line of the slave is bit irq - 8 of the slave's own mask byte. *)
EnableIrq(p, i) == [p EXCEPT !.mask = @ \ {i}]

DisableNothing(p, i) == p  \* slip
DisableIrq(p, i) == [p EXCEPT !.mask = @ \cup {i}]

(* A line of the slave is ended at both controllers. *)
SendEoi(p, i) ==
  [p EXCEPT !.isr = @ \ ({i} \cup IF i < GREATEST_IRQ THEN {} ELSE {CASCADE})]

(* The chips: a request is passed on if its line is open, nothing of the   *)
(* same or a higher priority is in service and no better request waits.    *)
Raise(p, i) == [p EXCEPT !.irr = @ \cup {i}]

Open(p, i) ==
  /\ i \in p.irr \ p.mask
  /\ i >= GREATEST_IRQ => CASCADE \notin p.mask
  /\ \A j \in p.isr : j > i

Deliverable(p, i) == Open(p, i) /\ \A j \in Devices : Open(p, j) => i <= j

Acknowledge(p, i) ==
  [p EXCEPT !.irr = @ \ {i},
            !.isr = @ \cup {i} \cup IF i < GREATEST_IRQ THEN {} ELSE {CASCADE}]
=============================================================================
