---- MODULE MCInterrupts ----
(* Interrupts with two processes, of which the first boots and uses the clock. *)
EXTENDS Interrupts, TLC
MCUsers == {First}
MCFreqs == {1, 2, 1025}
MCRules == {"quiet"}
====
