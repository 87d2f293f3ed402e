---- MODULE MCProcessMemory ----
(* Four slots, two terminals, and the ends of every mapped region. *)
EXTENDS ProcessMemory
CONSTANTS a, fish
MCPointers == {0, _128MB, _128MB + MB4 - 4, _128MB + MB4}
MCProbes == {KERNEL_MEM + MB4 - 1, USER_VID, USER_VID + Page,
             PGRM_IMG, _128MB + MB4 - 1, _128MB + MB4}
====
