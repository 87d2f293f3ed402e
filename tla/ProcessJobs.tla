---------------------------- MODULE ProcessJobs -----------------------------
(***************************************************************************)
(* ProcessControl implements TerminalJobs: the stacks of jobs are read off *)
(* the kernel's own structures, the parent, child and child_flag of the    *)
(* PCBs that kbd_logic and halt rely on.                                   *)
(***************************************************************************)
EXTENDS ProcessControl, Sequences

Roots(t) == {p \in Live : pcb[p].parent = p /\ pcb[p].stdout = t}

\* The chain of children below a terminal's first shell, n links long or as
\* long as it is.
Chain(t) ==
    LET Below(s) == pcb[s[Len(s)]]
        chain[n \in Nat] ==
          IF n = 0 THEN << CHOOSE p \in Roots(t) : TRUE >>
          ELSE LET s == chain[n - 1] IN
               IF Below(s).child_flag /\ Below(s).child \in Live
                 THEN Append(s, Below(s).child) ELSE s
    IN chain

JobsOn(t) == IF Roots(t) = {} THEN <<>> ELSE Chain(t)[NPROC - 1]

Jobs == INSTANCE TerminalJobs WITH
            Slot <- Pid,
            jobs <- [t \in Term |-> JobsOn(t)],
            fg   <- screen_num,
            cpu  <- IF mode = "user" THEN run ELSE NULL

\* Under the discipline of its cfg the kernel keeps the terminals' promise:
\* every step of execute, halt, context_switch and the keyboard handler is a
\* step of TerminalJobs or leaves its state alone.
JobsSpec == Jobs!Spec
=============================================================================
