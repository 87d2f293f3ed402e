---------------------------- MODULE TerminalJobs ----------------------------
(***************************************************************************)
(* What the terminals promise to their user, with no word on how the       *)
(* kernel does it: a terminal is a stack of jobs, its shell at the bottom; *)
(* only the newest job of the terminal on the screen has the CPU; a job    *)
(* that ends hands over to the one that started it; switching terminals    *)
(* neither loses nor ends a job.                                           *)
(***************************************************************************)
EXTENDS Sequences, Naturals

CONSTANTS Slot, Term, Program, Shell, NULL

VARIABLES
    jobs,   \* the jobs of each terminal, oldest first
    prog,   \* the program each job runs; NULL for a free slot
    fg,     \* the terminal on the screen
    cpu     \* the job that runs; NULL while the kernel does

jobVars == <<jobs, prog, fg, cpu>>

Newest(t) == jobs[t][Len(jobs[t])]

Init ==
    /\ jobs = [t \in Term |-> <<>>]
    /\ prog = [p \in Slot |-> NULL]
    /\ fg = 0
    /\ cpu = NULL

\* A terminal starts with a shell, and a shell starts any other job.
Start(p, c) ==
    /\ cpu = NULL /\ prog[p] = NULL
    /\ IF jobs[fg] = <<>> THEN c = Shell ELSE prog[Newest(fg)] = Shell
    /\ jobs' = [jobs EXCEPT ![fg] = Append(@, p)]
    /\ prog' = [prog EXCEPT ![p] = c]
    /\ cpu' = p
    /\ UNCHANGED fg

\* The shell at the bottom never ends.
Finish ==
    /\ cpu # NULL /\ Len(jobs[fg]) > 1
    /\ jobs' = [jobs EXCEPT ![fg] = SubSeq(@, 1, Len(@) - 1)]
    /\ prog' = [prog EXCEPT ![cpu] = NULL]
    /\ cpu' = NULL
    /\ UNCHANGED fg

EnterKernel == cpu # NULL /\ cpu' = NULL /\ UNCHANGED <<jobs, prog, fg>>

GoOn ==
    /\ cpu = NULL /\ jobs[fg] # <<>>
    /\ cpu' = Newest(fg)
    /\ UNCHANGED <<jobs, prog, fg>>

Switch(t) == fg' = t /\ cpu' = NULL /\ UNCHANGED <<jobs, prog>>

Next ==
    \/ \E p \in Slot, c \in Program : Start(p, c)
    \/ Finish \/ EnterKernel \/ GoOn
    \/ \E t \in Term : Switch(t)

Spec == Init /\ [][Next]_jobVars
=============================================================================
