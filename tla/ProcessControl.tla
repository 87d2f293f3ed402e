--------------------------- MODULE ProcessControl ---------------------------
(***************************************************************************)
(* Processes of the FireballOS kernel: execute, halt, context_switch and   *)
(* the part of the keyboard handler that opens terminals and switches the  *)
(* CPU between them (systemcalls.c, paging.c, keyboard.c, wrapper.S).      *)
(*                                                                         *)
(* One CPU runs user code or the kernel.  Every process has its own kernel *)
(* stack of 8 KB below the 8 MB line, its PCB sits at the low end of that  *)
(* stack and is found again by the process's number alone.  A location     *)
(* [own, dep] stands for an ESP value: dep frames deep in own's stack.     *)
(* Nothing but the saved k_sp values says who can be resumed, so frames    *)
(* that have returned stay in the array as junk until overwritten.         *)
(*                                                                         *)
(* execute runs with interrupts enabled (syscall_handler does sti), so it  *)
(* is cut into phases between which a keyboard interrupt may arrive; the   *)
(* handlers themselves run with interrupts off and are one step each.      *)
(***************************************************************************)
EXTENDS Integers, FiniteSets

CONSTANTS
    NPROC,          \* process slots: 7 in the kernel (NUM_PD, execute's loop)
    NTERM,          \* terminals: 3 in the kernel
    StackDepth,     \* frames that fit between the top of a stack and its PCB
    Commands,       \* command lines a user may type at a shell
    Loadable,       \* commands whose file exists and is an ELF image
    Broken,         \* ... of which program_load fails half way
    Shell,          \* the command "shell"
    DebugKeys,      \* pids reached by Alt-F4 (0) and Alt-F5 (1)
    QuietLaunch,    \* no terminal key arrives while execute is running
    TerminalsFirst, \* the terminals are opened in order before any command
    NULL

Pid  == 0 .. NPROC - 1
Term == 0 .. NTERM - 1
Program == Commands \cup Loadable

ASSUME SizeAssumption ==
    /\ NPROC \in Nat \ {0} /\ NTERM \in 1 .. NPROC
    /\ StackDepth \in Nat \ {0}
ASSUME ProgramAssumption ==
    /\ Shell \in Loadable \ Broken /\ Broken \subseteq Loadable
    /\ DebugKeys \subseteq Pid
ASSUME FlagAssumption == QuietLaunch \in BOOLEAN /\ TerminalsFirst \in BOOLEAN
ASSUME NullAssumption == NULL \notin Pid /\ NULL \notin Program

VARIABLES
    open_processes, \* the slots whose bit is set in the mask
    process_id,     \* the global process_id
    curr_process,   \* the process curr_process points to
    initial_shell,  \* the next process becomes its own parent
    pcb,            \* the process control blocks, at fixed addresses
    parsed,         \* what the shared literals of parse and get_arg hold
    cr3, cur_PD,    \* page directory in use; the one paging.c writes to
    image,          \* the file loaded in each process's 4 MB page
    tss_esp0,       \* where a trap from user mode starts pushing
    mode,           \* "user", "kernel", or how the CPU was lost
    run,            \* the process whose user registers the CPU holds
    esp, stack,     \* kernel stack pointer and the kernel stacks
    screen_num,     \* the terminal on the screen
    fresh,          \* terminals whose term2/term3 flag is still set
    prog            \* the program each live process was started from

procVars == <<open_processes, process_id, curr_process, initial_shell, pcb>>
memVars  == <<cr3, cur_PD, image>>
cpuVars  == <<mode, run, esp, tss_esp0>>
termVars == <<screen_num, fresh>>
vars == <<procVars, memVars, cpuVars, termVars, parsed, stack, prog>>

-----------------------------------------------------------------------------
(* Stack frames.  An execute frame is in one of the phases of execute, is   *)
(* the suspended launcher of a "child", or is about to "return"; a keyboard *)
(* frame has called execute_syscall ("opening"), is suspended inside        *)
(* context_switch ("switched"), or is "done"; "spin" is the halt of a root  *)
(* shell.  prev is previous_pcb or prev_screen_num, ret the process whose   *)
(* user mode the frame irets to, NULL when it interrupted the kernel.       *)

Launching == {"alloc", "check", "map", "load", "init", "jump"}
Phase == Launching \cup
         {"child", "return", "opening", "switched", "done", "spin", "junk"}

Location == [own : Pid, dep : 0 .. StackDepth]
Frame == [at : Phase, prev : Pid \cup {NULL}, cmd : Program \cup {NULL},
          pd : Pid \cup {NULL}, ret : Pid \cup {NULL}]

Junk == [at |-> "junk", prev |-> NULL, cmd |-> NULL, pd |-> NULL, ret |-> NULL]
ExecuteFrame(cmd, prev, ret) ==
    [at |-> "alloc", prev |-> prev, cmd |-> cmd, pd |-> NULL, ret |-> ret]
KeyFrame(at, prev, ret) ==
    [at |-> at, prev |-> prev, cmd |-> NULL, pd |-> NULL, ret |-> ret]
SpinFrame(p) ==
    [at |-> "spin", prev |-> NULL, cmd |-> NULL, pd |-> NULL, ret |-> p]

Deeper(loc, n) == [loc EXCEPT !.dep = @ + n]
StackTop(p) == [own |-> p, dep |-> 0]
Nowhere == [own |-> NULL, dep |-> 0]
Put(st, loc, f) == [st EXCEPT ![loc.own][loc.dep] = f]
Top == stack[esp.own][esp.dep]
InKernel(phase) == mode = "kernel" /\ Top.at = phase

Pcb == [parent : Pid \cup {NULL}, child : Pid \cup {NULL},
        child_flag : BOOLEAN, k_sp : Location \cup {Nowhere},
        PD : Pid \cup {NULL}, stdout : Term \cup {NULL}]
BlankPcb == [parent |-> NULL, child |-> NULL, child_flag |-> FALSE,
             k_sp |-> Nowhere, PD |-> NULL, stdout |-> NULL]

(* The two ways to lose the CPU.  Lost: the kernel resumes a frame that has *)
(* returned before, or goes through a PCB that was never filled in or a     *)
(* NULL one; the CPU faults or runs with registers of the past.  Overflow:  *)
(* a kernel stack grows into the PCB at its low end.                        *)
Stop(m) ==
    /\ mode' = m
    /\ UNCHANGED <<procVars, memVars, parsed, stack, prog, run, esp, tss_esp0>>
Lost == Stop("lost")
Overflow == Stop("overflow")

Init ==
    /\ open_processes = {} /\ process_id = 0 /\ curr_process = NULL
    /\ initial_shell = TRUE
    /\ pcb = [p \in Pid |-> BlankPcb]
    /\ parsed = NULL
    /\ cr3 = 0 /\ cur_PD = 0
    /\ image = [p \in Pid |-> NULL] /\ prog = [p \in Pid |-> NULL]
    /\ tss_esp0 = StackTop(0)
    /\ mode = "kernel" /\ run = 0
    /\ esp = Deeper(StackTop(0), 1)
    /\ stack = [p \in Pid |-> [d \in 1 .. StackDepth |->
                   IF p = 0 /\ d = 1 THEN ExecuteFrame(Shell, NULL, NULL)
                                     ELSE Junk]]
    /\ screen_num = 0
    /\ fresh = Term \ {0}

-----------------------------------------------------------------------------
(* Entering the kernel and going back.                                     *)

\* Where the next frame goes: the TSS gives the stack of a trap from user
\* mode; an interrupt of the kernel stays on the stack in use.
Base == IF mode = "user" THEN tss_esp0 ELSE esp
ReturnTo == IF mode = "user" THEN run ELSE NULL
Fits(n) == Base.dep + n <= StackDepth

\* A frame that was suspended gets the CPU: execute goes on at ret_halt, the
\* keyboard handler at the end of context_switch.
WokenButNotMoved(f) == f    \* slip: jmp ret_halt left out
Woken(f) == [f EXCEPT !.at = IF @ = "child" THEN "return" ELSE "done"]
Resumable(st, loc) ==
    /\ loc # Nowhere /\ loc.dep > 0
    /\ st[loc.own][loc.dep].at \in {"child", "switched"}
Resume(st, loc) ==
    /\ mode' = "kernel" /\ esp' = loc
    /\ stack' = Put(st, loc, Woken(st[loc.own][loc.dep]))

\* What halt and context_switch load for the process they resume.
LoadCpu(p) == cr3' = pcb[p].PD /\ tss_esp0' = pcb[p].k_sp

\* previous_pcb->k_sp or curr_process->k_sp takes the stack pointer.
SavedNowhere(p, loc) == pcb     \* slip: the stack pointer is not saved
Saved(p, loc) == [pcb EXCEPT ![p].k_sp = loc]

\* iret, or the return to the frame below on the same stack: one that was
\* interrupted, or that called execute_syscall.
Interrupted(loc) ==
    /\ loc.dep > 0
    /\ stack[loc.own][loc.dep].at \in Launching \cup {"opening", "spin"}
Leave ==
    /\ stack' = Put(stack, esp, Junk)
    /\ IF Top.ret # NULL
         THEN mode' = "user" /\ run' = Top.ret /\ UNCHANGED esp
         ELSE /\ esp' = Deeper(esp, -1)
              /\ mode' = IF Interrupted(Deeper(esp, -1)) THEN "kernel" ELSE "lost"
              /\ UNCHANGED run
    /\ UNCHANGED <<procVars, memVars, termVars, parsed, prog, tss_esp0>>

-----------------------------------------------------------------------------
(* execute *)

\* int 0x80 with EAX = 2 from a shell's user code: only the shell program
\* calls execute, with the line that was typed.
ExecuteCall(cmd) ==
    /\ mode = "user" /\ prog[run] = Shell
    /\ TerminalsFirst => fresh = {}
    /\ IF ~Fits(1) THEN Overflow ELSE
        /\ esp' = Deeper(Base, 1) /\ mode' = "kernel"
        /\ stack' = Put(stack, Deeper(Base, 1),
                        ExecuteFrame(cmd, curr_process, run))
        /\ UNCHANGED <<procVars, memVars, parsed, prog, run, tss_esp0>>
    /\ UNCHANGED termVars

\* The frame on top of the stack moves to another phase.
Advance(at) == stack' = Put(stack, esp, [Top EXCEPT !.at = at])
kernelStays == UNCHANGED <<mode, run, esp, tss_esp0>>

\* parse, get_arg and the search for a clear bit, lowest slot first.
IsLowest(slot) == slot = 0          \* slip: the mask is not tested
IsFirstFree(slot) ==
    slot \notin open_processes /\ \A p \in Pid \ open_processes : slot <= p
ExecuteAlloc ==
    /\ InKernel("alloc")
    /\ parsed' = Top.cmd
    /\ \/ /\ Pid \subseteq open_processes
          /\ Advance("return")
          /\ UNCHANGED <<open_processes, process_id>>
       \/ \E slot \in Pid :
            /\ ~(Pid \subseteq open_processes) /\ IsFirstFree(slot)
            /\ open_processes' = open_processes \cup {slot}
            /\ process_id' = slot
            /\ Advance("check")
    /\ UNCHANGED <<curr_process, initial_shell, pcb, memVars, termVars, prog>>
    /\ kernelStays

\* The directory entry and the ELF magic of the parsed name; the entry point
\* of that file is a local variable from here on.
ExecuteCheck ==
    /\ InKernel("check")
    /\ stack' = Put(stack, esp,
          [Top EXCEPT !.at = IF parsed \in Loadable THEN "map" ELSE "return",
                      !.cmd = parsed])
    /\ UNCHANGED <<procVars, memVars, termVars, parsed, prog>>
    /\ kernelStays

\* task_mem_init(process_id): the slot's page directory becomes the current
\* one, for paging.c and for the CPU.
ExecuteMap ==
    /\ InKernel("map")
    /\ cr3' = process_id /\ cur_PD' = process_id
    /\ stack' = Put(stack, esp, [Top EXCEPT !.at = "load", !.pd = process_id])
    /\ UNCHANGED <<procVars, image, termVars, parsed, prog>>
    /\ kernelStays

\* program_load copies the parsed file to the program address, that is into
\* the page of whatever directory CR3 holds.
ExecuteLoad ==
    /\ InKernel("load")
    /\ IF parsed \in Broken
         THEN Advance("return") /\ UNCHANGED image
         ELSE image' = [image EXCEPT ![cr3] = parsed] /\ Advance("init")
    /\ UNCHANGED <<procVars, cr3, cur_PD, termVars, parsed, prog>>
    /\ kernelStays

\* The new PCB.  Its child_flag keeps what the slot's last user left unless
\* the process is a terminal's first shell.
NewPcbOnFirstScreen(p) ==   \* slip: stdout ignores screen_num
    [pcb[p] EXCEPT !.PD = Top.pd, !.k_sp = StackTop(p), !.stdout = 0]
NewPcb(p) == [pcb[p] EXCEPT !.PD = Top.pd, !.k_sp = StackTop(p),
                            !.stdout = screen_num]
ExecuteInit ==
    /\ InKernel("init")
    /\ IF ~initial_shell /\ Top.prev = NULL THEN Lost ELSE
        /\ curr_process' = process_id
        /\ pcb' = IF initial_shell
             THEN [pcb EXCEPT ![process_id] =
                     [NewPcb(process_id) EXCEPT !.parent = process_id,
                                                !.child_flag = FALSE,
                                                !.child = NULL]]
             ELSE [p \in Pid |->
                     LET q == IF p = process_id
                                THEN [NewPcb(p) EXCEPT !.parent = Top.prev]
                                ELSE pcb[p]
                     IN IF p = Top.prev
                          THEN [q EXCEPT !.child_flag = TRUE,
                                         !.child = process_id]
                          ELSE q]
        /\ initial_shell' = FALSE
        /\ Advance("jump")
        /\ UNCHANGED <<open_processes, process_id, memVars, parsed, prog>>
        /\ kernelStays
    /\ UNCHANGED termVars

\* TSS, the launcher's stack pointer, and the iret of jump_to_userspace.
ExecuteJump ==
    /\ InKernel("jump")
    /\ tss_esp0' = pcb[curr_process].k_sp
    /\ pcb' = IF Top.prev = NULL THEN pcb
              ELSE Saved(Top.prev, esp)
    /\ Advance("child")
    /\ mode' = "user" /\ run' = curr_process
    /\ prog' = [prog EXCEPT ![curr_process] = Top.cmd]
    /\ UNCHANGED <<open_processes, process_id, curr_process, initial_shell,
                   memVars, termVars, parsed, esp>>

\* execute returns to the shell that called it, or to the keyboard handler.
ExecuteReturn == InKernel("return") /\ Leave

-----------------------------------------------------------------------------
(* halt *)

\* open_processes ^= MASK >> process_id.
ToggledParent(p) ==     \* slip: the launcher's bit instead of the halter's
    LET q == pcb[p].parent IN
    (open_processes \ {q}) \cup ({q} \ open_processes)
Toggled(p) == (open_processes \ {p}) \cup ({p} \ open_processes)

\* The root shell of a terminal spins in while(1) with interrupts on; any
\* other process gives its slot back and the launcher goes on at ret_halt.
\* cur_PD is not touched.
Halt ==
    LET p == curr_process
        q == pcb[p].parent
        loc == pcb[q].k_sp
        st == Put(stack, Deeper(Base, 1), Junk)
    IN
    /\ mode = "user"
    /\ IF ~Fits(1) THEN Overflow ELSE IF q = NULL THEN Lost
       ELSE IF q = p THEN
        /\ esp' = Deeper(Base, 1) /\ mode' = "kernel"
        /\ stack' = Put(stack, Deeper(Base, 1), SpinFrame(run))
        /\ UNCHANGED <<procVars, memVars, parsed, prog, run, tss_esp0>>
       ELSE IF ~Resumable(st, loc) THEN Lost
       ELSE
        /\ open_processes' = Toggled(p)
        /\ pcb' = [pcb EXCEPT ![q].child_flag = FALSE]
        /\ LoadCpu(q)
        /\ curr_process' = q
        /\ prog' = [prog EXCEPT ![p] = NULL]
        /\ Resume(st, loc)
        /\ UNCHANGED <<process_id, initial_shell, cur_PD, image, parsed, run>>
    /\ UNCHANGED termVars

-----------------------------------------------------------------------------
(* Alt-F1 .. Alt-F3, Alt-F4 and Alt-F5 *)

KeyAllowed ==
    \/ mode = "user"
    \/ InKernel("spin")
    \/ ~QuietLaunch /\ mode = "kernel" /\ Top.at \in Launching

\* context_switch(p), called with the stack pointer at loc of the stacks st.
\* The new process's registers are read before the old one's are saved.
ContextSwitch(p, loc, st) ==
    IF curr_process = NULL \/ ~Resumable(st, pcb[p].k_sp) THEN Lost ELSE
      /\ LoadCpu(p)
      /\ process_id' = p
      /\ pcb' = Saved(curr_process, loc)
      /\ curr_process' = p
      /\ Resume(st, pcb[p].k_sp)
      /\ UNCHANGED <<open_processes, initial_shell, cur_PD, image, parsed,
                     prog, run>>

\* kbd_logic takes process number t for the first shell of terminal t.
FirstShell(t) == t      \* slip: child_flag not looked at
Target(t) == IF pcb[t].child_flag THEN pcb[t].child ELSE t

\* Alt-F2 or Alt-F3 for the first time: the handler calls execute("shell")
\* on the stack of whatever it interrupted, as a process without a parent.
OpenTerminal(t) ==
    LET loc == Deeper(Base, 1) IN
    /\ KeyAllowed /\ t \in fresh
    /\ TerminalsFirst => \A s \in fresh : t <= s
    /\ screen_num' = t
    /\ fresh' = fresh \ {t}
    /\ IF ~Fits(2) THEN Overflow ELSE
        /\ initial_shell' = TRUE
        /\ stack' = Put(Put(stack, loc,
                            KeyFrame("opening", screen_num, ReturnTo)),
                        Deeper(loc, 1),
                        ExecuteFrame(Shell, curr_process, NULL))
        /\ esp' = Deeper(loc, 1) /\ mode' = "kernel"
        /\ UNCHANGED <<open_processes, process_id, curr_process, pcb, memVars,
                       parsed, prog, run, tss_esp0>>

\* Any later Alt-F1 .. Alt-F3 to another terminal than the one shown.
SwitchTerminal(t) ==
    LET loc == Deeper(Base, 1) IN
    /\ KeyAllowed /\ t \notin fresh /\ t # screen_num
    /\ screen_num' = t /\ UNCHANGED fresh
    /\ IF ~Fits(1) THEN Overflow ELSE
        ContextSwitch(Target(t), loc,
                Put(stack, loc, KeyFrame("switched", screen_num, ReturnTo)))

\* kbd_logic after execute_syscall has come back: the shell it opened was
\* switched away from, or could not be started.
OpenContinue ==
    /\ InKernel("opening")
    /\ IF screen_num # Top.prev
         THEN ContextSwitch(Target(screen_num), esp,
                  Put(stack, esp, [Top EXCEPT !.at = "switched"]))
         ELSE /\ Advance("done") /\ kernelStays
              /\ UNCHANGED <<procVars, memVars, parsed, prog>>
    /\ UNCHANGED termVars

\* Alt-F4 and Alt-F5 call context_switch with the display left alone.
DebugKey(p) ==
    LET loc == Deeper(Base, 1) IN
    /\ KeyAllowed
    /\ IF ~Fits(1) THEN Overflow ELSE
        ContextSwitch(p, loc,
            Put(stack, loc, KeyFrame("switched", screen_num, ReturnTo)))
    /\ UNCHANGED termVars

KeyReturn == InKernel("done") /\ Leave

-----------------------------------------------------------------------------
KernelStep ==
    \/ ExecuteAlloc \/ ExecuteCheck \/ ExecuteMap \/ ExecuteLoad
    \/ ExecuteInit \/ ExecuteJump \/ ExecuteReturn
    \/ OpenContinue \/ KeyReturn

Next ==
    \/ KernelStep
    \/ \E cmd \in Commands : ExecuteCall(cmd)
    \/ Halt
    \/ \E t \in Term : OpenTerminal(t) \/ SwitchTerminal(t)
    \/ \E p \in DebugKeys : DebugKey(p)

Spec == Init /\ [][Next]_vars

\* The kernel goes on as long as it has something to do.
FairSpec == Spec /\ WF_vars(KernelStep)

-----------------------------------------------------------------------------
(* What makes process control correct. *)

Live == {p \in Pid : prog[p] # NULL}

\* Every variable has its type.
TypeOK ==
    /\ open_processes \subseteq Pid /\ process_id \in Pid
    /\ curr_process \in Pid \cup {NULL} /\ initial_shell \in BOOLEAN
    /\ pcb \in [Pid -> Pcb]
    /\ parsed \in Program \cup {NULL}
    /\ cr3 \in Pid /\ cur_PD \in Pid
    /\ image \in [Pid -> Program \cup {NULL}]
    /\ prog \in [Pid -> Program \cup {NULL}]
    /\ tss_esp0 \in Location
    /\ mode \in {"user", "kernel", "lost", "overflow"}
    /\ run \in Pid /\ esp \in Location
    /\ stack \in [Pid -> [1 .. StackDepth -> Frame]]
    /\ screen_num \in Term /\ fresh \subseteq Term \ {0}

\* The bit of every process that has been started and has not halted is set,
\* so execute's search never hands its slot to another process.
LiveSlotsOpen == Live \subseteq open_processes

\* The page of every such process still holds the file it was started from:
\* no program_load went to the page of a process that is still needed.
ImagesIntact == \A p \in Live : image[p] = prog[p]

\* User code runs as the process the kernel thinks it is: curr_process, the
\* page directory and the stack of the TSS all belong to it.
CpuConsistent ==
    mode = "user" => /\ curr_process = run /\ cr3 = run
                     /\ tss_esp0.own = run /\ run \in Live

\* Where the frames below a suspended location will end up in user mode: the
\* nearest frame at or below it that came from there.
Home(loc) ==
    LET user == {d \in 1 .. loc.dep : stack[loc.own][d].ret # NULL}
    IN IF user = {} THEN NULL
       ELSE stack[loc.own][CHOOSE d \in user : \A e \in user : e <= d].ret

\* While a process runs, what every other live process needs to go on is
\* where its PCB says: a frame that can be resumed, on its own stack, that
\* leads back to its own user code.
SuspendedIntact ==
    mode = "user" => \A p \in Live \ {run} :
        LET loc == pcb[p].k_sp IN
        /\ Resumable(stack, loc) /\ loc.own = p /\ Home(loc) = p
        /\ pcb[p].PD = p

\* The process that runs is one that writes to the terminal on the screen.
ForegroundRuns == mode = "user" => pcb[run].stdout = screen_num

\* A shell whose command has not halted does not run.
LauncherWaits ==
    mode = "user" => \A p \in Live \ {run} : pcb[p].parent # run

\* Whoever runs is the one that should: its own pages, stack and terminal,
\* and nobody it has started and that has not ended.
RightProcessRuns == CpuConsistent /\ ForegroundRuns /\ LauncherWaits

\* Below the point where the next trap starts pushing, the running process's
\* kernel stack holds nothing but frames that are still needed.
StackUnwound ==
    mode = "user" => \A d \in 1 .. tss_esp0.dep :
                         stack[tss_esp0.own][d].at # "junk"

\* The kernel never resumes what is not there.
NeverLost == mode # "lost"

\* Who waits can go on and does: its frames are there when it is looked for,
\* and are found when it is resumed.
NothingLost == SuspendedIntact /\ NeverLost

\* The kernel always gets back to a program, unless the root shell's halt
\* spins: no chain of resumed frames goes round for ever.
KernelFinishes ==
    (mode = "kernel") ~> (mode # "kernel" \/ InKernel("spin"))
=============================================================================
