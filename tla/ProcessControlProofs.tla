------------------------ MODULE ProcessControlProofs ------------------------
(***************************************************************************)
(* Proofs about ProcessControl, for every number of slots, terminals,      *)
(* stack frames and commands:                                              *)
(*  - TypeCorrect: the type invariant, whatever the keyboard does;         *)
(*  - SlotsProtected, ImagesProtected: if no terminal key arrives while    *)
(*    execute is running, no live process's slot is free and no live       *)
(*    process's page is loaded over;                                       *)
(*  - RightProcess, NothingIsLost: if besides the terminals are opened     *)
(*    first and no command is a shell or fails while it is loaded, who     *)
(*    runs is who should, and who waits can go on;                         *)
(*  - JobsImplemented: the kernel then implements TerminalJobs.            *)
(***************************************************************************)
EXTENDS ProcessJobs, SequenceTheorems, WellFoundedInduction, TLAPS

-----------------------------------------------------------------------------
(* The inductive invariant behind TypeOK. *)

\* The PCBs that execute has filled in.
Filled == {p \in Pid : pcb[p].k_sp # Nowhere /\ pcb[p].PD # NULL}

\* Phases in which the local PD_ptr of execute is set.
Mapped == {"load", "init", "jump"}

\* What the frames of a stack rely on: execute's page directory, and a
\* launcher whose PCB is in the set F.
Sound(st, F) ==
    \A p \in Pid : \A d \in 1 .. StackDepth :
        /\ st[p][d].at \in Mapped => st[p][d].pd # NULL
        /\ st[p][d].at \in Launching /\ st[p][d].prev # NULL
              => st[p][d].prev \in F

\* No frame came from user mode, no process is about to be jumped to.
Pristine(st) ==
    \A p \in Pid : \A d \in 1 .. StackDepth :
        st[p][d].ret = NULL /\ st[p][d].at # "jump"

FramesSound == Sound(stack, Filled)

\* Before the first process is set up the kernel is all there is.
BootSound == curr_process = NULL => mode # "user" /\ Pristine(stack)

TypeInv ==
    /\ TypeOK
    /\ mode = "kernel" => esp.dep > 0
    /\ curr_process # NULL => curr_process \in Filled
    /\ \A p \in Pid : pcb[p].k_sp # Nowhere => p \in Filled
    /\ \A p \in Pid : pcb[p].child_flag => pcb[p].child # NULL
    /\ FramesSound
    /\ BootSound

-----------------------------------------------------------------------------
(* The inductive invariant behind LiveSlotsOpen and ImagesIntact. *)

\* Only the frame at loc may be in a launching phase; none is.
OnlyAt(st, loc) ==
    \A p \in Pid : \A d \in 1 .. StackDepth :
        st[p][d].at \in Launching => p = loc.own /\ d = loc.dep
Quiescent(st) ==
    \A p \in Pid : \A d \in 1 .. StackDepth : st[p][d].at \notin Launching

\* At most one execute is between its call and its jump to user mode, and it
\* is what the kernel is executing.
OneLaunch ==
    /\ mode = "user" => Quiescent(stack)
    /\ mode = "kernel" => OnlyAt(stack, esp)

\* The slot being launched is taken, nobody lives in it, and from map on the
\* CPU, the frame and the page agree on it and on the file.
LaunchSound ==
    mode = "kernel" =>
        /\ Top.at \in {"check", "map", "load", "init"} =>
              process_id \in open_processes /\ process_id \notin Live
        /\ Top.at \in {"map", "load"} => parsed = Top.cmd
        /\ Top.at \in {"load", "init"} => cr3 = process_id
        /\ Top.at = "init" => image[process_id] = Top.cmd
        /\ Top.at = "jump" =>
              /\ curr_process \in open_processes \ Live
              /\ image[curr_process] = Top.cmd

SlotInv == OneLaunch /\ LaunchSound /\ LiveSlotsOpen /\ ImagesIntact

-----------------------------------------------------------------------------
(* Stacks and frames. *)

Stacks == [Pid -> [1 .. StackDepth -> Frame]]

\* What Put stores, and where.
LEMMA PutLemma ==
    ASSUME NEW st \in Stacks, NEW loc \in Location, loc.dep > 0,
           NEW f \in Frame
    PROVE  /\ Put(st, loc, f) \in Stacks
           /\ \A p \in Pid : \A d \in 1 .. StackDepth :
                 Put(st, loc, f)[p][d] =
                     IF p = loc.own /\ d = loc.dep THEN f ELSE st[p][d]
<1>1. loc.own \in Pid /\ loc.dep \in 1 .. StackDepth
  BY SizeAssumption DEF Location, Pid
<1> QED
  BY <1>1 DEF Put, Stacks

\* The frames the handlers build are frames.
LEMMA FrameLemma ==
    /\ Junk \in Frame
    /\ \A cmd \in Program, p \in Pid \cup {NULL}, r \in Pid \cup {NULL} :
          ExecuteFrame(cmd, p, r) \in Frame
    /\ \A at \in Phase, t \in Term, r \in Pid \cup {NULL} :
          KeyFrame(at, t, r) \in Frame
    /\ \A p \in Pid : SpinFrame(p) \in Frame
BY SizeAssumption
   DEF Frame, Junk, ExecuteFrame, KeyFrame, SpinFrame, Phase, Launching,
       Term, Pid

LEMMA WokenLemma ==
    ASSUME NEW f \in Frame
    PROVE  /\ Woken(f) \in Frame
           /\ Woken(f).at \in {"return", "done"}
           /\ Woken(f).ret = f.ret
BY DEF Frame, Woken, Phase

LEMMA DeeperLemma ==
    ASSUME NEW loc \in Location, NEW n \in Nat, loc.dep + n <= StackDepth
    PROVE  /\ Deeper(loc, n) \in Location
           /\ Deeper(loc, n).own = loc.own /\ Deeper(loc, n).dep = loc.dep + n
BY SizeAssumption DEF Deeper, Location

-----------------------------------------------------------------------------
(* Type correctness. *)

LEMMA TypeInit == Init => TypeInv
<1> SUFFICES ASSUME Init PROVE TypeInv
  OBVIOUS
<1>1. 0 \in Pid /\ 0 \in Term /\ StackDepth >= 1
  BY SizeAssumption DEF Pid, Term
<1>2. ExecuteFrame(Shell, NULL, NULL) \in Frame /\ Junk \in Frame
  BY FrameLemma, ProgramAssumption DEF Program
<1>3. StackTop(0) \in Location /\ esp \in Location /\ esp.dep > 0
  BY <1>1, SizeAssumption DEF Init, StackTop, Deeper, Location
<1>4. stack \in Stacks
  BY <1>2 DEF Init, Stacks
<1>5. BlankPcb \in Pcb
  BY DEF BlankPcb, Pcb
<1>6. TypeOK
  BY <1>1, <1>3, <1>4, <1>5 DEF Init, TypeOK, Stacks
<1>7. \A p \in Pid : \A d \in 1 .. StackDepth :
        /\ stack[p][d].at \in {"alloc", "junk"}
        /\ stack[p][d].prev = NULL /\ stack[p][d].ret = NULL
  BY DEF Init, ExecuteFrame, Junk
<1>8. FramesSound /\ BootSound
  BY <1>7 DEF FramesSound, BootSound, Sound, Pristine, Mapped, Init
<1>9. \A p \in Pid : pcb[p].k_sp = Nowhere /\ pcb[p].child_flag = FALSE
  BY DEF Init, BlankPcb
<1> QED
  BY <1>3, <1>6, <1>8, <1>9 DEF TypeInv, Init

\* What the type invariant says of the frame on top and of the base.
LEMMA TopLemma ==
    ASSUME TypeInv, mode = "kernel"
    PROVE  /\ esp \in Location /\ esp.own \in Pid
           /\ esp.dep \in 1 .. StackDepth /\ esp.dep > 0
           /\ Top \in Frame
BY SizeAssumption DEF TypeInv, TypeOK, Top, Location

LEMMA BaseLemma ==
    ASSUME TypeInv
    PROVE  Base \in Location /\ ReturnTo \in Pid \cup {NULL}
BY DEF TypeInv, TypeOK, Base, ReturnTo

\* Storing a sound frame keeps a stack sound, and pristine.
LEMMA SoundLemma ==
    ASSUME NEW st \in Stacks, NEW F, NEW G, F \subseteq G, Sound(st, F),
           NEW loc \in Location, loc.dep > 0, NEW f \in Frame,
           f.at \in Mapped => f.pd # NULL,
           f.at \in Launching /\ f.prev # NULL => f.prev \in G
    PROVE  Sound(Put(st, loc, f), G)
BY PutLemma DEF Sound

LEMMA PristineLemma ==
    ASSUME NEW st \in Stacks, Pristine(st),
           NEW loc \in Location, loc.dep > 0, NEW f \in Frame,
           f.ret = NULL, f.at # "jump"
    PROVE  Pristine(Put(st, loc, f))
BY PutLemma DEF Pristine

\* The facts about the stacks that every step starts from.
LEMMA StackFacts ==
    ASSUME TypeInv
    PROVE  /\ stack \in Stacks /\ Sound(stack, Filled)
           /\ curr_process = NULL => Pristine(stack)
           /\ mode = "user" => curr_process \in Filled /\ curr_process \in Pid
           /\ pcb \in [Pid -> Pcb] /\ Filled \subseteq Pid
           /\ \A p \in Filled : pcb[p].k_sp \in Location /\ pcb[p].PD \in Pid
BY DEF TypeInv, TypeOK, Stacks, FramesSound, BootSound, Filled, Pcb

\* Losing the CPU changes mode only.
LEMMA StopStep ==
    ASSUME TypeInv, Lost \/ Overflow, screen_num' \in Term,
           fresh' \subseteq Term \ {0}
    PROVE  TypeInv'
<1>1. TypeOK'
  BY DEF TypeInv, TypeOK, Lost, Overflow, Stop, procVars, memVars
<1>2. Filled' = Filled
  BY DEF Filled, Lost, Overflow, Stop, procVars
<1>3. FramesSound' /\ BootSound'
  BY <1>2, StackFacts
     DEF FramesSound, BootSound, Lost, Overflow, Stop, procVars
<1> QED
  BY <1>1, <1>2, <1>3 DEF TypeInv, Lost, Overflow, Stop, procVars

\* One frame of the stacks changes and the PCBs stay.
LEMMA FrameStep ==
    ASSUME TypeInv, UNCHANGED <<pcb, curr_process>>,
           NEW loc \in Location, loc.dep > 0, NEW f \in Frame,
           stack' = Put(stack, loc, f),
           f.at \in Mapped => f.pd # NULL,
           f.at \in Launching /\ f.prev # NULL => f.prev \in Filled,
           curr_process = NULL =>
               f.ret = NULL /\ f.at # "jump" /\ mode' # "user"
    PROVE  /\ stack' \in [Pid -> [1 .. StackDepth -> Frame]]
           /\ FramesSound' /\ BootSound'
           /\ curr_process' # NULL => curr_process' \in Filled'
           /\ \A p \in Pid : pcb'[p].k_sp # Nowhere => p \in Filled'
           /\ \A p \in Pid : pcb'[p].child_flag => pcb'[p].child # NULL
<1>1. Filled' = Filled
  BY DEF Filled
<1>2. stack' \in Stacks
  BY StackFacts, PutLemma
<1>3. FramesSound'
  BY <1>1, StackFacts, SoundLemma DEF FramesSound
<1>4. BootSound'
  BY StackFacts, PristineLemma DEF BootSound
<1> QED
  BY <1>1, <1>2, <1>3, <1>4 DEF TypeInv, Stacks

\* Leaving the kernel, or the upper of two frames.
LEMMA LeaveStep ==
    ASSUME TypeInv, mode = "kernel", Leave PROVE TypeInv'
<1>1. Top.ret \in Pid \cup {NULL} /\ Junk \in Frame
  BY TopLemma, FrameLemma DEF Frame
<1>2. curr_process = NULL => mode' # "user"
  BY TopLemma, StackFacts DEF Leave, Pristine, Top
<1>3. /\ UNCHANGED <<pcb, curr_process>> /\ stack' = Put(stack, esp, Junk)
  BY DEF Leave, procVars
<1>4. /\ Junk.at = "junk" /\ Junk.ret = NULL
  BY DEF Junk
<1>5. /\ stack' \in [Pid -> [1 .. StackDepth -> Frame]]
      /\ FramesSound' /\ BootSound'
      /\ curr_process' # NULL => curr_process' \in Filled'
      /\ \A p \in Pid : pcb'[p].k_sp # Nowhere => p \in Filled'
      /\ \A p \in Pid : pcb'[p].child_flag => pcb'[p].child # NULL
  BY <1>1, <1>2, <1>3, <1>4, TopLemma, FrameStep DEF Mapped, Launching
<1>6. Deeper(esp, -1) \in Location
  BY TopLemma, SizeAssumption DEF Deeper, Location
<1>7. esp' \in Location /\ (mode' = "kernel" => esp'.dep > 0)
  <2>1. CASE Top.ret # NULL
    BY <2>1, TopLemma DEF Leave
  <2>2. CASE Top.ret = NULL
    BY <2>2, <1>6 DEF Leave, Interrupted
  <2> QED
    BY <2>1, <2>2
<1>8. TypeOK'
  BY <1>1, <1>5, <1>7
     DEF TypeInv, TypeOK, Leave, procVars, memVars, termVars
<1> QED
  BY <1>5, <1>7, <1>8 DEF TypeInv

\* What the invariant says of the frame the kernel executes.
LEMMA TopSound ==
    ASSUME TypeInv, mode = "kernel"
    PROVE  /\ Top.at \in Mapped => Top.pd \in Pid
           /\ Top.at \in Launching /\ Top.prev # NULL => Top.prev \in Filled
           /\ curr_process = NULL => Top.ret = NULL /\ Top.at # "jump"
BY TopLemma, StackFacts DEF Sound, Pristine, Top, Frame

\* A phase of execute that writes neither PCBs nor curr_process, and moves
\* its frame to phase at with page directory pd and file cmd.
LEMMA PhaseStep ==
    ASSUME TypeInv, mode = "kernel", UNCHANGED <<pcb, curr_process>>,
           kernelStays, Top.at \in Launching \cup {"opening"},
           NEW f \in Frame, stack' = Put(stack, esp, f),
           f.prev = Top.prev, f.ret = Top.ret, f.at # "jump",
           f.at \in Launching => Top.at \in Launching,
           f.at \in Mapped => f.pd # NULL,
           open_processes' \subseteq Pid, process_id' \in Pid,
           initial_shell' \in BOOLEAN, parsed' \in Program \cup {NULL},
           cr3' \in Pid, cur_PD' \in Pid,
           image' \in [Pid -> Program \cup {NULL}],
           UNCHANGED <<termVars, prog>>
    PROVE  TypeInv'
<1>1. /\ stack' \in [Pid -> [1 .. StackDepth -> Frame]]
      /\ FramesSound' /\ BootSound'
      /\ curr_process' # NULL => curr_process' \in Filled'
      /\ \A p \in Pid : pcb'[p].k_sp # Nowhere => p \in Filled'
      /\ \A p \in Pid : pcb'[p].child_flag => pcb'[p].child # NULL
  BY TopLemma, TopSound, FrameStep DEF kernelStays
<1>2. TypeOK'
  BY <1>1 DEF TypeInv, TypeOK, kernelStays, termVars
<1> QED
  BY <1>1, <1>2 DEF TypeInv, kernelStays

LEMMA AllocStep == ASSUME TypeInv, ExecuteAlloc PROVE TypeInv'
<1>1. mode = "kernel" /\ Top.at = "alloc"
  BY DEF ExecuteAlloc, InKernel
<1>2. PICK at \in {"return", "check"} : Advance(at)
  BY DEF ExecuteAlloc
<1> DEFINE f == [Top EXCEPT !.at = at]
<1>3. /\ f \in Frame /\ f.prev = Top.prev /\ f.ret = Top.ret /\ f.at = at
  BY <1>1, TopLemma DEF Frame, Phase, Launching
<1>4. stack' = Put(stack, esp, f)
  BY <1>2 DEF Advance
<1>5. open_processes' \subseteq Pid /\ process_id' \in Pid
  BY DEF ExecuteAlloc, TypeInv, TypeOK
<1>6. parsed' \in Program \cup {NULL}
  BY <1>1, TopLemma DEF ExecuteAlloc, Frame
<1> HIDE DEF f
<1> QED
  BY <1>1, <1>2, <1>3, <1>4, <1>5, <1>6, PhaseStep
     DEF ExecuteAlloc, TypeInv, TypeOK, memVars, Launching, Mapped

LEMMA CheckStep == ASSUME TypeInv, ExecuteCheck PROVE TypeInv'
<1>1. mode = "kernel" /\ Top.at = "check"
  BY DEF ExecuteCheck, InKernel
<1> DEFINE f == [Top EXCEPT !.at = IF parsed \in Loadable THEN "map"
                                                          ELSE "return",
                            !.cmd = parsed]
<1>2. /\ f \in Frame /\ f.prev = Top.prev /\ f.ret = Top.ret
      /\ f.at \in {"map", "return"}
  BY <1>1, TopLemma DEF Frame, Phase, Launching, TypeInv, TypeOK
<1>3. stack' = Put(stack, esp, f)
  BY DEF ExecuteCheck
<1> HIDE DEF f
<1> QED
  BY <1>1, <1>2, <1>3, PhaseStep
     DEF ExecuteCheck, TypeInv, TypeOK, procVars, memVars, Launching, Mapped

LEMMA MapStep == ASSUME TypeInv, ExecuteMap PROVE TypeInv'
<1>1. mode = "kernel" /\ Top.at = "map"
  BY DEF ExecuteMap, InKernel
<1> DEFINE f == [Top EXCEPT !.at = "load", !.pd = process_id]
<1>2. /\ f \in Frame /\ f.prev = Top.prev /\ f.ret = Top.ret
      /\ f.at = "load" /\ f.pd # NULL
  BY <1>1, TopLemma, NullAssumption
     DEF Frame, Phase, Launching, TypeInv, TypeOK
<1>3. stack' = Put(stack, esp, f)
  BY DEF ExecuteMap
<1> HIDE DEF f
<1> QED
  BY <1>1, <1>2, <1>3, PhaseStep
     DEF ExecuteMap, TypeInv, TypeOK, procVars, Launching, Mapped

LEMMA LoadStep == ASSUME TypeInv, ExecuteLoad PROVE TypeInv'
<1>1. mode = "kernel" /\ Top.at = "load"
  BY DEF ExecuteLoad, InKernel
<1>2. PICK at \in {"return", "init"} : Advance(at)
  BY DEF ExecuteLoad
<1> DEFINE f == [Top EXCEPT !.at = at]
<1>3. /\ f \in Frame /\ f.prev = Top.prev /\ f.ret = Top.ret /\ f.at = at
      /\ f.pd # NULL
  BY <1>1, TopLemma, TopSound, NullAssumption
     DEF Frame, Phase, Launching, Mapped
<1>4. stack' = Put(stack, esp, f)
  BY <1>2 DEF Advance
<1>5. image' \in [Pid -> Program \cup {NULL}]
  BY DEF ExecuteLoad, TypeInv, TypeOK
<1> HIDE DEF f
<1> QED
  BY <1>1, <1>2, <1>3, <1>4, <1>5, PhaseStep
     DEF ExecuteLoad, TypeInv, TypeOK, procVars, Launching, Mapped

LEMMA InitStep == ASSUME TypeInv, ExecuteInit PROVE TypeInv'
<1>1. mode = "kernel" /\ Top.at = "init" /\ UNCHANGED termVars
  BY DEF ExecuteInit, InKernel
<1>2. CASE Lost
  BY <1>1, <1>2, StopStep DEF termVars, TypeInv, TypeOK
<1>3. CASE ~(~initial_shell /\ Top.prev = NULL)
  <2> DEFINE f == [Top EXCEPT !.at = "jump"]
  <2>1. /\ f \in Frame /\ f.prev = Top.prev /\ f.ret = Top.ret
        /\ f.at = "jump" /\ f.pd # NULL /\ Top.pd \in Pid
        /\ f.prev # NULL => f.prev \in Filled
    BY <1>1, TopLemma, TopSound, NullAssumption
       DEF Frame, Phase, Launching, Mapped
  <2>2. /\ stack' = Put(stack, esp, f) /\ curr_process' = process_id
        /\ UNCHANGED <<open_processes, process_id, memVars, parsed, prog>>
        /\ initial_shell' = FALSE /\ kernelStays
    BY <1>3 DEF ExecuteInit, Advance
  <2> HIDE DEF f
  <2>3. process_id \in Pid /\ screen_num \in Term
    BY DEF TypeInv, TypeOK
  <2>4. /\ NewPcb(process_id) \in Pcb
        /\ NewPcb(process_id).k_sp \in Location
        /\ NewPcb(process_id).PD = Top.pd
        /\ NewPcb(process_id).child_flag = pcb[process_id].child_flag
        /\ NewPcb(process_id).child = pcb[process_id].child
    <3>1. pcb[process_id] \in Pcb
      BY <2>3, StackFacts
    <3>2. StackTop(process_id) \in Location
      BY <2>3, SizeAssumption DEF StackTop, Location
    <3> QED
      BY <2>1, <2>3, <3>1, <3>2 DEF NewPcb, Pcb
  <2>5. /\ pcb' \in [Pid -> Pcb]
        /\ \A p \in Pid : pcb'[p].child_flag => pcb'[p].child # NULL
        /\ \A p \in Pid \ {process_id} :
              pcb'[p].k_sp = pcb[p].k_sp /\ pcb'[p].PD = pcb[p].PD
        /\ pcb'[process_id].k_sp \in Location /\ pcb'[process_id].PD = Top.pd
    <3>1. \A p \in Pid : pcb[p] \in Pcb /\
             (pcb[p].child_flag => pcb[p].child # NULL)
      BY StackFacts DEF TypeInv
    <3>2. CASE initial_shell
      <4>1. pcb' = [pcb EXCEPT ![process_id] =
                      [NewPcb(process_id) EXCEPT !.parent = process_id,
                                                 !.child_flag = FALSE,
                                                 !.child = NULL]]
        BY <1>3, <3>2 DEF ExecuteInit
      <4>2. [NewPcb(process_id) EXCEPT !.parent = process_id,
                  !.child_flag = FALSE, !.child = NULL] \in Pcb
        BY <2>3, <2>4 DEF Pcb
      <4> QED
        BY <4>1, <4>2, <3>1, <2>3, <2>4, StackFacts DEF Pcb
    <3>3. CASE ~initial_shell
      <4> DEFINE q(p) == IF p = process_id
                           THEN [NewPcb(p) EXCEPT !.parent = Top.prev]
                           ELSE pcb[p]
                 r(p) == IF p = Top.prev
                           THEN [q(p) EXCEPT !.child_flag = TRUE,
                                             !.child = process_id]
                           ELSE q(p)
      <4>1. pcb' = [p \in Pid |-> r(p)]
        BY <1>3, <3>3 DEF ExecuteInit
      <4>2. Top.prev \in Pid \cup {NULL}
        BY <1>1, TopLemma DEF Frame
      <4>3. \A p \in Pid :
              /\ q(p) \in Pcb
              /\ q(p).child_flag => q(p).child # NULL
              /\ p # process_id => q(p) = pcb[p]
              /\ p = process_id =>
                   q(p).k_sp \in Location /\ q(p).PD = Top.pd
        BY <4>2, <3>1, <2>3, <2>4 DEF Pcb
      <4> HIDE DEF q
      <4>4. \A p \in Pid :
              /\ r(p) \in Pcb
              /\ r(p).child_flag => r(p).child # NULL
              /\ r(p).k_sp = q(p).k_sp /\ r(p).PD = q(p).PD
        BY <4>3, <2>3, NullAssumption DEF Pcb
      <4> HIDE DEF r
      <4> QED
        BY <4>1, <4>3, <4>4, <2>3
    <3> QED
      BY <3>2, <3>3
  <2>6. Filled \subseteq Filled' /\ process_id \in Filled'
    BY <2>1, <2>3, <2>5, NullAssumption DEF Filled, Nowhere, Location
  <2>7. stack' \in Stacks /\ Sound(stack', Filled')
    BY <2>1, <2>2, <2>6, <1>1, TopLemma, StackFacts, PutLemma, SoundLemma
       DEF Mapped, Launching
  <2>8. FramesSound' /\ BootSound'
    BY <2>2, <2>3, <2>7, NullAssumption DEF FramesSound, BootSound
  <2>9. TypeOK'
    BY <1>1, <2>2, <2>3, <2>5, <2>7
       DEF TypeInv, TypeOK, Stacks, kernelStays, memVars, termVars
  <2>10. \A p \in Pid : pcb'[p].k_sp # Nowhere => p \in Filled'
    BY <2>5, <2>6 DEF TypeInv, Filled
  <2> QED
    BY <2>2, <2>5, <2>6, <2>8, <2>9, <2>10 DEF TypeInv, kernelStays
<1> QED
  BY <1>2, <1>3 DEF ExecuteInit

\* Saving a stack pointer in a PCB that is filled in.
LEMMA SavedLemma ==
    ASSUME TypeInv, NEW p \in Filled, NEW loc \in Location,
           pcb' = Saved(p, loc)
    PROVE  /\ pcb' \in [Pid -> Pcb]
           /\ Filled' = Filled
           /\ \A q \in Pid : pcb'[q].k_sp # Nowhere => q \in Filled'
           /\ \A q \in Pid : pcb'[q].child_flag => pcb'[q].child # NULL
<1>1. loc # Nowhere
  BY NullAssumption DEF Location, Nowhere
<1>2. \A q \in Pid :
        /\ pcb'[q] \in Pcb /\ pcb'[q].PD = pcb[q].PD
        /\ pcb'[q].child = pcb[q].child
        /\ pcb'[q].child_flag = pcb[q].child_flag
        /\ pcb'[q].k_sp = IF q = p THEN loc ELSE pcb[q].k_sp
  BY StackFacts DEF Saved, Pcb
<1>3. pcb' \in [Pid -> Pcb]
  BY <1>2, StackFacts DEF Saved
<1> QED
  BY <1>1, <1>2, <1>3 DEF Filled, TypeInv

LEMMA JumpStep == ASSUME TypeInv, ExecuteJump PROVE TypeInv'
<1>1. mode = "kernel" /\ Top.at = "jump"
  BY DEF ExecuteJump, InKernel
<1>2. curr_process \in Filled /\ curr_process \in Pid
  BY <1>1, TopSound, StackFacts DEF TypeInv
<1> DEFINE f == [Top EXCEPT !.at = "child"]
<1>3. f \in Frame /\ f.at = "child" /\ stack' = Put(stack, esp, f)
  BY <1>1, TopLemma DEF Frame, Phase, ExecuteJump, Advance
<1> HIDE DEF f
<1>4. /\ pcb' \in [Pid -> Pcb] /\ Filled' = Filled
      /\ \A q \in Pid : pcb'[q].k_sp # Nowhere => q \in Filled'
      /\ \A q \in Pid : pcb'[q].child_flag => pcb'[q].child # NULL
  <2>1. CASE Top.prev = NULL
    BY <2>1 DEF ExecuteJump, Filled, TypeInv, TypeOK
  <2>2. CASE Top.prev # NULL
    <3>1. Top.prev \in Filled /\ pcb' = Saved(Top.prev, esp)
      BY <2>2, <1>1, TopSound DEF ExecuteJump, Launching
    <3> QED
      BY <3>1, <1>1, TopLemma, SavedLemma
  <2> QED
    BY <2>1, <2>2
<1>5. stack' \in Stacks /\ Sound(stack', Filled')
  BY <1>1, <1>3, <1>4, TopLemma, StackFacts, PutLemma, SoundLemma
     DEF Mapped, Launching
<1>6. prog' \in [Pid -> Program \cup {NULL}]
  BY <1>1, TopLemma DEF ExecuteJump, TypeInv, TypeOK, Frame
<1>7. tss_esp0' \in Location /\ run' \in Pid /\ mode' = "user"
  BY <1>2, StackFacts DEF ExecuteJump
<1>8. TypeOK'
  BY <1>4, <1>5, <1>6, <1>7
     DEF TypeInv, TypeOK, Stacks, ExecuteJump, memVars, termVars
<1>9. curr_process' \in Filled' /\ curr_process' # NULL
  BY <1>2, <1>4, NullAssumption DEF ExecuteJump
<1> QED
  BY <1>4, <1>5, <1>7, <1>8, <1>9 DEF TypeInv, FramesSound, BootSound

LEMMA CallStep ==
    ASSUME TypeInv, NEW cmd \in Commands, ExecuteCall(cmd) PROVE TypeInv'
<1>1. mode = "user" /\ UNCHANGED termVars
  BY DEF ExecuteCall
<1>2. CASE ~Fits(1)
  BY <1>1, <1>2, StopStep DEF ExecuteCall, termVars, TypeInv, TypeOK
<1>3. CASE Fits(1)
  <2> DEFINE loc == Deeper(Base, 1)
             f == ExecuteFrame(cmd, curr_process, run)
  <2>1. loc \in Location /\ loc.dep > 0
    BY <1>3, BaseLemma, DeeperLemma DEF Fits, Location
  <2>2. curr_process \in Filled /\ curr_process \in Pid /\ run \in Pid
    BY <1>1, StackFacts DEF TypeInv, TypeOK
  <2>3. f \in Frame /\ f.at = "alloc" /\ f.prev = curr_process
    BY <2>2, FrameLemma DEF ExecuteFrame, Program
  <2>4. /\ stack' = Put(stack, loc, f) /\ esp' = loc /\ mode' = "kernel"
        /\ UNCHANGED <<procVars, memVars, parsed, prog, run, tss_esp0>>
    BY <1>3 DEF ExecuteCall
  <2> HIDE DEF loc, f
  <2>5. /\ stack' \in [Pid -> [1 .. StackDepth -> Frame]]
        /\ FramesSound' /\ BootSound'
        /\ curr_process' # NULL => curr_process' \in Filled'
        /\ \A p \in Pid : pcb'[p].k_sp # Nowhere => p \in Filled'
        /\ \A p \in Pid : pcb'[p].child_flag => pcb'[p].child # NULL
    BY <2>1, <2>2, <2>3, <2>4, FrameStep, NullAssumption
       DEF procVars, Mapped, Launching
  <2>6. TypeOK'
    BY <1>1, <2>1, <2>4, <2>5
       DEF TypeInv, TypeOK, procVars, memVars, termVars
  <2> QED
    BY <2>1, <2>4, <2>5, <2>6 DEF TypeInv
<1> QED
  BY <1>2, <1>3

\* A resumed location is a location, and its frame is woken.
LEMMA ResumeLemma ==
    ASSUME TypeInv, NEW st \in Stacks, NEW p \in Pid,
           Resumable(st, pcb[p].k_sp), Sound(st, Filled)
    PROVE  LET loc == pcb[p].k_sp
               st1 == Put(st, loc, Woken(st[loc.own][loc.dep]))
           IN /\ p \in Filled /\ loc \in Location /\ loc.dep > 0
              /\ st1 \in Stacks /\ Sound(st1, Filled)
<1> DEFINE loc == pcb[p].k_sp
           f == Woken(st[loc.own][loc.dep])
<1>1. p \in Filled /\ loc \in Location /\ loc.dep > 0
  BY StackFacts DEF Resumable, TypeInv
<1>2. loc.own \in Pid /\ loc.dep \in 1 .. StackDepth
  BY <1>1, SizeAssumption DEF Location
<1>3. st[loc.own][loc.dep] \in Frame
  BY <1>2 DEF Stacks
<1>4. f \in Frame /\ f.at \in {"return", "done"}
  BY <1>3, WokenLemma
<1> HIDE DEF loc, f
<1>5. Put(st, loc, f) \in Stacks /\ Sound(Put(st, loc, f), Filled)
  BY <1>1, <1>4, PutLemma, SoundLemma DEF Mapped, Launching
<1> QED
  BY <1>1, <1>5 DEF loc, f

LEMMA SwitchStep ==
    ASSUME TypeInv, NEW p \in Pid, NEW loc \in Location,
           NEW st \in Stacks, Sound(st, Filled), ContextSwitch(p, loc, st),
           screen_num' \in Term, fresh' \subseteq Term \ {0}
    PROVE  TypeInv'
<1>1. CASE curr_process = NULL \/ ~Resumable(st, pcb[p].k_sp)
  BY <1>1, StopStep DEF ContextSwitch
<1>2. CASE curr_process # NULL /\ Resumable(st, pcb[p].k_sp)
  <2>1. curr_process \in Filled /\ p \in Filled /\ p \in Pid
        /\ pcb[p].k_sp \in Location /\ pcb[p].k_sp.dep > 0
        /\ stack' \in Stacks /\ Sound(stack', Filled)
        /\ esp' = pcb[p].k_sp /\ mode' = "kernel"
    BY <1>2, ResumeLemma DEF ContextSwitch, Resume, TypeInv
  <2>2. /\ pcb' \in [Pid -> Pcb] /\ Filled' = Filled
        /\ \A q \in Pid : pcb'[q].k_sp # Nowhere => q \in Filled'
        /\ \A q \in Pid : pcb'[q].child_flag => pcb'[q].child # NULL
    BY <1>2, <2>1, SavedLemma DEF ContextSwitch
  <2>3. cr3' \in Pid /\ tss_esp0' \in Location /\ curr_process' = p
        /\ process_id' = p
    BY <1>2, <2>1, StackFacts DEF ContextSwitch, LoadCpu
  <2>4. TypeOK'
    BY <1>2, <2>1, <2>2, <2>3
       DEF TypeInv, TypeOK, Stacks, ContextSwitch
  <2> QED
    BY <2>1, <2>2, <2>3, <2>4, NullAssumption
       DEF TypeInv, FramesSound, BootSound
<1> QED
  BY <1>1, <1>2

LEMMA HaltStep == ASSUME TypeInv, Halt PROVE TypeInv'
<1> DEFINE p == curr_process
           q == pcb[p].parent
           loc == Deeper(Base, 1)
           st == Put(stack, loc, Junk)
<1>1. mode = "user" /\ UNCHANGED termVars
  BY DEF Halt
<1>2. p \in Pid /\ p \in Filled /\ q \in Pid \cup {NULL}
  BY <1>1, StackFacts DEF Pcb
<1>3. CASE Lost \/ Overflow
  BY <1>1, <1>3, StopStep DEF termVars, TypeInv, TypeOK
<1>4. CASE Fits(1) /\ q # NULL /\ q = p
  <2>1. loc \in Location /\ loc.dep > 0
    BY <1>4, BaseLemma, DeeperLemma DEF Fits, Location
  <2> DEFINE f == SpinFrame(run)
  <2>2. f \in Frame /\ f.at = "spin"
    BY FrameLemma DEF SpinFrame, TypeInv, TypeOK
  <2>3. /\ stack' = Put(stack, loc, f) /\ esp' = loc /\ mode' = "kernel"
        /\ UNCHANGED <<procVars, memVars, parsed, prog, run, tss_esp0>>
    BY <1>4 DEF Halt
  <2> HIDE DEF loc, f
  <2>4. /\ stack' \in [Pid -> [1 .. StackDepth -> Frame]]
        /\ FramesSound' /\ BootSound'
        /\ curr_process' # NULL => curr_process' \in Filled'
        /\ \A r \in Pid : pcb'[r].k_sp # Nowhere => r \in Filled'
        /\ \A r \in Pid : pcb'[r].child_flag => pcb'[r].child # NULL
    BY <1>2, <2>1, <2>2, <2>3, FrameStep, NullAssumption
       DEF procVars, Mapped, Launching
  <2>5. TypeOK'
    BY <1>1, <2>1, <2>3, <2>4
       DEF TypeInv, TypeOK, procVars, memVars, termVars
  <2> QED
    BY <2>1, <2>3, <2>4, <2>5 DEF TypeInv
<1>5. CASE Fits(1) /\ q # NULL /\ q # p /\ Resumable(st, pcb[q].k_sp)
  <2>1. loc \in Location /\ loc.dep > 0
    BY <1>5, BaseLemma, DeeperLemma DEF Fits, Location
  <2>2. st \in Stacks /\ Sound(st, Filled)
    BY <2>1, StackFacts, FrameLemma, PutLemma, SoundLemma
       DEF Junk, Mapped, Launching
  <2>3. /\ open_processes' = Toggled(p)
        /\ pcb' = [pcb EXCEPT ![q].child_flag = FALSE]
        /\ LoadCpu(q) /\ curr_process' = q
        /\ prog' = [prog EXCEPT ![p] = NULL]
        /\ Resume(st, pcb[q].k_sp)
        /\ UNCHANGED <<process_id, initial_shell, cur_PD, image, parsed, run>>
    BY <1>5 DEF Halt
  <2>4. q \in Pid
    BY <1>2, <1>5
  <2> HIDE DEF st, loc, q, p
  <2>5. /\ q \in Filled /\ pcb[q].k_sp \in Location /\ pcb[q].k_sp.dep > 0
        /\ stack' \in Stacks /\ Sound(stack', Filled)
        /\ esp' = pcb[q].k_sp /\ mode' = "kernel"
    BY <1>5, <2>2, <2>3, <2>4, ResumeLemma DEF Resume
  <2>6. /\ pcb' \in [Pid -> Pcb]
        /\ \A r \in Pid :
              /\ pcb'[r].k_sp = pcb[r].k_sp /\ pcb'[r].PD = pcb[r].PD
              /\ pcb'[r].child_flag => pcb'[r].child # NULL
    BY <2>3, <2>4, StackFacts DEF Pcb, TypeInv
  <2>7. Filled' = Filled
    BY <2>6 DEF Filled
  <2>8. /\ cr3' \in Pid /\ tss_esp0' \in Location
        /\ open_processes' \subseteq Pid
        /\ prog' \in [Pid -> Program \cup {NULL}]
    BY <1>2, <2>3, <2>5, StackFacts
       DEF LoadCpu, Toggled, TypeInv, TypeOK, p
  <2>9. TypeOK'
    BY <1>1, <2>3, <2>4, <2>5, <2>6, <2>8
       DEF TypeInv, TypeOK, Stacks, termVars
  <2>10. curr_process' # NULL /\ curr_process' \in Filled'
    BY <2>3, <2>4, <2>5, <2>7, NullAssumption
  <2> QED
    BY <2>5, <2>6, <2>7, <2>9, <2>10 DEF TypeInv, FramesSound, BootSound
<1> QED
  BY <1>3, <1>4, <1>5 DEF Halt

\* kbd_logic's choice of a process is a process.
LEMMA TargetLemma ==
    ASSUME TypeInv, NEW t \in Term PROVE Target(t) \in Pid /\ t \in Pid
BY StackFacts, SizeAssumption DEF Target, TypeInv, Term, Pid, Pcb

\* The interrupt frame of a keyboard handler.
LEMMA KeyLemma ==
    ASSUME TypeInv, Fits(1), NEW at \in {"opening", "switched"}
    PROVE  LET loc == Deeper(Base, 1)
               f == KeyFrame(at, screen_num, ReturnTo)
           IN /\ loc \in Location /\ loc.dep > 0
              /\ f \in Frame /\ f.at = at /\ f.ret = ReturnTo
              /\ Put(stack, loc, f) \in Stacks
              /\ Sound(Put(stack, loc, f), Filled)
<1> DEFINE loc == Deeper(Base, 1)
           f == KeyFrame(at, screen_num, ReturnTo)
<1>1. loc \in Location /\ loc.dep > 0
  BY BaseLemma, DeeperLemma DEF Fits, Location
<1>2. f \in Frame /\ f.at = at /\ f.ret = ReturnTo
  BY BaseLemma, FrameLemma DEF KeyFrame, TypeInv, TypeOK, Phase
<1> HIDE DEF loc, f
<1>3. Put(stack, loc, f) \in Stacks /\ Sound(Put(stack, loc, f), Filled)
  BY <1>1, <1>2, StackFacts, PutLemma, SoundLemma DEF Mapped, Launching
<1> QED
  BY <1>1, <1>2, <1>3 DEF loc, f

LEMMA OpenStep ==
    ASSUME TypeInv, NEW t \in Term, OpenTerminal(t) PROVE TypeInv'
<1>1. screen_num' = t /\ fresh' = fresh \ {t} /\ fresh \subseteq Term \ {0}
  BY DEF OpenTerminal, TypeInv, TypeOK
<1>2. CASE ~Fits(2)
  BY <1>1, <1>2, StopStep DEF OpenTerminal
<1>3. CASE Fits(2)
  <2> DEFINE loc == Deeper(Base, 1)
             f == KeyFrame("opening", screen_num, ReturnTo)
             st == Put(stack, loc, f)
             g == ExecuteFrame(Shell, curr_process, NULL)
             top == Deeper(loc, 1)
  <2>1. Fits(1) /\ loc.dep + 1 <= StackDepth
    BY <1>3, BaseLemma, DeeperLemma, SizeAssumption DEF Fits, Location
  <2>2. /\ loc \in Location /\ loc.dep > 0 /\ f \in Frame
        /\ f.at = "opening" /\ f.ret = ReturnTo
        /\ st \in Stacks /\ Sound(st, Filled)
    BY <2>1, KeyLemma
  <2>3. top \in Location /\ top.dep > 0
    <3> HIDE DEF loc
    <3> QED
      BY <2>1, <2>2, DeeperLemma DEF Location
  <2>4. /\ g \in Frame /\ g.at = "alloc" /\ g.ret = NULL
        /\ g.prev = curr_process
    BY FrameLemma, ProgramAssumption
       DEF ExecuteFrame, Program, TypeInv, TypeOK
  <2>5. /\ stack' = Put(st, top, g) /\ esp' = top /\ mode' = "kernel"
        /\ initial_shell' = TRUE
        /\ UNCHANGED <<open_processes, process_id, curr_process, pcb, memVars,
                       parsed, prog, run, tss_esp0>>
    BY <1>3 DEF OpenTerminal
  <2>6. Filled' = Filled
    BY <2>5 DEF Filled
  <2>7. curr_process = NULL => Pristine(st)
    <3> SUFFICES ASSUME curr_process = NULL PROVE Pristine(st)
      OBVIOUS
    <3>1. ReturnTo = NULL
      BY DEF ReturnTo, TypeInv, BootSound
    <3> HIDE DEF loc, f
    <3> QED
      BY <2>2, <3>1, StackFacts, PristineLemma
  <2> HIDE DEF st, top, g, f, loc
  <2>8. stack' \in Stacks /\ Sound(stack', Filled)
    BY <2>2, <2>3, <2>4, <2>5, PutLemma, SoundLemma
       DEF Mapped, TypeInv
  <2>9. curr_process = NULL => Pristine(stack')
    BY <2>2, <2>3, <2>4, <2>5, <2>7, PristineLemma
  <2>10. TypeOK'
    BY <1>1, <2>3, <2>5, <2>8 DEF TypeInv, TypeOK, Stacks, memVars
  <2> QED
    BY <2>3, <2>5, <2>6, <2>8, <2>9, <2>10
       DEF TypeInv, FramesSound, BootSound
<1> QED
  BY <1>2, <1>3

LEMMA SwitchTerminalStep ==
    ASSUME TypeInv, NEW t \in Term, SwitchTerminal(t) PROVE TypeInv'
<1>1. screen_num' \in Term /\ fresh' \subseteq Term \ {0}
  BY DEF SwitchTerminal, TypeInv, TypeOK
<1>2. CASE ~Fits(1)
  BY <1>1, <1>2, StopStep DEF SwitchTerminal
<1>3. CASE Fits(1)
  BY <1>1, <1>3, TargetLemma, KeyLemma, SwitchStep DEF SwitchTerminal
<1> QED
  BY <1>2, <1>3

LEMMA DebugKeyStep ==
    ASSUME TypeInv, NEW p \in DebugKeys, DebugKey(p) PROVE TypeInv'
<1>1. screen_num' \in Term /\ fresh' \subseteq Term \ {0} /\ p \in Pid
  BY ProgramAssumption DEF DebugKey, TypeInv, TypeOK, termVars
<1>2. CASE ~Fits(1)
  BY <1>1, <1>2, StopStep DEF DebugKey
<1>3. CASE Fits(1)
  BY <1>1, <1>3, KeyLemma, SwitchStep DEF DebugKey
<1> QED
  BY <1>2, <1>3

LEMMA ContinueStep == ASSUME TypeInv, OpenContinue PROVE TypeInv'
<1>1. /\ mode = "kernel" /\ Top.at = "opening" /\ UNCHANGED termVars
      /\ screen_num \in Term /\ screen_num' \in Term
      /\ fresh' \subseteq Term \ {0}
  BY DEF OpenContinue, InKernel, TypeInv, TypeOK, termVars
<1>2. CASE screen_num # Top.prev
  <2> DEFINE f == [Top EXCEPT !.at = "switched"]
  <2>1. f \in Frame /\ f.at = "switched"
    BY <1>1, TopLemma DEF Frame, Phase
  <2>2. ContextSwitch(Target(screen_num), esp, Put(stack, esp, f))
    BY <1>2 DEF OpenContinue
  <2> HIDE DEF f
  <2>3. Put(stack, esp, f) \in Stacks /\ Sound(Put(stack, esp, f), Filled)
    BY <1>1, <2>1, TopLemma, StackFacts, PutLemma, SoundLemma
       DEF Mapped, Launching
  <2> QED
    BY <1>1, <2>2, <2>3, TopLemma, TargetLemma, SwitchStep
<1>3. CASE screen_num = Top.prev
  <2> DEFINE f == [Top EXCEPT !.at = "done"]
  <2>1. f \in Frame /\ f.at = "done" /\ f.prev = Top.prev /\ f.ret = Top.ret
    BY <1>1, TopLemma DEF Frame, Phase
  <2>2. stack' = Put(stack, esp, f)
    BY <1>3 DEF OpenContinue, Advance
  <2> HIDE DEF f
  <2> QED
    BY <1>1, <1>3, <2>1, <2>2, PhaseStep
       DEF OpenContinue, TypeInv, TypeOK, procVars, memVars, Mapped, Launching
<1> QED
  BY <1>2, <1>3

LEMMA TypeNext == TypeInv /\ [Next]_vars => TypeInv'
<1> SUFFICES ASSUME TypeInv, [Next]_vars PROVE TypeInv'
  OBVIOUS
<1>1. CASE KernelStep
  <2>1. CASE ExecuteReturn \/ KeyReturn
    BY <2>1, LeaveStep DEF ExecuteReturn, KeyReturn, InKernel
  <2> QED
    BY <1>1, <2>1, AllocStep, CheckStep, MapStep, LoadStep, InitStep,
       JumpStep, ContinueStep DEF KernelStep
<1>2. CASE \E cmd \in Commands : ExecuteCall(cmd)
  BY <1>2, CallStep
<1>3. CASE Halt
  BY <1>3, HaltStep
<1>4. CASE \E t \in Term : OpenTerminal(t) \/ SwitchTerminal(t)
  BY <1>4, OpenStep, SwitchTerminalStep
<1>5. CASE \E p \in DebugKeys : DebugKey(p)
  BY <1>5, DebugKeyStep
<1>6. CASE UNCHANGED vars
  <2>1. UNCHANGED <<open_processes, process_id, curr_process, initial_shell,
                    pcb, parsed, cr3, cur_PD, image, tss_esp0, mode, run, esp,
                    stack, screen_num, fresh, prog>>
    BY <1>6 DEF vars, procVars, memVars, cpuVars, termVars
  <2>2. TypeOK' /\ Filled' = Filled
    BY <2>1 DEF TypeInv, TypeOK, Filled
  <2> QED
    BY <2>1, <2>2 DEF TypeInv, FramesSound, BootSound
<1> QED
  BY <1>1, <1>2, <1>3, <1>4, <1>5, <1>6 DEF Next

LEMMA TypeInvariant == Spec => []TypeInv
BY TypeInit, TypeNext, PTL DEF Spec

\* Every variable has its type in every reachable state, whichever keys are
\* pressed and wherever they interrupt execute.
THEOREM TypeCorrect == Spec => []TypeOK
<1>1. TypeInv => TypeOK
  BY DEF TypeInv
<1> QED
  BY <1>1, TypeInvariant, PTL

-----------------------------------------------------------------------------
(* Slots and images. *)

LEMMA OnlyAtLemma ==
    ASSUME NEW st \in Stacks, NEW loc \in Location, loc.dep > 0,
           NEW f \in Frame
    PROVE  /\ OnlyAt(st, loc) => OnlyAt(Put(st, loc, f), loc)
           /\ Quiescent(st) => OnlyAt(st, loc)
           /\ OnlyAt(st, loc) /\ f.at \notin Launching
                 => Quiescent(Put(st, loc, f))
BY PutLemma DEF OnlyAt, Quiescent

\* A step after which nothing is being launched, that starts and ends no
\* process and loads nothing.
LEMMA RestStep ==
    ASSUME TypeInv', SlotInv, UNCHANGED <<open_processes, image, prog>>,
           Quiescent(stack')
    PROVE  SlotInv'
<1>1. LiveSlotsOpen' /\ ImagesIntact'
  BY DEF SlotInv, LiveSlotsOpen, ImagesIntact, Live
<1>2. mode' = "kernel" =>
        esp' \in Location /\ esp'.own \in Pid /\ esp'.dep \in 1 .. StackDepth
  BY SizeAssumption DEF TypeInv, TypeOK, Location
<1>3. mode' = "kernel" => Top'.at \notin Launching
  BY <1>2 DEF Quiescent, Top
<1>4. LaunchSound'
  BY <1>3 DEF LaunchSound, Launching
<1>5. OneLaunch'
  BY DEF OneLaunch, OnlyAt, Quiescent
<1> QED
  BY <1>1, <1>4, <1>5 DEF SlotInv

\* Losing the CPU.
LEMMA StopRest == ASSUME SlotInv, Lost \/ Overflow PROVE SlotInv'
BY DEF SlotInv, OneLaunch, LaunchSound, LiveSlotsOpen, ImagesIntact, Live,
       Lost, Overflow, Stop, procVars, memVars

\* context_switch, with no launch under way.
LEMMA SwitchRest ==
    ASSUME TypeInv, TypeInv', SlotInv, NEW p \in Pid, NEW loc \in Location,
           NEW st \in Stacks, Sound(st, Filled), Quiescent(st),
           ContextSwitch(p, loc, st)
    PROVE  SlotInv'
<1>1. CASE curr_process = NULL \/ ~Resumable(st, pcb[p].k_sp)
  BY <1>1, StopRest DEF ContextSwitch
<1>2. CASE curr_process # NULL /\ Resumable(st, pcb[p].k_sp)
  <2> DEFINE l == pcb[p].k_sp
             f == Woken(st[l.own][l.dep])
  <2>1. l \in Location /\ l.dep > 0 /\ stack' = Put(st, l, f)
    BY <1>2, ResumeLemma DEF ContextSwitch, Resume
  <2>2. st[l.own][l.dep] \in Frame
    BY <2>1, SizeAssumption DEF Location, Stacks
  <2>3. f \in Frame /\ f.at \notin Launching
    BY <2>2, WokenLemma DEF Launching
  <2> HIDE DEF l, f
  <2>4. Quiescent(stack')
    BY <2>1, <2>3, OnlyAtLemma
  <2>5. UNCHANGED <<open_processes, image, prog>>
    BY <1>2 DEF ContextSwitch
  <2> QED
    BY <2>4, <2>5, RestStep
<1> QED
  BY <1>1, <1>2

\* Without keys during execute, nothing is being launched when a key arrives.
LEMMA KeyQuiescent ==
    ASSUME TypeInv, SlotInv, QuietLaunch, KeyAllowed
    PROVE  Quiescent(stack)
<1>1. CASE mode = "user"
  BY <1>1 DEF SlotInv, OneLaunch
<1>2. CASE InKernel("spin")
  BY <1>2 DEF SlotInv, OneLaunch, OnlyAt, Quiescent, InKernel, Top, Launching
<1> QED
  BY <1>1, <1>2 DEF KeyAllowed

LEMMA KeyRest ==
    ASSUME TypeInv, SlotInv, QuietLaunch, KeyAllowed, Fits(1),
           NEW at \in {"opening", "switched"}
    PROVE  LET st == Put(stack, Deeper(Base, 1),
                         KeyFrame(at, screen_num, ReturnTo))
           IN st \in Stacks /\ Sound(st, Filled) /\ Quiescent(st)
<1> DEFINE loc == Deeper(Base, 1)
           f == KeyFrame(at, screen_num, ReturnTo)
<1>1. /\ loc \in Location /\ loc.dep > 0 /\ f \in Frame /\ f.at = at
      /\ Put(stack, loc, f) \in Stacks /\ Sound(Put(stack, loc, f), Filled)
  BY KeyLemma
<1> HIDE DEF loc, f
<1>2. Quiescent(Put(stack, loc, f))
  BY <1>1, KeyQuiescent, OnlyAtLemma, StackFacts DEF Launching
<1> QED
  BY <1>1, <1>2 DEF loc, f

\* A frame that only moves on within the kernel.
LEMMA LaunchTop ==
    ASSUME TypeInv, SlotInv, mode = "kernel", kernelStays,
           NEW f \in Frame, stack' = Put(stack, esp, f)
    PROVE  Top' = f /\ OneLaunch'
<1>1. Top' = f
  BY TopLemma, StackFacts, PutLemma DEF kernelStays, Top
<1>2. OnlyAt(stack', esp)
  BY TopLemma, StackFacts, OnlyAtLemma DEF SlotInv, OneLaunch
<1> QED
  BY <1>1, <1>2 DEF OneLaunch, kernelStays

LEMMA SlotInit == Init => SlotInv
<1> SUFFICES ASSUME Init PROVE SlotInv
  OBVIOUS
<1>1. Live = {}
  BY DEF Init, Live
<1>2. OneLaunch
  BY SizeAssumption
     DEF Init, OneLaunch, OnlyAt, ExecuteFrame, Junk, Launching, StackTop,
         Deeper
<1>3. Top.at = "alloc"
  BY SizeAssumption
     DEF Init, Top, ExecuteFrame, StackTop, Deeper, Pid
<1> QED
  BY <1>1, <1>2, <1>3
     DEF SlotInv, LaunchSound, LiveSlotsOpen, ImagesIntact

LEMMA AllocRest == ASSUME TypeInv, SlotInv, ExecuteAlloc PROVE SlotInv'
<1>1. mode = "kernel" /\ Top.at = "alloc" /\ kernelStays
      /\ UNCHANGED <<image, prog, curr_process>> /\ Live' = Live
  BY DEF ExecuteAlloc, InKernel, memVars, Live
<1>2. PICK at \in {"return", "check"} :
        /\ Advance(at)
        /\ open_processes \subseteq open_processes'
        /\ at = "check" => /\ process_id' \in open_processes'
                           /\ process_id' \notin open_processes
  BY DEF ExecuteAlloc, IsFirstFree
<1> DEFINE f == [Top EXCEPT !.at = at]
<1>3. f \in Frame /\ f.at = at /\ stack' = Put(stack, esp, f)
  BY <1>1, <1>2, TopLemma DEF Frame, Phase, Launching, Advance
<1> HIDE DEF f
<1>4. Top' = f /\ OneLaunch'
  BY <1>1, <1>3, LaunchTop
<1>5. LaunchSound'
  BY <1>1, <1>2, <1>3, <1>4 DEF LaunchSound, SlotInv, LiveSlotsOpen
<1> QED
  BY <1>1, <1>2, <1>4, <1>5 DEF SlotInv, LiveSlotsOpen, ImagesIntact

LEMMA CheckRest == ASSUME TypeInv, SlotInv, ExecuteCheck PROVE SlotInv'
<1>1. /\ mode = "kernel" /\ Top.at = "check" /\ kernelStays
      /\ UNCHANGED <<open_processes, process_id, image, prog, parsed>>
      /\ Live' = Live
  BY DEF ExecuteCheck, InKernel, procVars, memVars, Live
<1> DEFINE f == [Top EXCEPT !.at = IF parsed \in Loadable THEN "map"
                                                          ELSE "return",
                            !.cmd = parsed]
<1>2. /\ f \in Frame /\ f.at \in {"map", "return"} /\ f.cmd = parsed
      /\ stack' = Put(stack, esp, f)
  BY <1>1, TopLemma
     DEF Frame, Phase, Launching, ExecuteCheck, TypeInv, TypeOK
<1> HIDE DEF f
<1>3. Top' = f /\ OneLaunch'
  BY <1>1, <1>2, LaunchTop
<1>4. LaunchSound'
  BY <1>1, <1>2, <1>3 DEF LaunchSound, SlotInv
<1> QED
  BY <1>1, <1>3, <1>4 DEF SlotInv, LiveSlotsOpen, ImagesIntact

LEMMA MapRest == ASSUME TypeInv, SlotInv, ExecuteMap PROVE SlotInv'
<1>1. /\ mode = "kernel" /\ Top.at = "map" /\ kernelStays
      /\ UNCHANGED <<open_processes, process_id, image, prog, parsed>>
      /\ cr3' = process_id /\ Live' = Live
  BY DEF ExecuteMap, InKernel, procVars, Live
<1> DEFINE f == [Top EXCEPT !.at = "load", !.pd = process_id]
<1>2. /\ f \in Frame /\ f.at = "load" /\ f.cmd = Top.cmd
      /\ stack' = Put(stack, esp, f)
  BY <1>1, TopLemma
     DEF Frame, Phase, Launching, ExecuteMap, TypeInv, TypeOK
<1> HIDE DEF f
<1>3. Top' = f /\ OneLaunch'
  BY <1>1, <1>2, LaunchTop
<1>4. LaunchSound'
  BY <1>1, <1>2, <1>3 DEF LaunchSound, SlotInv
<1> QED
  BY <1>1, <1>3, <1>4 DEF SlotInv, LiveSlotsOpen, ImagesIntact

LEMMA LoadRest == ASSUME TypeInv, SlotInv, ExecuteLoad PROVE SlotInv'
<1>1. /\ mode = "kernel" /\ Top.at = "load" /\ kernelStays
      /\ UNCHANGED <<open_processes, process_id, prog, parsed, cr3>>
      /\ Live' = Live
      /\ cr3 = process_id /\ cr3 \notin Live /\ cr3 \in open_processes
      /\ cr3 \in Pid /\ parsed = Top.cmd
  BY DEF ExecuteLoad, InKernel, procVars, Live, SlotInv, LaunchSound,
         TypeInv, TypeOK
<1>2. PICK at \in {"return", "init"} :
        /\ Advance(at)
        /\ at = "init" => image' = [image EXCEPT ![cr3] = parsed]
        /\ at = "return" => image' = image
  BY DEF ExecuteLoad
<1> DEFINE f == [Top EXCEPT !.at = at]
<1>3. /\ f \in Frame /\ f.at = at /\ f.cmd = Top.cmd
      /\ stack' = Put(stack, esp, f)
  BY <1>1, <1>2, TopLemma DEF Frame, Phase, Launching, Advance
<1> HIDE DEF f
<1>4. Top' = f /\ OneLaunch'
  BY <1>1, <1>3, LaunchTop
<1>5. \A p \in Live : image'[p] = image[p]
  BY <1>1, <1>2 DEF TypeInv, TypeOK, Live
<1>6. at = "init" => image'[process_id] = parsed
  BY <1>1, <1>2 DEF TypeInv, TypeOK
<1>7. LaunchSound'
  BY <1>1, <1>2, <1>3, <1>4, <1>6 DEF LaunchSound
<1> QED
  BY <1>1, <1>4, <1>5, <1>7 DEF SlotInv, LiveSlotsOpen, ImagesIntact

LEMMA InitRest == ASSUME TypeInv, SlotInv, ExecuteInit PROVE SlotInv'
<1>1. CASE Lost
  BY <1>1, StopRest
<1>2. CASE ~Lost
  <2>1. /\ mode = "kernel" /\ Top.at = "init" /\ kernelStays
        /\ UNCHANGED <<open_processes, image, prog>> /\ Live' = Live
        /\ curr_process' = process_id /\ Advance("jump")
    BY <1>2 DEF ExecuteInit, InKernel, memVars, Live
  <2>2. /\ process_id \in open_processes \ Live
        /\ image[process_id] = Top.cmd
    BY <2>1 DEF SlotInv, LaunchSound
  <2> DEFINE f == [Top EXCEPT !.at = "jump"]
  <2>3. /\ f \in Frame /\ f.at = "jump" /\ f.cmd = Top.cmd
        /\ stack' = Put(stack, esp, f)
    BY <2>1, TopLemma DEF Frame, Phase, Launching, Advance
  <2> HIDE DEF f
  <2>4. Top' = f /\ OneLaunch'
    BY <2>1, <2>3, LaunchTop
  <2>5. LaunchSound'
    BY <2>1, <2>2, <2>3, <2>4 DEF LaunchSound
  <2> QED
    BY <2>1, <2>4, <2>5 DEF SlotInv, LiveSlotsOpen, ImagesIntact
<1> QED
  BY <1>1, <1>2

LEMMA JumpRest == ASSUME TypeInv, SlotInv, ExecuteJump PROVE SlotInv'
<1>1. /\ mode = "kernel" /\ Top.at = "jump" /\ mode' = "user"
      /\ UNCHANGED <<open_processes, image>> /\ Advance("child")
      /\ prog' = [prog EXCEPT ![curr_process] = Top.cmd]
  BY DEF ExecuteJump, InKernel, memVars
<1>2. /\ curr_process \in open_processes /\ image[curr_process] = Top.cmd
      /\ curr_process \in Pid
  BY <1>1 DEF SlotInv, LaunchSound, TypeInv, TypeOK
<1> DEFINE f == [Top EXCEPT !.at = "child"]
<1>3. /\ f \in Frame /\ f.at \notin Launching /\ stack' = Put(stack, esp, f)
  BY <1>1, TopLemma DEF Frame, Phase, Launching, Advance
<1> HIDE DEF f
<1>4. Quiescent(stack')
  BY <1>1, <1>3, TopLemma, StackFacts, OnlyAtLemma DEF SlotInv, OneLaunch
<1>5. \A p \in Pid : prog'[p] = IF p = curr_process THEN Top.cmd ELSE prog[p]
  BY <1>1, <1>2 DEF TypeInv, TypeOK
<1>6. LiveSlotsOpen' /\ ImagesIntact'
  BY <1>1, <1>2, <1>5 DEF SlotInv, LiveSlotsOpen, ImagesIntact, Live
<1> QED
  BY <1>1, <1>4, <1>6 DEF SlotInv, OneLaunch, LaunchSound

LEMMA LeaveRest ==
    ASSUME TypeInv, TypeInv', SlotInv, mode = "kernel", Leave,
           Top.at \notin Launching
    PROVE  SlotInv'
<1>1. Quiescent(stack)
  BY DEF SlotInv, OneLaunch, OnlyAt, Quiescent, Top
<1>2. Quiescent(stack')
  BY <1>1, TopLemma, StackFacts, FrameLemma, OnlyAtLemma
     DEF Leave, Junk, Launching
<1>3. UNCHANGED <<open_processes, image, prog>>
  BY DEF Leave, procVars, memVars
<1> QED
  BY <1>2, <1>3, RestStep

LEMMA CallRest ==
    ASSUME TypeInv, SlotInv, NEW cmd \in Commands, ExecuteCall(cmd)
    PROVE  SlotInv'
<1>1. mode = "user"
  BY DEF ExecuteCall
<1>2. CASE ~Fits(1)
  BY <1>2, StopRest DEF ExecuteCall
<1>3. CASE Fits(1)
  <2> DEFINE loc == Deeper(Base, 1)
             f == ExecuteFrame(cmd, curr_process, run)
  <2>1. loc \in Location /\ loc.dep > 0
    BY <1>3, BaseLemma, DeeperLemma DEF Fits, Location
  <2>2. f \in Frame /\ f.at = "alloc"
    BY FrameLemma DEF ExecuteFrame, Program, TypeInv, TypeOK
  <2>3. /\ stack' = Put(stack, loc, f) /\ esp' = loc /\ mode' = "kernel"
        /\ UNCHANGED <<open_processes, image, prog>>
    BY <1>3 DEF ExecuteCall, procVars, memVars
  <2> HIDE DEF loc, f
  <2>4. OneLaunch'
    BY <1>1, <2>1, <2>2, <2>3, StackFacts, OnlyAtLemma DEF SlotInv, OneLaunch
  <2>5. Top' = f
    BY <2>1, <2>2, <2>3, StackFacts, PutLemma, SizeAssumption
       DEF Top, Location
  <2> QED
    BY <2>2, <2>3, <2>4, <2>5
       DEF SlotInv, LaunchSound, LiveSlotsOpen, ImagesIntact, Live
<1> QED
  BY <1>2, <1>3

LEMMA OpenRest ==
    ASSUME TypeInv, SlotInv, QuietLaunch, NEW t \in Term, OpenTerminal(t)
    PROVE  SlotInv'
<1>1. CASE ~Fits(2)
  BY <1>1, StopRest DEF OpenTerminal
<1>2. CASE Fits(2)
  <2> DEFINE loc == Deeper(Base, 1)
             st == Put(stack, loc, KeyFrame("opening", screen_num, ReturnTo))
             g == ExecuteFrame(Shell, curr_process, NULL)
             top == Deeper(loc, 1)
  <2>1. Fits(1) /\ loc \in Location /\ loc.dep + 1 <= StackDepth
    BY <1>2, BaseLemma, DeeperLemma, SizeAssumption DEF Fits, Location
  <2>2. st \in Stacks /\ Quiescent(st)
    BY <2>1, KeyRest DEF OpenTerminal
  <2>3. top \in Location /\ top.dep > 0
    <3> HIDE DEF loc
    <3> QED
      BY <2>1, DeeperLemma DEF Location
  <2>4. g \in Frame /\ g.at = "alloc"
    BY FrameLemma, ProgramAssumption
       DEF ExecuteFrame, Program, TypeInv, TypeOK
  <2>5. /\ stack' = Put(st, top, g) /\ esp' = top /\ mode' = "kernel"
        /\ UNCHANGED <<open_processes, image, prog>>
    BY <1>2 DEF OpenTerminal, memVars
  <2> HIDE DEF st, top, g, loc
  <2>6. OneLaunch'
    BY <2>2, <2>3, <2>4, <2>5, OnlyAtLemma DEF OneLaunch
  <2>7. Top' = g
    BY <2>2, <2>3, <2>4, <2>5, PutLemma, SizeAssumption DEF Top, Location
  <2> QED
    BY <2>4, <2>5, <2>6, <2>7
       DEF SlotInv, LaunchSound, LiveSlotsOpen, ImagesIntact, Live
<1> QED
  BY <1>1, <1>2

LEMMA ContinueRest ==
    ASSUME TypeInv, TypeInv', SlotInv, OpenContinue PROVE SlotInv'
<1>1. mode = "kernel" /\ Top.at = "opening" /\ screen_num \in Term
  BY DEF OpenContinue, InKernel, TypeInv, TypeOK
<1>2. Quiescent(stack)
  BY <1>1 DEF SlotInv, OneLaunch, OnlyAt, Quiescent, Top, Launching
<1>3. CASE screen_num # Top.prev
  <2> DEFINE f == [Top EXCEPT !.at = "switched"]
  <2>1. f \in Frame /\ f.at = "switched"
    BY <1>1, TopLemma DEF Frame, Phase
  <2>2. ContextSwitch(Target(screen_num), esp, Put(stack, esp, f))
    BY <1>3 DEF OpenContinue
  <2> HIDE DEF f
  <2>3. /\ Put(stack, esp, f) \in Stacks /\ Sound(Put(stack, esp, f), Filled)
        /\ Quiescent(Put(stack, esp, f))
    BY <1>1, <1>2, <2>1, TopLemma, StackFacts, PutLemma, SoundLemma,
       OnlyAtLemma DEF Mapped, Launching
  <2> QED
    BY <1>1, <2>2, <2>3, TopLemma, TargetLemma, SwitchRest
<1>4. CASE screen_num = Top.prev
  <2> DEFINE f == [Top EXCEPT !.at = "done"]
  <2>1. f \in Frame /\ f.at = "done" /\ stack' = Put(stack, esp, f)
    BY <1>1, <1>4, TopLemma DEF Frame, Phase, OpenContinue, Advance
  <2> HIDE DEF f
  <2>2. Quiescent(stack')
    BY <1>1, <1>2, <2>1, TopLemma, StackFacts, OnlyAtLemma DEF Launching
  <2>3. UNCHANGED <<open_processes, image, prog>>
    BY <1>4 DEF OpenContinue, procVars, memVars
  <2> QED
    BY <2>2, <2>3, RestStep
<1> QED
  BY <1>3, <1>4

LEMMA HaltRest == ASSUME TypeInv, TypeInv', SlotInv, Halt PROVE SlotInv'
<1> DEFINE p == curr_process
           q == pcb[p].parent
           loc == Deeper(Base, 1)
           st == Put(stack, loc, Junk)
<1>1. mode = "user" /\ Quiescent(stack) /\ p \in Pid /\ q \in Pid \cup {NULL}
  BY StackFacts DEF Halt, SlotInv, OneLaunch, Pcb
<1>2. CASE Lost \/ Overflow
  BY <1>2, StopRest
<1>3. CASE Fits(1) /\ q # NULL /\ q = p
  <2> DEFINE f == SpinFrame(run)
  <2>1. loc \in Location /\ loc.dep > 0
    BY <1>3, BaseLemma, DeeperLemma DEF Fits, Location
  <2>2. f \in Frame /\ f.at \notin Launching
    BY FrameLemma DEF SpinFrame, TypeInv, TypeOK, Launching
  <2>3. /\ stack' = Put(stack, loc, f)
        /\ UNCHANGED <<open_processes, image, prog>>
    BY <1>3 DEF Halt, procVars, memVars
  <2> HIDE DEF loc, f
  <2>4. Quiescent(stack')
    BY <1>1, <2>1, <2>2, <2>3, StackFacts, OnlyAtLemma
  <2> QED
    BY <2>3, <2>4, RestStep
<1>4. CASE Fits(1) /\ q # NULL /\ q # p /\ Resumable(st, pcb[q].k_sp)
  <2>1. loc \in Location /\ loc.dep > 0
    BY <1>4, BaseLemma, DeeperLemma DEF Fits, Location
  <2>2. Junk.at \notin Launching /\ Junk.at \notin Mapped /\ Junk \in Frame
    BY FrameLemma DEF Junk, Launching, Mapped
  <2>3. /\ open_processes' = Toggled(p)
        /\ prog' = [prog EXCEPT ![p] = NULL]
        /\ Resume(st, pcb[q].k_sp)
        /\ image' = image
    BY <1>4 DEF Halt
  <2>4. st \in Stacks /\ Sound(st, Filled) /\ Quiescent(st)
    <3> HIDE DEF loc
    <3> QED
      BY <1>1, <2>1, <2>2, StackFacts, PutLemma, SoundLemma, OnlyAtLemma
  <2>5. q \in Pid
    BY <1>1, <1>4
  <2> HIDE DEF st, loc, q
  <2> DEFINE l == pcb[q].k_sp
             f == Woken(st[l.own][l.dep])
  <2>6. l \in Location /\ l.dep > 0 /\ stack' = Put(st, l, f)
        /\ esp' = l /\ mode' = "kernel"
    BY <1>4, <2>3, <2>4, <2>5, ResumeLemma DEF Resume
  <2>7. st[l.own][l.dep] \in Frame
    BY <2>4, <2>6, SizeAssumption DEF Location, Stacks
  <2>8. f \in Frame /\ f.at \notin Launching
    BY <2>7, WokenLemma DEF Launching
  <2> HIDE DEF l, f
  <2>9. Quiescent(stack')
    BY <2>4, <2>6, <2>8, OnlyAtLemma
  <2>10. Top'.at \notin Launching
    BY <2>6, <2>9, SizeAssumption DEF Top, Quiescent, Location
  <2>11. \A r \in Pid : prog'[r] = IF r = p THEN NULL ELSE prog[r]
    BY <1>1, <2>3 DEF TypeInv, TypeOK
  <2>12. LiveSlotsOpen' /\ ImagesIntact'
    BY <2>3, <2>11
       DEF SlotInv, LiveSlotsOpen, ImagesIntact, Live, Toggled
  <2>13. OneLaunch' /\ LaunchSound'
    BY <2>6, <2>9, <2>10
       DEF OneLaunch, LaunchSound, OnlyAt, Quiescent, Launching
  <2> QED
    BY <2>12, <2>13 DEF SlotInv
<1> QED
  BY <1>2, <1>3, <1>4 DEF Halt

LEMMA SlotNext ==
    ASSUME QuietLaunch, TypeInv, TypeInv', SlotInv, [Next]_vars
    PROVE  SlotInv'
<1>1. CASE KernelStep
  <2>1. CASE ExecuteReturn \/ KeyReturn
    BY <2>1, LeaveRest DEF ExecuteReturn, KeyReturn, InKernel, Launching
  <2> QED
    BY <1>1, <2>1, AllocRest, CheckRest, MapRest, LoadRest, InitRest,
       JumpRest, ContinueRest DEF KernelStep
<1>2. CASE \E cmd \in Commands : ExecuteCall(cmd)
  BY <1>2, CallRest
<1>3. CASE Halt
  BY <1>3, HaltRest
<1>4. ASSUME NEW t \in Term, OpenTerminal(t) \/ SwitchTerminal(t)
      PROVE  SlotInv'
  <2>1. CASE SwitchTerminal(t) /\ ~Fits(1)
    BY <2>1, StopRest DEF SwitchTerminal
  <2>2. CASE SwitchTerminal(t) /\ Fits(1)
    BY <2>2, KeyRest, KeyLemma, TargetLemma, SwitchRest DEF SwitchTerminal
  <2> QED
    BY <1>4, <2>1, <2>2, OpenRest
<1>5. ASSUME NEW p \in DebugKeys, DebugKey(p) PROVE SlotInv'
  <2>1. CASE ~Fits(1)
    BY <1>5, <2>1, StopRest DEF DebugKey
  <2>2. CASE Fits(1)
    BY <1>5, <2>2, KeyRest, KeyLemma, ProgramAssumption, SwitchRest
       DEF DebugKey
  <2> QED
    BY <2>1, <2>2
<1>6. CASE UNCHANGED vars
  BY <1>6 DEF vars, procVars, memVars, cpuVars, termVars, SlotInv, OneLaunch,
              LaunchSound, LiveSlotsOpen, ImagesIntact, Live, Top
<1> QED
  BY <1>1, <1>2, <1>3, <1>4, <1>5, <1>6 DEF Next

LEMMA SlotInvariant == QuietLaunch /\ Spec => []SlotInv
<1>1. CASE QuietLaunch
  <2>1. TypeInv /\ TypeInv' /\ SlotInv /\ [Next]_vars => SlotInv'
    BY <1>1, SlotNext
  <2> QED
    BY <2>1, SlotInit, TypeInvariant, PTL DEF Spec
<1>2. CASE ~QuietLaunch
  BY <1>2, PTL
<1> QED
  BY <1>1, <1>2

\* As long as nobody presses a terminal key while execute is running, the
\* bitmap protects every live process: its bit stays set until its own halt.
THEOREM SlotsProtected == QuietLaunch /\ Spec => []LiveSlotsOpen
<1>1. SlotInv => LiveSlotsOpen
  BY DEF SlotInv
<1> QED
  BY <1>1, SlotInvariant, PTL

\* ... and program_load never writes over the page of a live process, for
\* any number of slots, terminals and nested shells, failed launches
\* included.
THEOREM ImagesProtected == QuietLaunch /\ Spec => []ImagesIntact
<1>1. SlotInv => ImagesIntact
  BY DEF SlotInv
<1> QED
  BY <1>1, SlotInvariant, PTL

-----------------------------------------------------------------------------
(* The inductive invariant behind RightProcessRuns and NothingLost.  Frames *)
(* are sought in k, the kernel stack of process p, from depth d downwards.  *)

\* The while(1) of a root shell's halt.
Spins(k, p, d) == k[d].at = "spin" /\ k[d].ret = p

\* A keyboard handler's frame: it interrupted p's user code or its halt.
Interrupts(k, p, d) ==
    k[d].ret = p \/ (k[d].ret = NULL /\ d > 1 /\ Spins(k, p, d - 1))

\* A handler that has called execute, pressed on p's own terminal.
Opens(k, p, d) ==
    p \in Term /\ k[d].at = "opening" /\ k[d].prev = p /\ Interrupts(k, p, d)

\* A frame of execute: p's user code called it, or a handler on p's stack.
Executes(k, p, d) ==
    k[d].ret = p \/ (k[d].ret = NULL /\ d > 1 /\ Opens(k, p, d - 1))

\* The frame at d, and what is below it, end in p's user code or spin.
GoesBack(k, p, d) ==
    \/ k[d].at \in {"switched", "done"} /\ Interrupts(k, p, d)
    \/ k[d].at \in {"child", "return"} /\ Executes(k, p, d)
    \/ Opens(k, p, d)
    \/ Spins(k, p, d)

LaunchUnderWay == mode = "kernel" /\ Top.at \in Launching

\* Whose kernel stack is in use; NULL in the first launch of all.
Caller == IF LaunchUnderWay THEN Top.prev ELSE curr_process

\* The live processes and the one about to be jumped to.
Born == Live \cup (IF InKernel("jump") THEN {curr_process} ELSE {})

\* The first shell of the terminal on the screen is not born yet.
Arriving == LaunchUnderWay /\ Top.at # "jump" /\ initial_shell

\* Process t is terminal t's shell, any other a command of one of them, which
\* it alone has as its child.
JobTree ==
    /\ \A p \in Live : prog[p] = Shell <=> p \in Term
    /\ \A p \in Pid \ Term : ~pcb[p].child_flag
    /\ \A p \in Born :
          /\ pcb[p].PD = p
          /\ p \in Term => pcb[p].parent = p /\ pcb[p].stdout = p
          /\ pcb[p].child_flag =>
                pcb[p].child \in Born \ Term /\ pcb[pcb[p].child].parent = p
    /\ \A p \in Born \ Term :
          LET q == pcb[p].parent IN
          /\ fresh = {} /\ q \in Live \cap Term /\ pcb[p].stdout = q
          /\ pcb[q].child_flag /\ pcb[q].child = p

\* Terminals are opened in order, each with the slot of its number.
TerminalOrder ==
    /\ screen_num \notin fresh
    /\ \A s \in fresh : \A t \in Term : s <= t => t \in fresh
    /\ fresh \cap open_processes = {}
    /\ \A t \in Term \ fresh : t \in Born \/ (Arriving /\ t = screen_num)

\* An execute under way: on its caller's stack, with the caller's page
\* directory until its own is set up.
LaunchPlaced ==
    LaunchUnderWay =>
        /\ Top.prev = NULL => Live = {} /\ (Top.at # "jump" => initial_shell)
        /\ Top.prev # NULL =>
              /\ Top.prev \in Live /\ esp.own = Top.prev
              /\ Executes(stack[Top.prev], Top.prev, esp.dep)
              /\ Top.at \in {"alloc", "check", "map"} =>
                    cr3 = Top.prev /\ tss_esp0.own = Top.prev
        /\ Top.at # "alloc" => parsed = Top.cmd
        /\ Top.at \in {"load", "init"} => Top.pd = process_id

LaunchOfShell ==
    Arriving =>
        /\ Top.cmd = Shell /\ curr_process = Top.prev
        /\ IF Top.at = "alloc" THEN screen_num \notin open_processes
                               ELSE process_id = screen_num

LaunchOfCommand ==
    LaunchUnderWay /\ Top.at # "jump" /\ ~initial_shell =>
        /\ Top.cmd \in Commands /\ curr_process = Top.prev
        /\ fresh = {} /\ Top.prev = screen_num
        /\ ~pcb[Top.prev].child_flag
        /\ Top.at # "alloc" => process_id \notin Term

LaunchDone ==
    InKernel("jump") =>
        /\ ~initial_shell /\ cr3 = curr_process
        /\ curr_process # NULL /\ ~pcb[curr_process].child_flag
        /\ pcb[curr_process].k_sp = StackTop(curr_process)
        /\ pcb[curr_process].stdout = screen_num
        /\ Top.cmd \in Program /\ (Top.cmd = Shell <=> curr_process \in Term)

\* No launch under way: the newest job of the terminal on the screen runs, or
\* its stack leads back to it.
Settled ==
    ~LaunchUnderWay =>
        /\ curr_process \in Live /\ cr3 = curr_process
        /\ tss_esp0.own = curr_process /\ ~initial_shell
        /\ pcb[curr_process].stdout = screen_num
        /\ ~pcb[curr_process].child_flag
        /\ mode = "user" => run = curr_process
        /\ mode = "kernel" =>
              /\ esp.own = curr_process
              /\ Top.at \in {"return", "done", "opening", "spin"}
              /\ GoesBack(stack[curr_process], curr_process, esp.dep)

\* Every other process is where its PCB says.
Waits(p) ==
    LET loc == pcb[p].k_sp IN
    /\ loc.own = p /\ Resumable(stack, loc) /\ GoesBack(stack[p], p, loc.dep)
OthersWait == \A p \in Live \ {Caller} : Waits(p)

JobInv ==
    /\ mode \in {"user", "kernel", "overflow"}
    /\ mode # "overflow" =>
          /\ JobTree /\ TerminalOrder /\ OthersWait /\ Settled
          /\ LaunchPlaced /\ LaunchOfShell /\ LaunchOfCommand /\ LaunchDone

\* What a run has to keep to: no terminal key during a launch, the terminals
\* opened first, only a terminal's first shell is a shell, no load fails half
\* way, and Alt-F4 and Alt-F5 are left alone.
Discipline ==
    /\ QuietLaunch /\ TerminalsFirst /\ DebugKeys = {}
    /\ Shell \notin Commands /\ Commands \cap Broken = {}

\* Frames above d do not matter, nor what else the frame at d holds.
LEMMA BelowLemma ==
    ASSUME NEW k, NEW k2, NEW p, NEW d \in Nat \ {0},
           \A i \in 1 .. d - 1 : k2[i] = k[i],
           k2[d].ret = k[d].ret, k2[d].prev = k[d].prev
    PROVE  /\ Interrupts(k, p, d) => Interrupts(k2, p, d)
           /\ Executes(k, p, d) => Executes(k2, p, d)
<1>1. \A e \in 1 .. d - 1 : Spins(k, p, e) => Spins(k2, p, e)
  BY DEF Spins
<1>2. \A e \in 1 .. d - 1 : Interrupts(k, p, e) => Interrupts(k2, p, e)
  <2> SUFFICES ASSUME NEW e \in 1 .. d - 1, Interrupts(k, p, e)
               PROVE  Interrupts(k2, p, e)
    OBVIOUS
  <2>1. k2[e] = k[e] /\ (e > 1 => e - 1 \in 1 .. d - 1)
    OBVIOUS
  <2> QED
    BY <1>1, <2>1 DEF Interrupts
<1>3. d > 1 => d - 1 \in 1 .. d - 1
  OBVIOUS
<1>4. Interrupts(k, p, d) => Interrupts(k2, p, d)
  BY <1>1, <1>3 DEF Interrupts
<1>5. d > 1 /\ Opens(k, p, d - 1) => Opens(k2, p, d - 1)
  BY <1>2, <1>3 DEF Opens
<1>6. Executes(k, p, d) => Executes(k2, p, d)
  BY <1>5 DEF Executes
<1> QED
  BY <1>4, <1>6

LEMMA GoesBackLemma ==
    ASSUME NEW k, NEW k2, NEW p, NEW d \in Nat \ {0},
           \A i \in 1 .. d : k2[i] = k[i], GoesBack(k, p, d)
    PROVE  GoesBack(k2, p, d)
<1>1. d \in 1 .. d /\ \A i \in 1 .. d - 1 : i \in 1 .. d
  OBVIOUS
<1>2. k2[d] = k[d] /\ \A i \in 1 .. d - 1 : k2[i] = k[i]
  BY <1>1
<1>3. /\ Interrupts(k, p, d) => Interrupts(k2, p, d)
      /\ Executes(k, p, d) => Executes(k2, p, d)
  BY <1>2, BelowLemma
<1> QED
  BY <1>2, <1>3 DEF GoesBack, Opens, Spins

\* A process nobody touches waits on.
LEMMA WaitsOn ==
    ASSUME NEW p, Waits(p), pcb'[p].k_sp = pcb[p].k_sp, stack'[p] = stack[p]
    PROVE  Waits(p)'
BY DEF Waits, Resumable

\* Types, and what the other invariants say of a launch.
LEMMA JobFacts ==
    ASSUME TypeInv, SlotInv, JobInv, mode # "overflow"
    PROVE  /\ JobTree /\ TerminalOrder /\ OthersWait /\ Settled
           /\ LaunchPlaced /\ LaunchOfShell /\ LaunchOfCommand /\ LaunchDone
           /\ mode \in {"user", "kernel"}
           /\ stack \in Stacks /\ pcb \in [Pid -> Pcb]
           /\ Live \subseteq Pid /\ Live \subseteq open_processes
           /\ Term \subseteq Pid /\ NULL \notin Pid /\ screen_num \in Term
           /\ mode = "kernel" /\ Top.at \in {"check", "map", "load", "init"}
                => process_id \in Pid \ Live
           /\ mode = "kernel" /\ Top.at \in {"load", "init"} => cr3 = process_id
           /\ InKernel("jump") => curr_process \notin Live
           /\ Caller \in Pid \cup {NULL} /\ Born \subseteq Pid
<1>1. /\ stack \in Stacks /\ pcb \in [Pid -> Pcb] /\ Live \subseteq Pid
      /\ Term \subseteq Pid /\ NULL \notin Pid /\ screen_num \in Term
  BY SizeAssumption, NullAssumption DEF TypeInv, TypeOK, Stacks, Live, Term, Pid
<1>2. Live \subseteq open_processes
  BY DEF SlotInv, LiveSlotsOpen
<1>3. /\ mode = "kernel" /\ Top.at \in {"check", "map", "load", "init"}
           => process_id \in Pid \ Live
      /\ mode = "kernel" /\ Top.at \in {"load", "init"} => cr3 = process_id
      /\ InKernel("jump") => curr_process \notin Live
  BY DEF SlotInv, LaunchSound, InKernel, TypeInv, TypeOK
<1>4. Caller \in Pid \cup {NULL}
  BY TopLemma DEF Caller, LaunchUnderWay, TypeInv, TypeOK, Frame
<1>5. Born \subseteq Pid
  BY <1>1 DEF Born, LaunchDone, JobInv, TypeInv, TypeOK
<1> QED
  BY <1>1, <1>2, <1>3, <1>4, <1>5 DEF JobInv

\* Losing the CPU to a full kernel stack.
LEMMA OverflowJob == ASSUME Overflow PROVE JobInv'
BY DEF Overflow, Stop, JobInv

-----------------------------------------------------------------------------
(* The phases of execute. *)

LEMMA JobInit == ASSUME Init PROVE JobInv
<1>1. Live = {} /\ curr_process = NULL /\ initial_shell /\ mode = "kernel"
  BY DEF Init, Live
<1>2. Top.at = "alloc" /\ Top.prev = NULL /\ Top.cmd = Shell
  BY SizeAssumption DEF Init, Top, StackTop, Deeper, ExecuteFrame, Pid
<1>3. LaunchUnderWay /\ Arriving /\ Born = {}
  BY <1>1, <1>2 DEF LaunchUnderWay, Arriving, Born, InKernel, Launching
<1>4. JobTree
  BY <1>1, <1>3 DEF JobTree, Init, BlankPcb
<1>5. TerminalOrder
  BY <1>3, SizeAssumption DEF TerminalOrder, Init, Term
<1>6. OthersWait /\ Settled /\ LaunchPlaced /\ LaunchOfCommand /\ LaunchDone
  BY <1>1, <1>2, <1>3 DEF OthersWait, Settled, LaunchPlaced, LaunchOfCommand, LaunchDone,
     InKernel
<1>7. LaunchOfShell
  BY <1>1, <1>2 DEF LaunchOfShell, Init
<1> QED
  BY <1>1, <1>4, <1>5, <1>6, <1>7 DEF JobInv

\* A phase moves the frame on top and leaves everybody else's stack alone.
LEMMA PhasePlaced ==
    ASSUME TypeInv, SlotInv, JobInv, LaunchUnderWay, kernelStays,
           UNCHANGED prog,
           NEW f \in Frame, stack' = Put(stack, esp, f),
           f.prev = Top.prev, f.ret = Top.ret,
           \A p \in Live \ {Top.prev} : pcb'[p].k_sp = pcb[p].k_sp
    PROVE  /\ Top' = f /\ mode' = "kernel" /\ Live' = Live
           /\ Top.prev # NULL => /\ Top.prev \in Live /\ esp.own = Top.prev
                                 /\ Executes(stack'[Top.prev], Top.prev, esp.dep)
           /\ Top.prev = NULL => Live = {}
           /\ \A p \in Live \ {Top.prev} : Waits(p)'
<1>1. /\ mode = "kernel" /\ LaunchPlaced /\ OthersWait /\ mode # "overflow"
      /\ stack \in Stacks /\ Live \subseteq Pid
  BY JobFacts DEF LaunchUnderWay
<1>2. esp \in Location /\ esp.own \in Pid /\ esp.dep \in 1 .. StackDepth
      /\ esp.dep > 0
  BY <1>1, TopLemma
<1>3. Top' = f /\ mode' = "kernel" /\ Live' = Live
  BY <1>1, <1>2, PutLemma DEF kernelStays, Top, Live
<1>4. \A p \in Pid : p # esp.own => stack'[p] = stack[p]
  BY <1>1, <1>2 DEF Put, Stacks
<1>5. /\ Top.prev # NULL => Top.prev \in Live /\ esp.own = Top.prev
                            /\ Executes(stack[Top.prev], Top.prev, esp.dep)
      /\ Top.prev = NULL => Live = {}
  BY <1>1 DEF LaunchPlaced
<1>6. \A p \in Live \ {Top.prev} : Waits(p)'
  <2> SUFFICES ASSUME NEW p \in Live \ {Top.prev} PROVE Waits(p)'
    OBVIOUS
  <2>1. Waits(p) /\ p # esp.own
    BY <1>1, <1>5 DEF OthersWait, Caller
  <2> QED
    BY <1>1, <1>4, <2>1, WaitsOn
<1>7. ASSUME Top.prev # NULL
      PROVE  Executes(stack'[Top.prev], Top.prev, esp.dep)
  <2>1. \A i \in 1 .. esp.dep - 1 : stack'[esp.own][i] = stack[esp.own][i]
    <3>1. \A i \in 1 .. esp.dep - 1 : i \in 1 .. StackDepth /\ i # esp.dep
      BY <1>2, SizeAssumption
    <3> QED
      BY <1>1, <1>2, <3>1, PutLemma
  <2>2. /\ stack'[esp.own][esp.dep].ret = stack[esp.own][esp.dep].ret
        /\ stack'[esp.own][esp.dep].prev = stack[esp.own][esp.dep].prev
    BY <1>1, <1>2, PutLemma DEF Top
  <2>3. Executes(stack[esp.own], esp.own, esp.dep)
    BY <1>5, <1>7
  <2>4. Executes(stack'[esp.own], esp.own, esp.dep)
    BY <1>2, <2>1, <2>2, <2>3, BelowLemma
  <2> QED
    BY <1>5, <1>7, <2>4
<1> QED
  BY <1>3, <1>5, <1>6, <1>7

\* A launch that is given up: the caller goes on.
LEMMA LaunchFails ==
    ASSUME TypeInv, SlotInv, JobInv, LaunchUnderWay, kernelStays,
           Top.at \in {"alloc", "check"}, ~initial_shell,
           UNCHANGED <<prog, pcb, curr_process, initial_shell, cr3, termVars,
                       open_processes>>,
           NEW f \in Frame, stack' = Put(stack, esp, f),
           f.prev = Top.prev, f.ret = Top.ret, f.at = "return"
    PROVE  JobInv'
<1> DEFINE c == Top.prev
<1>1. /\ JobTree /\ TerminalOrder /\ LaunchPlaced /\ LaunchOfCommand
      /\ mode = "kernel" /\ NULL \notin Pid /\ Term \subseteq Pid /\ screen_num \in Term
  BY JobFacts DEF LaunchUnderWay
<1>2. /\ Top' = f /\ mode' = "kernel" /\ Live' = Live
      /\ c # NULL => /\ c \in Live /\ esp.own = c
                     /\ Executes(stack'[c], c, esp.dep)
      /\ \A p \in Live \ {c} : Waits(p)'
  BY PhasePlaced
<1>3. /\ curr_process = c /\ fresh = {} /\ c = screen_num /\ c # NULL
      /\ ~pcb[c].child_flag
  BY <1>1 DEF LaunchOfCommand
<1>4. c \in Live /\ cr3 = c /\ tss_esp0.own = c
  BY <1>1, <1>2, <1>3 DEF LaunchPlaced
<1>5. ~LaunchUnderWay' /\ ~Arriving' /\ Born' = Live /\ Born = Live
  BY <1>2 DEF LaunchUnderWay, Arriving, Born, InKernel, Launching
<1>6. JobTree'
  BY <1>1, <1>2, <1>5 DEF JobTree, termVars
<1>7. TerminalOrder'
  BY <1>1, <1>3, <1>5 DEF TerminalOrder, Arriving, termVars
<1>8. OthersWait'
  BY <1>2, <1>3, <1>5 DEF OthersWait, Caller
<1>9. Settled'
  <2>2. esp' = esp /\ tss_esp0' = tss_esp0 /\ stack'[c][esp.dep] = f
    BY <1>2, <1>3 DEF kernelStays, Top
  <2>3. GoesBack(stack'[c], c, esp.dep)
    BY <1>2, <1>3, <2>2 DEF GoesBack
  <2>4. pcb[c].stdout = screen_num
    BY <1>1, <1>3, <1>4, <1>5 DEF JobTree
  <2> QED
    BY <1>2, <1>3, <1>4, <2>2, <2>3, <2>4 DEF Settled, termVars
<1>10. LaunchPlaced' /\ LaunchOfShell' /\ LaunchOfCommand' /\ LaunchDone'
  BY <1>2, <1>5 DEF LaunchPlaced, LaunchOfShell, LaunchOfCommand, LaunchDone, InKernel
<1> QED
  BY <1>2, <1>6, <1>7, <1>8, <1>9, <1>10 DEF JobInv

LEMMA AllocJob ==
    ASSUME TypeInv, SlotInv, JobInv, ExecuteAlloc
    PROVE  JobInv'
<1> DEFINE c == Top.prev
<1>1. /\ mode = "kernel" /\ Top.at = "alloc" /\ LaunchUnderWay /\ ~InKernel("jump")
      /\ parsed' = Top.cmd /\ kernelStays
      /\ UNCHANGED <<curr_process, initial_shell, pcb, cr3, termVars, prog>>
  BY DEF ExecuteAlloc, InKernel, LaunchUnderWay, Launching, memVars
<1>2. /\ JobTree /\ TerminalOrder /\ OthersWait /\ LaunchPlaced
      /\ LaunchOfShell /\ LaunchOfCommand
      /\ Live \subseteq open_processes /\ Term \subseteq Pid /\ NULL \notin Pid
      /\ screen_num \in Term /\ Top \in Frame
  BY <1>1, JobFacts, TopLemma
<1>3. Arriving <=> initial_shell
  BY <1>1 DEF Arriving
<1>4. CASE Pid \subseteq open_processes
  <2> DEFINE f == [Top EXCEPT !.at = "return"]
  <2>1. f \in Frame /\ f.prev = Top.prev /\ f.ret = Top.ret /\ f.at = "return"
    BY <1>2 DEF Frame, Phase
  <2>2. stack' = Put(stack, esp, f) /\ UNCHANGED open_processes
    BY <1>4 DEF ExecuteAlloc, Advance
  <2>3. ~initial_shell
    BY <1>1, <1>2, <1>3, <1>4 DEF LaunchOfShell
  <2> HIDE DEF f
  <2> QED
    BY <1>1, <2>1, <2>2, <2>3, LaunchFails
<1>5. ASSUME NEW slot \in Pid, IsFirstFree(slot),
             open_processes' = open_processes \cup {slot},
             process_id' = slot, Advance("check")
      PROVE  JobInv'
  <2> DEFINE f == [Top EXCEPT !.at = "check"]
  <2>1. f \in Frame /\ f.prev = Top.prev /\ f.ret = Top.ret /\ f.at = "check"
        /\ f.cmd = Top.cmd
    BY <1>2 DEF Frame, Phase, Launching
  <2>2. stack' = Put(stack, esp, f)
    BY <1>5 DEF Advance
  <2> HIDE DEF f
  <2>3. /\ Top' = f /\ mode' = "kernel" /\ Live' = Live
        /\ c # NULL => /\ c \in Live /\ esp.own = c
                       /\ Executes(stack'[c], c, esp.dep)
        /\ c = NULL => Live = {}
        /\ \A p \in Live \ {c} : Waits(p)'
    BY <1>1, <2>1, <2>2, PhasePlaced
  <2>4. /\ LaunchUnderWay' /\ Born' = Live /\ Born = Live /\ ~InKernel("jump")'
        /\ Arriving' <=> initial_shell
    BY <1>1, <2>1, <2>3 DEF LaunchUnderWay, Arriving, Born, InKernel, Launching
  <2>5. initial_shell => slot = screen_num
    <3> SUFFICES ASSUME initial_shell, slot # screen_num PROVE FALSE
      OBVIOUS
    <3>1. screen_num \in Pid \ open_processes
      BY <1>1, <1>2, <1>3 DEF LaunchOfShell
    <3>2. slot <= screen_num /\ slot \notin open_processes
      BY <1>5, <3>1 DEF IsFirstFree
    <3>3. slot \in Term
      BY <1>2, <3>2, SizeAssumption DEF Term, Pid
    <3>4. slot \in Term \ fresh
      BY <1>2, <3>2, <3>3 DEF TerminalOrder
    <3>5. slot \in Live
      BY <1>2, <2>4, <3>4 DEF TerminalOrder
    <3> QED
      BY <1>2, <3>2, <3>5
  <2>6. ~initial_shell => slot \notin Term
    <3> SUFFICES ASSUME ~initial_shell, slot \in Term PROVE FALSE
      OBVIOUS
    <3>1. fresh = {}
      BY <1>1, <1>2 DEF LaunchOfCommand
    <3>2. slot \in Live
      BY <1>2, <1>3, <2>4, <3>1 DEF TerminalOrder
    <3> QED
      BY <1>2, <1>5, <3>2 DEF IsFirstFree
  <2>7. JobTree'
    BY <1>1, <1>2, <2>3, <2>4 DEF JobTree, termVars
  <2>8. TerminalOrder'
    <3>1. slot \notin fresh
      BY <1>1, <1>2, <2>5, <2>6 DEF TerminalOrder, LaunchOfCommand
    <3> QED
      BY <1>1, <1>2, <1>3, <1>5, <2>4, <3>1 DEF TerminalOrder, termVars
  <2>9. OthersWait'
    BY <2>1, <2>3, <2>4 DEF OthersWait, Caller
  <2>10. Settled' /\ LaunchDone'
    BY <2>4 DEF Settled, LaunchDone
  <2>11. LaunchPlaced'
    <3>1. c # NULL => cr3 = c /\ tss_esp0.own = c
      BY <1>1, <1>2 DEF LaunchPlaced
    <3>2. c = NULL => initial_shell
      BY <1>1, <1>2 DEF LaunchPlaced
    <3> QED
      BY <1>1, <2>1, <2>3, <3>1, <3>2 DEF LaunchPlaced, kernelStays
  <2>12. LaunchOfShell'
    BY <1>1, <1>2, <1>3, <1>5, <2>1, <2>3, <2>4, <2>5 DEF LaunchOfShell, termVars
  <2>13. LaunchOfCommand'
    BY <1>1, <1>2, <1>5, <2>1, <2>3, <2>4, <2>6 DEF LaunchOfCommand, termVars
  <2> QED
    BY <2>3, <2>7, <2>8, <2>9, <2>10, <2>11, <2>12, <2>13 DEF JobInv
<1> QED
  BY <1>4, <1>5 DEF ExecuteAlloc

\* A phase between the search for a slot and the new PCB.
LEMMA MiddlePhase ==
    ASSUME TypeInv, SlotInv, JobInv, LaunchUnderWay, kernelStays,
           Top.at \in {"check", "map", "load"},
           UNCHANGED <<procVars, termVars, parsed, prog>>,
           NEW f \in Frame, stack' = Put(stack, esp, f),
           f.prev = Top.prev, f.ret = Top.ret, f.cmd = Top.cmd,
           f.at \in {"map", "load", "init"},
           f.at = "map" => Top.at = "check" /\ cr3' = cr3,
           f.at # "map" => f.pd = process_id
    PROVE  JobInv'
<1> DEFINE c == Top.prev
<1>1. /\ JobTree /\ TerminalOrder /\ OthersWait /\ LaunchPlaced
      /\ LaunchOfShell /\ LaunchOfCommand /\ mode = "kernel"
  BY JobFacts DEF LaunchUnderWay
<1>2. UNCHANGED <<open_processes, process_id, curr_process, initial_shell, pcb,
                  screen_num, fresh>>
  BY DEF procVars, termVars
<1>3. /\ Top' = f /\ mode' = "kernel" /\ Live' = Live
      /\ c # NULL => /\ c \in Live /\ esp.own = c
                     /\ Executes(stack'[c], c, esp.dep)
      /\ c = NULL => Live = {}
      /\ \A p \in Live \ {c} : Waits(p)'
  BY <1>2, PhasePlaced
<1>4. /\ LaunchUnderWay' /\ Born' = Live /\ Born = Live /\ ~InKernel("jump")'
      /\ Arriving' = initial_shell /\ Arriving = initial_shell
  BY <1>2, <1>3 DEF LaunchUnderWay, Arriving, Born, InKernel, Launching, TypeInv, TypeOK
<1>5. JobTree'
  BY <1>1, <1>2, <1>3, <1>4 DEF JobTree
<1>6. TerminalOrder'
  BY <1>1, <1>2, <1>4 DEF TerminalOrder
<1>7. OthersWait'
  BY <1>3, <1>4 DEF OthersWait, Caller
<1>8. Settled' /\ LaunchDone'
  BY <1>4 DEF Settled, LaunchDone
<1>9. LaunchPlaced'
  BY <1>1, <1>2, <1>3 DEF LaunchPlaced, kernelStays
<1>10. LaunchOfShell'
  BY <1>1, <1>2, <1>3, <1>4 DEF LaunchOfShell
<1>11. LaunchOfCommand'
  BY <1>1, <1>2, <1>3, <1>4 DEF LaunchOfCommand
<1> QED
  BY <1>3, <1>5, <1>6, <1>7, <1>8, <1>9, <1>10, <1>11 DEF JobInv

LEMMA CheckJob ==
    ASSUME TypeInv, SlotInv, JobInv, Discipline, ExecuteCheck
    PROVE  JobInv'
<1> DEFINE f == [Top EXCEPT !.at = IF parsed \in Loadable THEN "map" ELSE "return",
                            !.cmd = parsed]
<1>1. /\ mode = "kernel" /\ Top.at = "check" /\ LaunchUnderWay /\ kernelStays
      /\ UNCHANGED <<procVars, memVars, termVars, parsed, prog>>
      /\ stack' = Put(stack, esp, f)
  BY DEF ExecuteCheck, InKernel, LaunchUnderWay, Launching
<1>2. Top \in Frame /\ LaunchPlaced /\ LaunchOfShell
  BY <1>1, TopLemma, JobFacts
<1>3. /\ f \in Frame /\ f.prev = Top.prev /\ f.ret = Top.ret
      /\ f.cmd = parsed
      /\ f.at = IF parsed \in Loadable THEN "map" ELSE "return"
  BY <1>2 DEF Frame, Phase, Launching, TypeInv, TypeOK
<1> HIDE DEF f
<1>4. parsed = Top.cmd
  BY <1>1, <1>2 DEF LaunchPlaced
<1>5. CASE parsed \in Loadable
  BY <1>1, <1>3, <1>4, <1>5, MiddlePhase DEF memVars
<1>6. CASE parsed \notin Loadable
  <2>1. ~initial_shell
    BY <1>1, <1>2, <1>4, <1>6, ProgramAssumption DEF LaunchOfShell, Arriving
  <2> QED
    BY <1>1, <1>3, <1>6, <2>1, LaunchFails DEF procVars, memVars
<1> QED
  BY <1>5, <1>6

LEMMA MapJob ==
    ASSUME TypeInv, SlotInv, JobInv, ExecuteMap
    PROVE  JobInv'
<1> DEFINE f == [Top EXCEPT !.at = "load", !.pd = process_id]
<1>1. /\ mode = "kernel" /\ Top.at = "map" /\ LaunchUnderWay /\ kernelStays
      /\ UNCHANGED <<procVars, termVars, parsed, prog>>
      /\ stack' = Put(stack, esp, f)
  BY DEF ExecuteMap, InKernel, LaunchUnderWay, Launching
<1>2. Top \in Frame
  BY <1>1, TopLemma
<1>3. /\ f \in Frame /\ f.prev = Top.prev /\ f.ret = Top.ret
      /\ f.cmd = Top.cmd /\ f.at = "load" /\ f.pd = process_id
  BY <1>2 DEF Frame, Phase, Launching, TypeInv, TypeOK
<1> HIDE DEF f
<1> QED
  BY <1>1, <1>3, MiddlePhase

LEMMA LoadJob ==
    ASSUME TypeInv, SlotInv, JobInv, Discipline, ExecuteLoad
    PROVE  JobInv'
<1> DEFINE f == [Top EXCEPT !.at = "init"]
<1>1. /\ mode = "kernel" /\ Top.at = "load" /\ LaunchUnderWay /\ kernelStays
      /\ UNCHANGED <<procVars, termVars, parsed, prog>>
  BY DEF ExecuteLoad, InKernel, LaunchUnderWay, Launching
<1>2. Top \in Frame /\ LaunchPlaced /\ LaunchOfShell /\ LaunchOfCommand
  BY <1>1, TopLemma, JobFacts
<1>3. parsed \notin Broken
  <2>1. initial_shell => parsed = Shell
    BY <1>1, <1>2 DEF LaunchPlaced, LaunchOfShell, Arriving
  <2>2. ~initial_shell => parsed \in Commands
    BY <1>1, <1>2 DEF LaunchPlaced, LaunchOfCommand
  <2> QED
    BY <2>1, <2>2, ProgramAssumption DEF Discipline
<1>4. stack' = Put(stack, esp, f)
  BY <1>3 DEF ExecuteLoad, Advance
<1>5. /\ f \in Frame /\ f.prev = Top.prev /\ f.ret = Top.ret
      /\ f.cmd = Top.cmd /\ f.at = "init" /\ f.pd = process_id
  BY <1>1, <1>2 DEF Frame, Phase, Launching, LaunchPlaced
<1> HIDE DEF f
<1> QED
  BY <1>1, <1>4, <1>5, MiddlePhase

\* What the new process makes of the PCBs.
LEMMA NewPcbs ==
    ASSUME TypeInv, SlotInv, JobInv, ExecuteInit
    PROVE  LET b == process_id
               c == Top.prev
           IN /\ pcb'[b].PD = b /\ pcb'[b].k_sp = StackTop(b)
              /\ pcb'[b].stdout = screen_num
              /\ initial_shell => pcb'[b].parent = b /\ ~pcb'[b].child_flag
              /\ ~initial_shell => /\ pcb'[b].parent = c
                                   /\ pcb'[b].child_flag = pcb[b].child_flag
              /\ \A p \in Pid \ {b} :
                    /\ pcb'[p].PD = pcb[p].PD /\ pcb'[p].k_sp = pcb[p].k_sp
                    /\ pcb'[p].stdout = pcb[p].stdout /\ pcb'[p].parent = pcb[p].parent
                    /\ IF ~initial_shell /\ p = c
                         THEN pcb'[p].child_flag /\ pcb'[p].child = b
                         ELSE /\ pcb'[p].child_flag = pcb[p].child_flag
                              /\ pcb'[p].child = pcb[p].child
<1> DEFINE b == process_id
           c == Top.prev
<1>1. mode = "kernel" /\ Top.at = "init" /\ LaunchUnderWay
  BY DEF ExecuteInit, InKernel, LaunchUnderWay, Launching
<1>2. LaunchPlaced /\ pcb \in [Pid -> Pcb] /\ Live \subseteq Pid /\ NULL \notin Pid
      /\ b \in Pid \ Live
  BY <1>1, JobFacts
<1>3. /\ initial_shell \/ c # NULL
      /\ Top.pd = b /\ (c # NULL => c \in Live)
  BY <1>1, <1>2 DEF LaunchPlaced
<1>4. CASE initial_shell
  <2>1. pcb' = [pcb EXCEPT ![b] = [NewPcb(b) EXCEPT !.parent = b,
                                      !.child_flag = FALSE, !.child = NULL]]
    BY <1>3, <1>4 DEF ExecuteInit
  <2>2. pcb[b] \in Pcb
    BY <1>2
  <2> QED
    BY <1>2, <1>3, <1>4, <2>1, <2>2 DEF NewPcb, Pcb
<1>5. CASE ~initial_shell
  <2>1. c # b
    BY <1>2, <1>3, <1>5
  <2>2. pcb' = [p \in Pid |->
                   LET q == IF p = b THEN [NewPcb(p) EXCEPT !.parent = c]
                                     ELSE pcb[p]
                   IN IF p = c
                        THEN [q EXCEPT !.child_flag = TRUE, !.child = b]
                        ELSE q]
    BY <1>3, <1>5 DEF ExecuteInit
  <2>3. \A p \in Pid : pcb[p] \in Pcb
    BY <1>2
  <2>4. pcb'[b] = [NewPcb(b) EXCEPT !.parent = c]
    BY <1>2, <2>1, <2>2
  <2>5. \A p \in Pid \ {b} : pcb'[p] =
           IF p = c THEN [pcb[p] EXCEPT !.child_flag = TRUE, !.child = b]
                    ELSE pcb[p]
    BY <2>2
  <2>6. /\ pcb'[b].PD = b /\ pcb'[b].k_sp = StackTop(b)
        /\ pcb'[b].stdout = screen_num /\ pcb'[b].parent = c
        /\ pcb'[b].child_flag = pcb[b].child_flag
    BY <1>2, <1>3, <2>3, <2>4 DEF NewPcb, Pcb
  <2> QED
    BY <1>5, <2>3, <2>5, <2>6 DEF Pcb
<1> QED
  BY <1>4, <1>5

\* The new process is born: a terminal's shell, or a command that becomes its
\* caller's child.
LEMMA InitJob ==
    ASSUME TypeInv, SlotInv, JobInv, Discipline, ExecuteInit
    PROVE  JobInv'
<1> DEFINE c == Top.prev
           b == process_id
           f == [Top EXCEPT !.at = "jump"]
<1>1. /\ mode = "kernel" /\ Top.at = "init" /\ LaunchUnderWay /\ ~InKernel("jump")
  BY DEF ExecuteInit, InKernel, LaunchUnderWay, Launching
<1>2. /\ JobTree /\ TerminalOrder /\ OthersWait /\ LaunchPlaced
      /\ LaunchOfShell /\ LaunchOfCommand
      /\ pcb \in [Pid -> Pcb] /\ Live \subseteq Pid
      /\ Term \subseteq Pid /\ NULL \notin Pid
      /\ screen_num \in Term /\ Top \in Frame
      /\ b \in Pid \ Live /\ cr3 = b
  BY <1>1, JobFacts, TopLemma
<1>3. initial_shell \/ c # NULL
  BY <1>1, <1>2 DEF LaunchPlaced
<1>4. /\ curr_process' = b /\ ~initial_shell' /\ stack' = Put(stack, esp, f)
      /\ kernelStays
      /\ UNCHANGED <<open_processes, process_id, memVars, parsed, prog, termVars>>
  BY <1>3 DEF ExecuteInit, Advance
<1>5. /\ f \in Frame /\ f.prev = Top.prev /\ f.ret = Top.ret
      /\ f.cmd = Top.cmd /\ f.at = "jump"
  BY <1>2 DEF Frame, Phase, Launching
<1> HIDE DEF f
<1>6. Top.pd = b /\ parsed = Top.cmd /\ (c # NULL => c \in Live)
      /\ (c = NULL => Live = {})
  BY <1>1, <1>2 DEF LaunchPlaced
<1>7. Arriving = initial_shell /\ Born = Live
  BY <1>1 DEF Arriving, Born, TypeInv, TypeOK
<1>8. /\ pcb'[b].PD = b /\ pcb'[b].k_sp = StackTop(b)
      /\ pcb'[b].stdout = screen_num
      /\ initial_shell => pcb'[b].parent = b /\ ~pcb'[b].child_flag
      /\ ~initial_shell => /\ pcb'[b].parent = c
                           /\ pcb'[b].child_flag = pcb[b].child_flag
      /\ \A p \in Pid \ {b} :
            /\ pcb'[p].PD = pcb[p].PD /\ pcb'[p].k_sp = pcb[p].k_sp
            /\ pcb'[p].stdout = pcb[p].stdout /\ pcb'[p].parent = pcb[p].parent
            /\ IF ~initial_shell /\ p = c
                 THEN pcb'[p].child_flag /\ pcb'[p].child = b
                 ELSE /\ pcb'[p].child_flag = pcb[p].child_flag
                      /\ pcb'[p].child = pcb[p].child
  BY NewPcbs
<1>9. /\ Top' = f /\ mode' = "kernel" /\ Live' = Live
      /\ c # NULL => /\ c \in Live /\ esp.own = c
                     /\ Executes(stack'[c], c, esp.dep)
      /\ c = NULL => Live = {}
      /\ \A p \in Live \ {c} : Waits(p)'
  <2>1. \A p \in Live \ {c} : pcb'[p].k_sp = pcb[p].k_sp
    BY <1>2, <1>8
  <2> QED
    BY <1>1, <1>4, <1>5, <2>1, PhasePlaced
<1>10. /\ LaunchUnderWay' /\ Born' = Live \cup {b} /\ InKernel("jump")' /\ ~Arriving'
  BY <1>4, <1>5, <1>9 DEF LaunchUnderWay, Arriving, Born, InKernel, Launching
<1>11. initial_shell => b = screen_num /\ Top.cmd = Shell
  BY <1>1, <1>2, <1>7 DEF LaunchOfShell
<1>12. ~initial_shell => /\ b \notin Term /\ fresh = {} /\ c = screen_num
                         /\ Top.cmd \in Commands /\ ~pcb[c].child_flag
  BY <1>1, <1>2 DEF LaunchOfCommand
<1>13. ~pcb'[b].child_flag
  BY <1>2, <1>8, <1>12 DEF JobTree
<1>14. JobTree'
  <2>1. \A p \in Live : prog[p] = Shell <=> p \in Term
    BY <1>2 DEF JobTree
  <2>2. \A p \in Pid \ Term : ~pcb'[p].child_flag
    BY <1>2, <1>8, <1>12, <1>13 DEF JobTree
  <2>3. ASSUME NEW p \in Live \cup {b}
        PROVE  /\ pcb'[p].PD = p
               /\ p \in Term => pcb'[p].parent = p /\ pcb'[p].stdout = p
               /\ pcb'[p].child_flag =>
                    /\ pcb'[p].child \in (Live \cup {b}) \ Term
                    /\ pcb'[pcb'[p].child].parent = p
    <3>1. CASE p = b
      BY <1>8, <1>11, <1>12, <1>13, <3>1
    <3>2. CASE p # b /\ ~initial_shell /\ p = c
      BY <1>2, <1>7, <1>8, <1>12, <3>2 DEF JobTree
    <3>3. CASE p # b /\ (initial_shell \/ p # c)
      <4>1. /\ pcb[p].PD = p
            /\ p \in Term => pcb[p].parent = p /\ pcb[p].stdout = p
            /\ pcb[p].child_flag =>
                 pcb[p].child \in Live \ Term /\ pcb[pcb[p].child].parent = p
        BY <1>2, <1>7, <3>3 DEF JobTree
      <4> QED
        BY <1>2, <1>8, <3>3, <4>1
    <3> QED
      BY <3>1, <3>2, <3>3
  <2>4. ASSUME NEW p \in (Live \cup {b}) \ Term
        PROVE  LET q == pcb'[p].parent IN
               /\ fresh = {} /\ q \in Live \cap Term /\ pcb'[p].stdout = q
               /\ pcb'[q].child_flag /\ pcb'[q].child = p
    <3>1. CASE p = b
      BY <1>2, <1>3, <1>6, <1>8, <1>11, <1>12, <3>1
    <3>2. CASE p # b
      <4> DEFINE q == pcb[p].parent
      <4>1. /\ fresh = {} /\ q \in Live \cap Term /\ pcb[p].stdout = q
            /\ pcb[q].child_flag /\ pcb[q].child = p
        BY <1>2, <1>7, <3>2 DEF JobTree
      <4>2. q # b /\ (~initial_shell => q # c)
        BY <1>2, <1>12, <4>1
      <4> QED
        BY <1>2, <1>8, <3>2, <4>1, <4>2
    <3> QED
      BY <3>1, <3>2
  <2> QED
    BY <1>4, <1>9, <1>10, <2>1, <2>2, <2>3, <2>4 DEF JobTree, termVars
<1>15. TerminalOrder'
  <2>1. \A t \in Term \ fresh : t \in Live \cup {b}
    BY <1>2, <1>7, <1>11 DEF TerminalOrder
  <2> QED
    BY <1>2, <1>4, <1>10, <2>1 DEF TerminalOrder, termVars
<1>16. OthersWait'
  BY <1>5, <1>9, <1>10 DEF OthersWait, Caller
<1>17. Settled' /\ LaunchOfShell' /\ LaunchOfCommand'
  BY <1>5, <1>9, <1>10 DEF Settled, LaunchOfShell, LaunchOfCommand
<1>18. LaunchPlaced'
  BY <1>4, <1>5, <1>6, <1>9, <1>10 DEF LaunchPlaced, kernelStays
<1>19. LaunchDone'
  <2>1. Top.cmd \in Program /\ ((Top.cmd = Shell) <=> (b \in Term))
    BY <1>2, <1>11, <1>12, ProgramAssumption DEF Discipline, Program
  <2> QED
    BY <1>2, <1>4, <1>5, <1>8, <1>9, <1>13, <2>1 DEF LaunchDone, memVars, termVars
<1> QED
  BY <1>9, <1>14, <1>15, <1>16, <1>17, <1>18, <1>19 DEF JobInv

LEMMA JumpJob ==
    ASSUME TypeInv, SlotInv, JobInv, ExecuteJump
    PROVE  JobInv'
<1> DEFINE c == Top.prev
           b == curr_process
           f == [Top EXCEPT !.at = "child"]
<1>1. /\ mode = "kernel" /\ Top.at = "jump" /\ LaunchUnderWay /\ InKernel("jump")
      /\ tss_esp0' = pcb[b].k_sp
      /\ pcb' = IF c = NULL THEN pcb ELSE Saved(c, esp)
      /\ stack' = Put(stack, esp, f)
      /\ mode' = "user" /\ run' = b
      /\ prog' = [prog EXCEPT ![b] = Top.cmd]
      /\ UNCHANGED <<open_processes, curr_process, initial_shell, cr3,
                     screen_num, fresh>>
  BY DEF ExecuteJump, InKernel, LaunchUnderWay, Launching, Advance, memVars, termVars
<1>2. /\ JobTree /\ TerminalOrder /\ OthersWait /\ LaunchPlaced /\ LaunchDone
      /\ pcb \in [Pid -> Pcb] /\ Live \subseteq Pid
      /\ Term \subseteq Pid /\ NULL \notin Pid /\ stack \in Stacks
      /\ screen_num \in Term /\ Top \in Frame /\ prog \in [Pid -> Program \cup {NULL}]
      /\ esp \in Location /\ esp.own \in Pid /\ esp.dep \in 1 .. StackDepth
      /\ esp.dep > 0
  BY <1>1, JobFacts, TopLemma DEF TypeInv, TypeOK
<1>3. /\ b \in Pid \ Live /\ cr3 = b /\ ~pcb[b].child_flag /\ ~initial_shell
      /\ pcb[b].k_sp = StackTop(b) /\ pcb[b].stdout = screen_num
      /\ Top.cmd \in Program /\ (Top.cmd = Shell <=> b \in Term)
  BY <1>1, <1>2, JobFacts DEF LaunchDone, TypeInv, TypeOK
<1>4. /\ f \in Frame /\ f.prev = Top.prev /\ f.ret = Top.ret /\ f.at = "child"
  BY <1>2 DEF Frame, Phase, Launching
<1> HIDE DEF f
<1>5. /\ Live' = Live \cup {b} /\ Born = Live \cup {b} /\ Born' = Live'
      /\ ~LaunchUnderWay' /\ ~Arriving'
  <2>1. Live' = Live \cup {b}
    BY <1>1, <1>2, <1>3, NullAssumption DEF Live
  <2> QED
    BY <1>1, <2>1 DEF Born, LaunchUnderWay, Arriving, InKernel
<1>6. c # NULL => /\ c \in Live /\ esp.own = c
                  /\ Executes(stack[c], c, esp.dep)
  BY <1>1, <1>2 DEF LaunchPlaced
<1>7. c = NULL => Live = {}
  BY <1>1, <1>2 DEF LaunchPlaced
\* Only the caller's stack pointer is written.
<1>8. /\ \A p \in Pid : /\ pcb'[p].PD = pcb[p].PD /\ pcb'[p].parent = pcb[p].parent
                        /\ pcb'[p].stdout = pcb[p].stdout
                        /\ pcb'[p].child = pcb[p].child
                        /\ pcb'[p].child_flag = pcb[p].child_flag
      /\ \A p \in Pid \ {c} : pcb'[p].k_sp = pcb[p].k_sp
      /\ c # NULL => pcb'[c].k_sp = esp
  <2>1. \A p \in Pid : pcb[p] \in Pcb
    BY <1>2
  <2> QED
    BY <1>1, <1>2, <1>6, <2>1 DEF Saved, Pcb
<1>9. JobTree'
  <2>1. \A p \in Live' : prog'[p] = Shell <=> p \in Term
    BY <1>1, <1>2, <1>3, <1>5 DEF JobTree
  <2>2. \A p \in Pid \ Term : ~pcb'[p].child_flag
    BY <1>2, <1>8 DEF JobTree
  <2>3. ASSUME NEW p \in Born'
        PROVE  /\ pcb'[p].PD = p
               /\ p \in Term => pcb'[p].parent = p /\ pcb'[p].stdout = p
               /\ pcb'[p].child_flag =>
                    /\ pcb'[p].child \in Born' \ Term
                    /\ pcb'[pcb'[p].child].parent = p
    BY <1>2, <1>3, <1>5, <1>8 DEF JobTree
  <2>4. ASSUME NEW p \in Born' \ Term
        PROVE  LET q == pcb'[p].parent IN
               /\ fresh' = {} /\ q \in Live' \cap Term /\ pcb'[p].stdout = q
               /\ pcb'[q].child_flag /\ pcb'[q].child = p
    BY <1>1, <1>2, <1>3, <1>5, <1>8 DEF JobTree
  <2> QED
    BY <2>1, <2>2, <2>3, <2>4 DEF JobTree
<1>10. TerminalOrder'
  BY <1>1, <1>2, <1>5 DEF TerminalOrder, Arriving
<1>11. OthersWait'
  <2> SUFFICES ASSUME NEW p \in Live PROVE Waits(p)'
    BY <1>1, <1>5 DEF OthersWait, Caller
  <2>1. CASE p # c
    <3>1. Waits(p) /\ p # esp.own /\ p \in Pid
      BY <1>1, <1>2, <1>6, <1>7, <2>1 DEF OthersWait, Caller
    <3>2. stack'[p] = stack[p] /\ pcb'[p].k_sp = pcb[p].k_sp
      BY <1>1, <1>2, <1>8, <2>1, <3>1 DEF Put, Stacks
    <3> QED
      BY <3>1, <3>2, WaitsOn
  <2>2. CASE p = c
    <3>1. c # NULL /\ c = esp.own /\ pcb'[c].k_sp = esp
      BY <1>2, <1>6, <1>8, <2>2
    <3>2. stack'[c][esp.dep] = f
      BY <1>1, <1>2, <1>4, <3>1, PutLemma
    <3>3. \A i \in 1 .. esp.dep - 1 : stack'[c][i] = stack[c][i]
      <4>1. \A i \in 1 .. esp.dep - 1 : i \in 1 .. StackDepth /\ i # esp.dep
        BY <1>2, SizeAssumption
      <4> QED
        BY <1>1, <1>2, <1>4, <3>1, <4>1, PutLemma
    <3>4. Executes(stack'[c], c, esp.dep)
      <4>1. Top = stack[c][esp.dep]
        BY <3>1 DEF Top
      <4> QED
        BY <1>2, <1>4, <1>6, <3>1, <3>2, <3>3, <4>1, BelowLemma
    <3>5. esp # Nowhere
      BY <1>2 DEF Nowhere
    <3> QED
      BY <1>2, <1>4, <2>2, <3>1, <3>2, <3>4, <3>5 DEF Waits, Resumable, GoesBack
  <2> QED
    BY <2>1, <2>2
<1>12. Settled'
  BY <1>1, <1>2, <1>3, <1>5, <1>8 DEF Settled, StackTop
<1>13. LaunchPlaced' /\ LaunchOfShell' /\ LaunchOfCommand' /\ LaunchDone'
  BY <1>1, <1>5 DEF LaunchPlaced, LaunchOfShell, LaunchOfCommand, LaunchDone, InKernel
<1> QED
  BY <1>1, <1>9, <1>10, <1>11, <1>12, <1>13 DEF JobInv

\* What a settled state is, for a process to go on in.
LEMMA SettledFacts ==
    ASSUME TypeInv, SlotInv, JobInv, mode # "overflow", ~LaunchUnderWay
    PROVE  /\ JobTree /\ TerminalOrder /\ OthersWait
           /\ Caller = curr_process /\ Born = Live /\ ~Arriving
           /\ curr_process \in Live /\ curr_process \in Pid /\ cr3 = curr_process
           /\ tss_esp0.own = curr_process /\ ~initial_shell
           /\ pcb[curr_process].stdout = screen_num
           /\ ~pcb[curr_process].child_flag
           /\ mode = "user" => run = curr_process
           /\ mode = "kernel" =>
                 /\ esp.own = curr_process
                 /\ Top.at \in {"return", "done", "opening", "spin"}
                 /\ GoesBack(stack[curr_process], curr_process, esp.dep)
<1>1. JobTree /\ TerminalOrder /\ OthersWait /\ Settled /\ Live \subseteq Pid
  BY JobFacts
<1>2. ~InKernel("jump")
  BY DEF InKernel, LaunchUnderWay, Launching
<1> QED
  BY <1>1, <1>2 DEF Settled, Caller, Born, Arriving

\* Settled again after a step of the current process that touches its own
\* stack only, and starts, ends and switches nothing.
LEMMA StillSettled ==
    ASSUME TypeInv, SlotInv, JobInv, mode # "overflow", ~LaunchUnderWay,
           UNCHANGED <<procVars, cr3, tss_esp0, termVars, prog>>,
           ~LaunchUnderWay', mode' \in {"user", "kernel"},
           \A p \in Pid \ {curr_process} : stack'[p] = stack[p],
           mode' = "user" => run' = curr_process,
           mode' = "kernel" =>
                 /\ esp'.own = curr_process
                 /\ Top'.at \in {"return", "done", "opening", "spin"}
                 /\ GoesBack(stack'[curr_process], curr_process, esp'.dep)
    PROVE  JobInv'
<1>1. /\ JobTree /\ TerminalOrder /\ OthersWait
      /\ Caller = curr_process /\ Born = Live /\ ~Arriving
      /\ curr_process \in Live /\ cr3 = curr_process
      /\ tss_esp0.own = curr_process /\ ~initial_shell
      /\ pcb[curr_process].stdout = screen_num
      /\ ~pcb[curr_process].child_flag /\ Live \subseteq Pid
  BY SettledFacts, JobFacts
<1>2. UNCHANGED <<open_processes, process_id, curr_process, initial_shell, pcb,
                  screen_num, fresh>> /\ Live' = Live
  BY DEF procVars, termVars, Live
<1>3. ~InKernel("jump")' /\ Born' = Live /\ ~Arriving' /\ Caller' = curr_process
  BY <1>2 DEF InKernel, LaunchUnderWay, Launching, Born, Arriving, Caller
<1>4. JobTree' /\ TerminalOrder'
  BY <1>1, <1>2, <1>3 DEF JobTree, TerminalOrder
<1>5. OthersWait'
  <2> SUFFICES ASSUME NEW p \in Live \ {curr_process} PROVE Waits(p)'
    BY <1>2, <1>3 DEF OthersWait
  <2> QED
    BY <1>1, <1>2, WaitsOn DEF OthersWait
<1>6. Settled'
  BY <1>1, <1>2 DEF Settled
<1>7. LaunchPlaced' /\ LaunchOfShell' /\ LaunchOfCommand' /\ LaunchDone'
  BY <1>3 DEF LaunchPlaced, LaunchOfShell, LaunchOfCommand, LaunchDone, Arriving
<1> QED
  BY <1>4, <1>5, <1>6, <1>7 DEF JobInv

LEMMA LeaveJob ==
    ASSUME TypeInv, SlotInv, JobInv, mode = "kernel", Leave,
           Top.at \in {"return", "done"}
    PROVE  JobInv'
<1> DEFINE c == curr_process
           k == stack[c]
           d == esp.dep
<1>1. ~LaunchUnderWay
  BY DEF LaunchUnderWay, Launching
<1>2. /\ stack' = Put(stack, esp, Junk)
      /\ IF Top.ret # NULL
           THEN mode' = "user" /\ run' = Top.ret /\ UNCHANGED esp
           ELSE /\ esp' = Deeper(esp, -1)
                /\ mode' = IF Interrupted(Deeper(esp, -1)) THEN "kernel" ELSE "lost"
      /\ UNCHANGED <<procVars, cr3, termVars, prog, tss_esp0>>
  BY DEF Leave, memVars
<1>3. /\ c \in Pid /\ esp.own = c /\ GoesBack(k, c, d) /\ Top = k[d]
      /\ stack \in Stacks /\ NULL \notin Pid
      /\ esp \in Location /\ d \in 1 .. StackDepth /\ d > 0
  BY <1>1, SettledFacts, JobFacts, TopLemma DEF Top
<1>4. \A p \in Pid \ {c} : stack'[p] = stack[p]
  BY <1>2, <1>3 DEF Put, Stacks
<1>5. \A i \in 1 .. d - 1 : stack'[c][i] = k[i]
  <2>1. \A i \in 1 .. d - 1 : i \in 1 .. StackDepth /\ i # d
    BY <1>3, SizeAssumption
  <2> QED
    BY <1>2, <1>3, <2>1, PutLemma, FrameLemma
<1>6. CASE Top.ret # NULL
  <2>1. Top.ret = c
    BY <1>3, <1>6 DEF GoesBack, Opens, Spins, Interrupts, Executes
  <2> QED
    BY <1>1, <1>2, <1>4, <1>6, <2>1, StillSettled DEF LaunchUnderWay
<1>7. CASE Top.ret = NULL
  <2>1. d > 1 /\ (Spins(k, c, d - 1) \/ Opens(k, c, d - 1))
    BY <1>3, <1>7 DEF GoesBack, Opens, Spins, Interrupts, Executes
  <2>2. esp' = Deeper(esp, -1) /\ esp'.own = c /\ esp'.dep = d - 1
    BY <1>2, <1>3, <1>7 DEF Deeper, Location
  <2>3. k[d - 1].at \in {"spin", "opening"}
    BY <2>1 DEF Spins, Opens
  <2>4. mode' = "kernel"
    BY <1>2, <1>3, <1>7, <2>1, <2>2, <2>3, SizeAssumption DEF Interrupted
  <2>5. d - 1 \in Nat \ {0} /\ d - 1 \in 1 .. d - 1
    BY <1>3, <2>1
  <2>6. GoesBack(k, c, d - 1)
    BY <2>1 DEF GoesBack
  <2>7. GoesBack(stack'[c], c, d - 1)
    BY <1>5, <2>5, <2>6, GoesBackLemma
  <2>8. Top'.at \in {"spin", "opening"}
    BY <1>5, <2>2, <2>3, <2>5 DEF Top
  <2>9. ~LaunchUnderWay'
    BY <2>8 DEF LaunchUnderWay, Launching
  <2> QED
    BY <1>1, <1>2, <1>4, <2>2, <2>4, <2>7, <2>8, <2>9, StillSettled
<1> QED
  BY <1>6, <1>7

\* execute never comes back to a handler whose terminal is not shown.
LEMMA ContinueJob ==
    ASSUME TypeInv, SlotInv, JobInv, OpenContinue
    PROVE  JobInv'
<1> DEFINE c == curr_process
           k == stack[c]
           d == esp.dep
           f == [Top EXCEPT !.at = "done"]
<1>1. mode = "kernel" /\ Top.at = "opening" /\ ~LaunchUnderWay
  BY DEF OpenContinue, InKernel, LaunchUnderWay, Launching
<1>2. /\ c \in Pid /\ c \in Live /\ esp.own = c /\ GoesBack(k, c, d) /\ Top = k[d]
      /\ stack \in Stacks /\ Top \in Frame /\ JobTree /\ Born = Live
      /\ pcb[c].stdout = screen_num
      /\ esp \in Location /\ d \in 1 .. StackDepth /\ d > 0
  BY <1>1, SettledFacts, JobFacts, TopLemma DEF Top
<1>3. Opens(k, c, d)
  BY <1>1, <1>2 DEF GoesBack, Spins
<1>4. screen_num = Top.prev
  BY <1>2, <1>3 DEF Opens, JobTree
<1>5. /\ stack' = Put(stack, esp, f) /\ kernelStays
      /\ UNCHANGED <<procVars, memVars, termVars, prog>>
  BY <1>4 DEF OpenContinue, Advance
<1>6. f \in Frame /\ f.ret = Top.ret /\ f.prev = Top.prev /\ f.at = "done"
  BY <1>2 DEF Frame, Phase
<1> HIDE DEF f
<1>7. \A p \in Pid \ {c} : stack'[p] = stack[p]
  BY <1>2, <1>5 DEF Put, Stacks
<1>8. /\ stack'[c][d] = f
      /\ \A i \in 1 .. d - 1 : stack'[c][i] = k[i]
  <2>1. \A i \in 1 .. d - 1 : i \in 1 .. StackDepth /\ i # d
    BY <1>2, SizeAssumption
  <2> QED
    BY <1>2, <1>5, <1>6, <2>1, PutLemma
<1>9. GoesBack(stack'[c], c, d)
  <2>1. Interrupts(stack'[c], c, d)
    BY <1>2, <1>3, <1>6, <1>8, BelowLemma DEF Opens
  <2> QED
    BY <1>6, <1>8, <2>1 DEF GoesBack
<1>10. esp' = esp /\ mode' = "kernel" /\ Top' = f /\ tss_esp0' = tss_esp0
  BY <1>1, <1>2, <1>5, <1>8 DEF kernelStays, Top
<1>11. ~LaunchUnderWay'
  BY <1>6, <1>10 DEF LaunchUnderWay, Launching
<1> QED
  BY <1>1, <1>2, <1>5, <1>6, <1>7, <1>9, <1>10, <1>11, StillSettled DEF memVars

\* The calls that begin with user code or an interrupt: where the next frame
\* goes is on the stack of the current process.
LEMMA EntryFacts ==
    ASSUME TypeInv, SlotInv, JobInv, mode = "user" \/ InKernel("spin"), Fits(1),
           NEW f \in Frame
    PROVE  LET c == curr_process
               loc == Deeper(Base, 1)
               st == Put(stack, loc, f)
           IN /\ ~LaunchUnderWay /\ mode # "overflow"
              /\ c \in Pid /\ loc \in Location /\ loc.own = c /\ loc.dep > 0
              /\ loc.dep \in Nat \ {0} /\ loc.dep = Base.dep + 1
              /\ loc.dep \in 1 .. StackDepth
              /\ st \in Stacks /\ st[c][loc.dep] = f
              /\ \A p \in Pid \ {c} : st[p] = stack[p]
              /\ f.ret = ReturnTo => Interrupts(st[c], c, loc.dep)
              /\ mode = "user" => ReturnTo = c
<1> DEFINE c == curr_process
           loc == Deeper(Base, 1)
           st == Put(stack, loc, f)
<1>1. ~LaunchUnderWay /\ mode # "overflow"
  BY DEF LaunchUnderWay, InKernel, Launching
<1>2. /\ c \in Pid /\ tss_esp0.own = c /\ NULL \notin Pid /\ stack \in Stacks
      /\ mode = "user" => run = c
      /\ mode = "kernel" => esp.own = c /\ GoesBack(stack[c], c, esp.dep)
  BY <1>1, SettledFacts, JobFacts
<1>3. Base \in Location /\ Base.own = c
  BY <1>2, BaseLemma DEF Base, InKernel
<1>4. /\ loc \in Location /\ loc.own = c /\ loc.dep = Base.dep + 1 /\ loc.dep > 0
      /\ loc.dep \in 1 .. StackDepth /\ loc.dep \in Nat \ {0}
  BY <1>3, SizeAssumption DEF Deeper, Location, Fits
<1> HIDE DEF loc
<1>5. st \in Stacks /\ st[c][loc.dep] = f
  BY <1>2, <1>4, PutLemma
<1>6. \A p \in Pid \ {c} : st[p] = stack[p]
  BY <1>2, <1>4 DEF Put, Stacks
<1>7. ASSUME f.ret = ReturnTo PROVE Interrupts(st[c], c, loc.dep)
  <2>1. CASE mode = "user"
    BY <1>2, <1>5, <1>7, <2>1 DEF Interrupts, ReturnTo
  <2>2. CASE InKernel("spin")
    <3>1. Base = esp /\ mode = "kernel" /\ ReturnTo = NULL
      BY <2>2 DEF Base, InKernel, ReturnTo
    <3>2. esp.dep \in 1 .. StackDepth /\ esp.own = c /\ stack[c][esp.dep].at = "spin"
      BY <1>2, <2>2, <3>1, TopLemma DEF InKernel, Top
    <3>3. Spins(stack[c], c, esp.dep)
      BY <1>2, <3>1, <3>2 DEF GoesBack, Opens
    <3>4. st[c][esp.dep] = stack[c][esp.dep] /\ loc.dep - 1 = esp.dep /\ loc.dep > 1
      BY <1>2, <1>4, <3>1, <3>2, PutLemma, SizeAssumption
    <3> QED
      BY <1>2, <1>5, <1>7, <3>1, <3>3, <3>4 DEF Interrupts, Spins
  <2> QED
    BY <2>1, <2>2
<1>8. mode = "user" => ReturnTo = c
  BY <1>2 DEF ReturnTo
<1> QED
  BY <1>1, <1>2, <1>4, <1>5, <1>6, <1>7, <1>8 DEF loc

LEMMA CallJob ==
    ASSUME TypeInv, SlotInv, JobInv, Discipline,
           NEW cmd \in Commands, ExecuteCall(cmd)
    PROVE  JobInv'
<1> DEFINE c == curr_process
           loc == Deeper(Base, 1)
           f == ExecuteFrame(cmd, c, run)
<1>1. CASE ~Fits(1)
  BY <1>1, OverflowJob DEF ExecuteCall
<1>2. CASE Fits(1)
  <2>1. /\ mode = "user" /\ prog[run] = Shell /\ fresh = {}
        /\ esp' = loc /\ mode' = "kernel"
        /\ stack' = Put(stack, loc, f)
        /\ UNCHANGED <<procVars, cr3, tss_esp0, parsed, prog, termVars>>
    BY <1>2 DEF ExecuteCall, Discipline, memVars
  <2>2. /\ ~LaunchUnderWay /\ mode # "overflow"
    BY <2>1 DEF LaunchUnderWay
  <2>3. /\ JobTree /\ TerminalOrder /\ OthersWait
        /\ Caller = c /\ Born = Live /\ ~Arriving
        /\ c \in Live /\ c \in Pid /\ cr3 = c /\ tss_esp0.own = c /\ run = c
        /\ ~initial_shell /\ pcb[c].stdout = screen_num /\ ~pcb[c].child_flag
        /\ NULL \notin Pid
    BY <2>1, <2>2, SettledFacts, JobFacts
  <2>4. /\ f \in Frame /\ f.at = "alloc" /\ f.prev = c /\ f.ret = c /\ f.cmd = cmd
    BY <2>3, FrameLemma DEF ExecuteFrame, Program
  <2> HIDE DEF f
  <2>5. /\ loc \in Location /\ loc.own = c /\ stack'[c][loc.dep] = f
        /\ \A p \in Pid \ {c} : stack'[p] = stack[p]
    BY <1>2, <2>1, <2>4, EntryFacts
  <2> HIDE DEF loc
  <2>6. Top' = f /\ Live' = Live
    BY <2>1, <2>5 DEF Top, Live
  <2>7. /\ LaunchUnderWay' /\ ~InKernel("jump")' /\ Born' = Live /\ ~Arriving'
        /\ Caller' = c
    BY <2>1, <2>3, <2>4, <2>6
       DEF LaunchUnderWay, InKernel, Born, Arriving, Caller, Launching, procVars
  <2>8. UNCHANGED <<open_processes, process_id, curr_process, initial_shell, pcb,
                    screen_num, fresh>>
    BY <2>1 DEF procVars, termVars
  <2>9. JobTree' /\ TerminalOrder'
    BY <2>1, <2>3, <2>6, <2>7, <2>8 DEF JobTree, TerminalOrder
  <2>10. OthersWait'
    <3> SUFFICES ASSUME NEW p \in Live \ {c} PROVE Waits(p)'
      BY <2>6, <2>7 DEF OthersWait
    <3>1. p \in Pid
      BY DEF Live
    <3> QED
      BY <2>3, <2>5, <2>8, <3>1, WaitsOn DEF OthersWait
  <2>11. Settled' /\ LaunchOfShell' /\ LaunchDone'
    BY <2>7 DEF Settled, LaunchOfShell, LaunchDone
  <2>12. LaunchPlaced'
    BY <2>1, <2>3, <2>4, <2>5, <2>6, <2>7 DEF LaunchPlaced, Executes
  <2>13. LaunchOfCommand'
    <3>1. c \in Term /\ c = screen_num
      BY <2>1, <2>3 DEF JobTree
    <3> QED
      BY <2>1, <2>3, <2>4, <2>6, <2>7, <2>8, <3>1 DEF LaunchOfCommand
  <2> QED
    BY <2>1, <2>9, <2>10, <2>11, <2>12, <2>13 DEF JobInv
<1> QED
  BY <1>1, <1>2

\* Opening a terminal: the handler's frame, and above it that of execute.
LEMMA OpenJob ==
    ASSUME TypeInv, SlotInv, JobInv, Discipline,
           NEW t \in Term, OpenTerminal(t)
    PROVE  JobInv'
<1> DEFINE c == curr_process
           loc == Deeper(Base, 1)
           top == Deeper(loc, 1)
           g == KeyFrame("opening", screen_num, ReturnTo)
           f == ExecuteFrame(Shell, c, NULL)
           st == Put(stack, loc, g)
<1>1. CASE ~Fits(2)
  BY <1>1, OverflowJob DEF OpenTerminal
<1>2. CASE Fits(2)
  <2>1. /\ mode = "user" \/ InKernel("spin")
        /\ t \in fresh /\ \A s \in fresh : t <= s
        /\ screen_num' = t /\ fresh' = fresh \ {t}
        /\ initial_shell' = TRUE /\ esp' = top /\ mode' = "kernel"
        /\ stack' = Put(st, top, f)
        /\ UNCHANGED <<open_processes, process_id, curr_process, pcb, cr3,
                       tss_esp0, parsed, prog>>
    BY <1>2 DEF OpenTerminal, KeyAllowed, Discipline, memVars
  <2>2. ~LaunchUnderWay /\ mode # "overflow"
    BY <2>1 DEF LaunchUnderWay, InKernel, Launching
  <2>3. /\ JobTree /\ TerminalOrder /\ OthersWait
        /\ Caller = c /\ Born = Live /\ ~Arriving
        /\ c \in Live /\ c \in Pid /\ cr3 = c /\ tss_esp0.own = c
        /\ pcb[c].stdout = screen_num /\ ~pcb[c].child_flag
        /\ NULL \notin Pid /\ screen_num \in Term
    BY <2>1, <2>2, SettledFacts, JobFacts
  <2>4. c \in Term /\ c = screen_num
    BY <2>1, <2>3 DEF JobTree
  <2>5. /\ g \in Frame /\ g.at = "opening" /\ g.prev = screen_num /\ g.ret = ReturnTo
        /\ f \in Frame /\ f.at = "alloc" /\ f.prev = c /\ f.ret = NULL
        /\ f.cmd = Shell
    BY <2>3, FrameLemma, BaseLemma, ProgramAssumption
       DEF ExecuteFrame, KeyFrame, Program, Phase
  <2> HIDE DEF f, g
  <2>6. Fits(1) /\ Base \in Location
    BY <1>2, BaseLemma, SizeAssumption DEF Fits, Location
  <2>7. /\ loc \in Location /\ loc.own = c /\ loc.dep > 0 /\ loc.dep = Base.dep + 1
        /\ loc.dep \in Nat \ {0} /\ loc.dep \in 1 .. StackDepth
        /\ st \in Stacks /\ st[c][loc.dep] = g
        /\ \A p \in Pid \ {c} : st[p] = stack[p]
        /\ Interrupts(st[c], c, loc.dep)
    BY <2>1, <2>5, <2>6, EntryFacts
  <2> HIDE DEF st, loc
  <2>8. /\ top \in Location /\ top.own = c /\ top.dep = loc.dep + 1 /\ top.dep > 1
        /\ top.dep \in 1 .. StackDepth
    <3>1. loc.dep + 1 <= StackDepth
      BY <1>2, <2>6, <2>7, SizeAssumption DEF Fits, Location
    <3>2. top \in Location /\ top.own = c /\ top.dep = loc.dep + 1
      BY <2>7, <3>1, DeeperLemma
    <3> QED
      BY <2>7, <3>1, <3>2
  <2> HIDE DEF top
  <2>9. /\ stack'[c][top.dep] = f
        /\ \A i \in 1 .. top.dep - 1 : stack'[c][i] = st[c][i]
        /\ \A p \in Pid \ {c} : stack'[p] = stack[p]
    <3>1. \A i \in 1 .. top.dep - 1 : i \in 1 .. StackDepth /\ i # top.dep
      BY <2>8, SizeAssumption
    <3>2. \A p \in Pid \ {c} : Put(st, top, f)[p] = st[p]
      BY <2>7, <2>8 DEF Put, Stacks
    <3> QED
      BY <2>1, <2>3, <2>5, <2>7, <2>8, <3>1, <3>2, PutLemma
  <2>10. Executes(stack'[c], c, top.dep)
    <3>1. top.dep - 1 = loc.dep /\ loc.dep \in 1 .. top.dep - 1
          /\ \A i \in 1 .. loc.dep : i \in 1 .. top.dep - 1
      BY <2>7, <2>8
    <3>2. Opens(st[c], c, loc.dep)
      BY <2>3, <2>4, <2>5, <2>7 DEF Opens
    <3>3. /\ \A i \in 1 .. loc.dep - 1 : stack'[c][i] = st[c][i]
          /\ stack'[c][loc.dep] = st[c][loc.dep]
      BY <2>7, <2>9, <3>1
    <3>4. Interrupts(stack'[c], c, loc.dep)
      BY <2>7, <3>3, BelowLemma
    <3>5. Opens(stack'[c], c, loc.dep)
      BY <3>2, <3>3, <3>4 DEF Opens
    <3> QED
      BY <2>5, <2>8, <2>9, <3>1, <3>5 DEF Executes
  <2>11. Top' = f /\ Live' = Live
    BY <2>1, <2>8, <2>9 DEF Top, Live
  <2>12. /\ LaunchUnderWay' /\ ~InKernel("jump")' /\ Born' = Live /\ Arriving'
         /\ Caller' = c
    BY <2>1, <2>3, <2>5, <2>11
       DEF LaunchUnderWay, InKernel, Born, Arriving, Caller, Launching
  <2>13. JobTree'
    <3>1. Born \ Term = {}
      BY <2>1, <2>3 DEF JobTree
    <3> QED
      BY <2>1, <2>3, <2>11, <2>12, <3>1 DEF JobTree
  <2>14. TerminalOrder'
    <3>1. \A s \in fresh \ {t}, u \in Term : s <= u => u \in fresh \ {t}
      <4> SUFFICES ASSUME NEW s \in fresh \ {t}, NEW u \in Term, s <= u
                   PROVE  u \in fresh \ {t}
        OBVIOUS
      <4>1. u \in fresh /\ t <= s /\ s # t /\ s \in Term
        BY <2>1, <2>3 DEF TerminalOrder, TypeInv, TypeOK
      <4>2. s \in Int /\ t \in Int /\ u \in Int
        BY <4>1, SizeAssumption DEF Term
      <4> QED
        BY <4>1, <4>2
    <3> QED
      BY <2>1, <2>3, <2>12, <3>1 DEF TerminalOrder
  <2>15. OthersWait'
    <3> SUFFICES ASSUME NEW p \in Live \ {c} PROVE Waits(p)'
      BY <2>11, <2>12 DEF OthersWait
    <3>1. p \in Pid
      BY DEF Live
    <3> QED
      BY <2>1, <2>3, <2>9, <3>1, WaitsOn DEF OthersWait
  <2>16. Settled' /\ LaunchOfCommand' /\ LaunchDone'
    BY <2>1, <2>12 DEF Settled, LaunchOfCommand, LaunchDone
  <2>17. LaunchPlaced'
    BY <2>1, <2>3, <2>5, <2>8, <2>10, <2>11, <2>12 DEF LaunchPlaced
  <2>18. LaunchOfShell'
    BY <2>1, <2>3, <2>5, <2>11 DEF LaunchOfShell, TerminalOrder
  <2> QED
    BY <2>1, <2>13, <2>14, <2>15, <2>16, <2>17, <2>18 DEF JobInv
<1> QED
  BY <1>1, <1>2

\* Whoever is resumed launches nothing.
LEMMA ResumeTop ==
    ASSUME NEW st \in Stacks, NEW loc \in Location, Resumable(st, loc), Resume(st, loc)
    PROVE  ~LaunchUnderWay' /\ ~InKernel("jump")' /\ ~Arriving'
<1> DEFINE f == Woken(st[loc.own][loc.dep])
<1>1. loc.own \in Pid /\ loc.dep \in 1 .. StackDepth /\ loc.dep > 0
  BY SizeAssumption DEF Location, Resumable
<1>2. f \in Frame /\ f.at \in {"return", "done"}
  BY <1>1, WokenLemma DEF Stacks
<1> HIDE DEF f
<1>3. esp' = loc /\ stack' = Put(st, loc, f)
  BY DEF Resume, f
<1>4. Top' = f
  BY <1>1, <1>2, <1>3, PutLemma DEF Top
<1> QED
  BY <1>2, <1>4 DEF LaunchUnderWay, InKernel, Arriving, Launching

\* Process p, which waited, gets the CPU: of a terminal whose newest job it is,
\* after a step that leaves the waiting processes' stacks alone.
LEMMA HandOver ==
    ASSUME TypeInv, SlotInv, JobInv, mode # "overflow", ~LaunchUnderWay,
           NEW p \in Live \ {curr_process}, NEW st \in Stacks,
           st[p] = stack[p], LoadCpu(p), curr_process' = p,
           Resume(st, pcb[p].k_sp), UNCHANGED initial_shell,
           JobTree', TerminalOrder', pcb'[p].stdout = screen_num',
           ~pcb'[p].child_flag, p \in Live',
           \A q \in Live' \ {p} : Waits(q) \/ q = curr_process,
           \A q \in Live' \ {p, curr_process} :
               st[q] = stack[q] /\ pcb'[q].k_sp = pcb[q].k_sp,
           curr_process \in Live' =>
               LET loc == pcb'[curr_process].k_sp IN
               /\ loc.own = curr_process /\ Resumable(st, loc)
               /\ GoesBack(st[curr_process], curr_process, loc.dep)
    PROVE  JobInv'
<1> DEFINE loc == pcb[p].k_sp
           f == Woken(st[p][loc.dep])
<1>1. /\ JobTree /\ OthersWait /\ Caller = curr_process /\ Born = Live
      /\ ~initial_shell /\ Live \subseteq Pid /\ curr_process \in Pid
      /\ pcb \in [Pid -> Pcb] /\ NULL \notin Pid
  BY SettledFacts, JobFacts
<1>2. Waits(p) /\ p \in Pid /\ p # curr_process
  BY <1>1 DEF OthersWait
<1>3. /\ loc.own = p /\ loc # Nowhere /\ loc.dep > 0
      /\ st[p][loc.dep].at \in {"child", "switched"}
      /\ GoesBack(st[p], p, loc.dep) /\ loc \in Location
      /\ loc.dep \in 1 .. StackDepth /\ loc.dep \in Nat \ {0}
  <2>1. loc \in Location
    BY <1>1, <1>2 DEF Waits, Resumable, Pcb
  <2> QED
    BY <1>2, <2>1, SizeAssumption DEF Waits, Resumable, Location
<1>4. /\ mode' = "kernel" /\ esp' = loc
      /\ stack' = Put(st, loc, f)
      /\ cr3' = p /\ tss_esp0' = loc
  <2>1. pcb[p].PD = p
    BY <1>1 DEF JobTree
  <2> QED
    BY <1>3, <2>1 DEF Resume, LoadCpu
<1>5. /\ f \in Frame /\ f.ret = st[p][loc.dep].ret /\ f.prev = st[p][loc.dep].prev
      /\ f.at = IF st[p][loc.dep].at = "child" THEN "return" ELSE "done"
  <2>1. st[p][loc.dep] \in Frame
    BY <1>2, <1>3 DEF Stacks
  <2> QED
    BY <2>1, WokenLemma DEF Woken, Frame
<1> HIDE DEF f, loc
<1>6. /\ stack'[p][loc.dep] = f
      /\ \A i \in 1 .. loc.dep - 1 : stack'[p][i] = st[p][i]
      /\ \A q \in Pid \ {p} : stack'[q] = st[q]
  <2>1. \A i \in 1 .. loc.dep - 1 : i \in 1 .. StackDepth /\ i # loc.dep
    BY <1>3, SizeAssumption
  <2>2. \A q \in Pid \ {p} : Put(st, loc, f)[q] = st[q]
    BY <1>3 DEF Put, Stacks
  <2> QED
    BY <1>2, <1>3, <1>4, <1>5, <2>1, <2>2, PutLemma
<1>7. GoesBack(stack'[p], p, loc.dep)
  <2>1. /\ Interrupts(st[p], p, loc.dep) => Interrupts(stack'[p], p, loc.dep)
        /\ Executes(st[p], p, loc.dep) => Executes(stack'[p], p, loc.dep)
    BY <1>3, <1>5, <1>6, BelowLemma
  <2> QED
    BY <1>3, <1>5, <1>6, <2>1 DEF GoesBack, Opens, Spins
<1>8. Top' = f /\ Top'.at \in {"return", "done"}
  BY <1>3, <1>4, <1>5, <1>6 DEF Top
<1>9. ~LaunchUnderWay' /\ ~InKernel("jump")' /\ Caller' = p
  BY <1>8 DEF LaunchUnderWay, InKernel, Launching, Caller
<1>10. Settled'
  BY <1>1, <1>3, <1>4, <1>7, <1>8 DEF Settled
<1>11. OthersWait'
  <2> SUFFICES ASSUME NEW q \in Live' \ {p} PROVE Waits(q)'
    BY <1>9 DEF OthersWait
  <2>1. q \in Pid /\ q # p /\ stack'[q] = st[q]
    BY <1>6 DEF Live
  <2>2. CASE q # curr_process
    BY <2>1, <2>2, WaitsOn
  <2>3. CASE q = curr_process
    BY <2>1, <2>3 DEF Waits, Resumable
  <2> QED
    BY <2>2, <2>3
<1>12. LaunchPlaced' /\ LaunchOfShell' /\ LaunchOfCommand' /\ LaunchDone'
  BY <1>9 DEF LaunchPlaced, LaunchOfShell, LaunchOfCommand, LaunchDone, Arriving
<1> QED
  BY <1>4, <1>10, <1>11, <1>12 DEF JobInv

LEMMA SwitchJob ==
    ASSUME TypeInv, SlotInv, JobInv, Discipline,
           NEW t \in Term, SwitchTerminal(t)
    PROVE  JobInv'
<1> DEFINE c == curr_process
           loc == Deeper(Base, 1)
           f == KeyFrame("switched", screen_num, ReturnTo)
           st == Put(stack, loc, f)
           p == Target(t)
<1>1. CASE ~Fits(1)
  BY <1>1, OverflowJob DEF SwitchTerminal
<1>2. CASE Fits(1)
  <2>1. /\ mode = "user" \/ InKernel("spin")
        /\ t \notin fresh /\ t # screen_num /\ screen_num' = t
        /\ UNCHANGED fresh /\ ContextSwitch(p, loc, st)
    BY <1>2 DEF SwitchTerminal, KeyAllowed, Discipline
  <2>2. ~LaunchUnderWay /\ mode # "overflow"
    BY <2>1 DEF LaunchUnderWay, InKernel, Launching
  <2>3. /\ JobTree /\ TerminalOrder /\ OthersWait
        /\ Caller = c /\ Born = Live /\ ~Arriving
        /\ c \in Live /\ c \in Pid /\ cr3 = c
        /\ pcb[c].stdout = screen_num
        /\ NULL \notin Pid /\ screen_num \in Term /\ Live \subseteq Pid
        /\ pcb \in [Pid -> Pcb]
    BY <2>1, <2>2, SettledFacts, JobFacts
  <2>4. /\ f \in Frame /\ f.at = "switched" /\ f.ret = ReturnTo
    BY <2>3, FrameLemma, BaseLemma DEF KeyFrame, Phase
  <2> HIDE DEF f
  <2>5. /\ loc \in Location /\ loc.own = c /\ loc.dep > 0
        /\ st \in Stacks /\ st[c][loc.dep] = f
        /\ \A q \in Pid \ {c} : st[q] = stack[q]
        /\ Interrupts(st[c], c, loc.dep)
    BY <1>2, <2>1, <2>4, EntryFacts
  <2> HIDE DEF loc, st
  <2>6. /\ p \in Live \ {c} /\ pcb[p].stdout = t /\ ~pcb[p].child_flag
    <3>1. t \in Live
      BY <2>1, <2>3 DEF TerminalOrder
    <3>2. pcb[t].stdout = t /\ t # c
      BY <2>1, <2>3, <3>1 DEF JobTree
    <3>3. CASE ~pcb[t].child_flag
      BY <3>1, <3>2, <3>3 DEF Target
    <3>4. CASE pcb[t].child_flag
      <4>1. /\ p = pcb[t].child /\ p \in Live \ Term /\ pcb[p].parent = t
        BY <2>3, <3>1, <3>4 DEF Target, JobTree
      <4>2. pcb[p].stdout = t /\ ~pcb[p].child_flag
        BY <2>3, <4>1 DEF JobTree
      <4> QED
        BY <2>1, <2>3, <4>1, <4>2
    <3> QED
      BY <3>3, <3>4
  <2> HIDE DEF p
  <2>7. Resumable(st, pcb[p].k_sp)
    BY <2>3, <2>5, <2>6 DEF OthersWait, Waits, Resumable
  <2>8. /\ LoadCpu(p) /\ pcb' = Saved(c, loc) /\ curr_process' = p
        /\ Resume(st, pcb[p].k_sp)
        /\ UNCHANGED <<open_processes, initial_shell, prog>>
    BY <2>1, <2>3, <2>7 DEF ContextSwitch
  <2>9. /\ \A q \in Pid : /\ pcb'[q].PD = pcb[q].PD
                          /\ pcb'[q].parent = pcb[q].parent
                          /\ pcb'[q].stdout = pcb[q].stdout
                          /\ pcb'[q].child = pcb[q].child
                          /\ pcb'[q].child_flag = pcb[q].child_flag
        /\ \A q \in Pid \ {c} : pcb'[q].k_sp = pcb[q].k_sp
        /\ pcb'[c].k_sp = loc
    <3>1. \A q \in Pid : pcb[q] \in Pcb
      BY <2>3
    <3> QED
      BY <2>3, <2>8, <3>1 DEF Saved, Pcb
  <2>10. Live' = Live /\ Born' = Live /\ ~Arriving'
    <3>1. ~InKernel("jump")' /\ ~Arriving'
      <4>1. pcb[p].k_sp \in Location
        BY <2>3, <2>6, <2>7 DEF Resumable, Pcb
      <4> QED
        BY <2>5, <2>7, <2>8, <4>1, ResumeTop
    <3>2. Live' = Live
      BY <2>8 DEF Live
    <3> QED
      BY <3>1, <3>2 DEF Born
  <2>11. JobTree'
    BY <2>1, <2>3, <2>8, <2>9, <2>10 DEF JobTree
  <2>12. TerminalOrder'
    BY <2>1, <2>3, <2>8, <2>10 DEF TerminalOrder
  <2>13. /\ loc # Nowhere /\ Resumable(st, loc) /\ GoesBack(st[c], c, loc.dep)
    BY <2>3, <2>4, <2>5 DEF Nowhere, Resumable, GoesBack
  <2>14. pcb'[p].stdout = screen_num' /\ ~pcb'[p].child_flag /\ p \in Live'
    BY <2>1, <2>3, <2>6, <2>9, <2>10
  <2>15. \A q \in Live' \ {p} : Waits(q) \/ q = c
    BY <2>3, <2>10 DEF OthersWait
  <2>16. \A q \in Live' \ {p, c} : st[q] = stack[q] /\ pcb'[q].k_sp = pcb[q].k_sp
    BY <2>3, <2>5, <2>9, <2>10
  <2>17. st[p] = stack[p]
    BY <2>3, <2>5, <2>6
  <2> QED
    BY <2>2, <2>5, <2>6, <2>8, <2>9, <2>11, <2>12, <2>13, <2>14, <2>15, <2>16,
       <2>17, HandOver
<1> QED
  BY <1>1, <1>2

\* halt: a terminal's shell spins, a command hands over to its shell.
LEMMA HaltJob ==
    ASSUME TypeInv, SlotInv, JobInv, Halt
    PROVE  JobInv'
<1> DEFINE c == curr_process
           q == pcb[c].parent
           loc == Deeper(Base, 1)
           st == Put(stack, loc, Junk)
<1>1. CASE ~Fits(1)
  BY <1>1, OverflowJob DEF Halt
<1>2. CASE Fits(1)
  <2>1. mode = "user" /\ ~LaunchUnderWay /\ mode # "overflow"
    BY DEF Halt, LaunchUnderWay
  <2>2. /\ JobTree /\ TerminalOrder /\ OthersWait
        /\ Caller = c /\ Born = Live /\ ~Arriving
        /\ c \in Live /\ c \in Pid /\ run = c
        /\ pcb[c].stdout = screen_num /\ ~pcb[c].child_flag
        /\ NULL \notin Pid /\ screen_num \in Term /\ Live \subseteq Pid
        /\ pcb \in [Pid -> Pcb] /\ Live \subseteq open_processes
        /\ prog \in [Pid -> Program \cup {NULL}]
    BY <2>1, <2>1, SettledFacts, JobFacts DEF TypeInv, TypeOK
  <2>3. CASE c \in Term
    <3> DEFINE f == SpinFrame(run)
    <3>1. q = c /\ q # NULL
      BY <2>2, <2>3 DEF JobTree
    <3>2. /\ esp' = loc /\ mode' = "kernel" /\ stack' = Put(stack, loc, f)
          /\ UNCHANGED <<procVars, cr3, tss_esp0, prog, termVars>>
      BY <1>2, <3>1 DEF Halt, memVars
    <3>3. f \in Frame /\ f.at = "spin" /\ f.ret = c
      BY <2>2, FrameLemma DEF SpinFrame
    <3> HIDE DEF f
    <3>4. /\ loc.own = c /\ stack'[c][loc.dep] = f
          /\ \A p \in Pid \ {c} : stack'[p] = stack[p]
      BY <1>2, <2>1, <3>2, <3>3, EntryFacts
    <3> HIDE DEF loc
    <3>5. Top' = f /\ ~LaunchUnderWay'
      BY <3>2, <3>3, <3>4 DEF Top, LaunchUnderWay, Launching
    <3>6. GoesBack(stack'[c], c, loc.dep)
      BY <3>3, <3>4 DEF GoesBack, Spins
    <3> QED
      BY <2>1, <3>2, <3>3, <3>4, <3>5, <3>6, StillSettled
  <2>4. CASE c \notin Term
    <3>1. /\ fresh = {} /\ q \in Live \cap Term /\ pcb[c].stdout = q /\ q # c
          /\ pcb[q].child_flag /\ pcb[q].child = c /\ q # NULL
          /\ pcb[q].stdout = q
      BY <2>2, <2>4 DEF JobTree
    <3> HIDE DEF q
    <3>2. /\ st \in Stacks
          /\ \A p \in Pid \ {c} : st[p] = stack[p]
      BY <1>2, <2>1, FrameLemma, EntryFacts
    <3> HIDE DEF st, loc
    <3>3. Resumable(st, pcb[q].k_sp)
      BY <2>2, <3>1, <3>2 DEF OthersWait, Waits, Resumable
    <3>4. /\ open_processes' = Toggled(c)
          /\ pcb' = [pcb EXCEPT ![q].child_flag = FALSE]
          /\ LoadCpu(q) /\ curr_process' = q
          /\ prog' = [prog EXCEPT ![c] = NULL]
          /\ Resume(st, pcb[q].k_sp)
          /\ UNCHANGED <<initial_shell, termVars>>
      BY <1>2, <3>1, <3>3 DEF Halt, q, st, loc
    <3>5. /\ \A p \in Pid : /\ pcb'[p].PD = pcb[p].PD
                            /\ pcb'[p].parent = pcb[p].parent
                            /\ pcb'[p].stdout = pcb[p].stdout
                            /\ pcb'[p].child = pcb[p].child
                            /\ pcb'[p].k_sp = pcb[p].k_sp
          /\ \A p \in Pid \ {q} : pcb'[p].child_flag = pcb[p].child_flag
          /\ ~pcb'[q].child_flag
      <4>1. \A p \in Pid : pcb[p] \in Pcb
        BY <2>2
      <4> QED
        BY <2>2, <3>1, <3>4, <4>1 DEF Pcb
    <3>6. Live' = Live \ {c} /\ \A p \in Pid \ {c} : prog'[p] = prog[p]
      BY <2>2, <3>4 DEF Live
    <3>7. Born' = Live' /\ ~Arriving'
      <4>1. pcb[q].k_sp \in Location
        BY <2>2, <3>1, <3>3 DEF Resumable, Pcb
      <4> QED
        BY <3>2, <3>3, <3>4, <4>1, ResumeTop DEF Born
    <3>8. open_processes' \subseteq open_processes
      BY <2>2, <3>4 DEF Toggled
    <3>9. JobTree'
      <4>1. \A p \in Live' : prog'[p] = Shell <=> p \in Term
        BY <2>2, <3>6 DEF JobTree
      <4>2. \A p \in Pid \ Term : ~pcb'[p].child_flag
        BY <2>2, <3>1, <3>5 DEF JobTree
      <4>3. ASSUME NEW p \in Live'
            PROVE  /\ pcb'[p].PD = p
                   /\ p \in Term => pcb'[p].parent = p /\ pcb'[p].stdout = p
                   /\ pcb'[p].child_flag =>
                        /\ pcb'[p].child \in Live' \ Term
                        /\ pcb'[pcb'[p].child].parent = p
        <5>1. /\ p \in Live /\ p # c /\ p \in Pid
          BY <2>2, <3>6
        <5>2. /\ pcb[p].PD = p
              /\ p \in Term => pcb[p].parent = p /\ pcb[p].stdout = p
              /\ pcb[p].child_flag =>
                   pcb[p].child \in Live \ Term /\ pcb[pcb[p].child].parent = p
          BY <2>2, <5>1 DEF JobTree
        <5>3. pcb'[p].child_flag => p # q /\ pcb[p].child # c
          BY <3>5, <5>1, <5>2 DEF q
        <5> QED
          BY <2>2, <3>5, <3>6, <5>1, <5>2, <5>3
      <4>4. ASSUME NEW p \in Live' \ Term
            PROVE  LET r == pcb'[p].parent IN
                   /\ fresh' = {} /\ r \in Live' \cap Term /\ pcb'[p].stdout = r
                   /\ pcb'[r].child_flag /\ pcb'[r].child = p
        <5> DEFINE r == pcb[p].parent
        <5>1. /\ p \in Live /\ p # c /\ p \in Pid
          BY <2>2, <3>6
        <5>2. /\ r \in Live \cap Term /\ pcb[p].stdout = r
              /\ pcb[r].child_flag /\ pcb[r].child = p
          BY <2>2, <5>1 DEF JobTree
        <5>3. r # q /\ r # c /\ r \in Pid
          BY <2>2, <2>4, <3>1, <5>1, <5>2
        <5> QED
          BY <3>1, <3>4, <3>5, <3>6, <5>1, <5>2, <5>3 DEF termVars
      <4> QED
        BY <3>7, <4>1, <4>2, <4>3, <4>4 DEF JobTree
    <3>10. TerminalOrder'
      BY <2>2, <2>4, <3>1, <3>4, <3>6, <3>7, <3>8 DEF TerminalOrder, termVars
    <3>11. /\ q \in Live \ {c} /\ st[q] = stack[q] /\ q \in Live' /\ c \notin Live'
           /\ pcb'[q].stdout = screen_num'
      BY <2>2, <3>1, <3>2, <3>4, <3>5, <3>6 DEF termVars
    <3>12. \A p \in Live' \ {q} : Waits(p) \/ p = c
      BY <2>2, <3>6 DEF OthersWait
    <3>13. \A p \in Live' \ {q, c} : st[p] = stack[p] /\ pcb'[p].k_sp = pcb[p].k_sp
      BY <2>2, <3>2, <3>5, <3>6
    <3> QED
      BY <2>1, <3>2, <3>4, <3>5, <3>9, <3>10, <3>11, <3>12, <3>13, HandOver
  <2> QED
    BY <2>3, <2>4
<1> QED
  BY <1>1, <1>2

LEMMA JobNext ==
    ASSUME TypeInv, SlotInv, JobInv, Discipline, [Next]_vars
    PROVE  JobInv'
<1>1. CASE KernelStep
  BY <1>1, AllocJob, CheckJob, MapJob, LoadJob, InitJob, JumpJob, ContinueJob, LeaveJob
     DEF KernelStep, ExecuteReturn, KeyReturn, InKernel
<1>2. CASE \E cmd \in Commands : ExecuteCall(cmd)
  BY <1>2, CallJob
<1>3. CASE Halt
  BY <1>3, HaltJob
<1>4. CASE \E t \in Term : OpenTerminal(t) \/ SwitchTerminal(t)
  BY <1>4, OpenJob, SwitchJob
<1>5. CASE \E p \in DebugKeys : DebugKey(p)
  BY <1>5 DEF Discipline
<1>6. CASE UNCHANGED vars
  <2>1. UNCHANGED <<open_processes, process_id, curr_process, initial_shell,
                    pcb, parsed, cr3, tss_esp0, mode, run, esp, stack,
                    screen_num, fresh, prog>>
    BY <1>6 DEF vars, procVars, memVars, cpuVars, termVars
  <2>2. /\ Top' = Top /\ Live' = Live /\ LaunchUnderWay' = LaunchUnderWay
        /\ \A ph : InKernel(ph)' = InKernel(ph)
    BY <2>1 DEF Top, Live, LaunchUnderWay, InKernel
  <2>3. Caller' = Caller /\ Born' = Born /\ Arriving' = Arriving
    BY <2>1, <2>2 DEF Caller, Born, Arriving
  <2>4. /\ JobTree' = JobTree /\ TerminalOrder' = TerminalOrder
        /\ OthersWait' = OthersWait
    BY <2>1, <2>2, <2>3 DEF JobTree, TerminalOrder, OthersWait, Waits, Resumable
  <2>5. Settled' = Settled /\ LaunchPlaced' = LaunchPlaced
    BY <2>1, <2>2, <2>3 DEF Settled, LaunchPlaced
  <2>6. /\ LaunchOfShell' = LaunchOfShell /\ LaunchOfCommand' = LaunchOfCommand
        /\ LaunchDone' = LaunchDone
    BY <2>1, <2>2, <2>3 DEF LaunchOfShell, LaunchOfCommand, LaunchDone
  <2> QED
    BY <2>1, <2>4, <2>5, <2>6 DEF JobInv
<1> QED
  BY <1>1, <1>2, <1>3, <1>4, <1>5, <1>6 DEF Next

-----------------------------------------------------------------------------
(* What follows. *)

\* The nearest frame from user mode below one that goes back to p is p's.
LEMMA HomeLemma ==
    ASSUME NEW p \in Pid, NEW loc \in Location, loc.own = p, loc.dep > 0,
           p # NULL, GoesBack(stack[p], p, loc.dep)
    PROVE  Home(loc) = p
<1> DEFINE k == stack[p]
           d == loc.dep
           user == {i \in 1 .. d : k[i].ret # NULL}
<1>1. d \in Nat \ {0}
  BY SizeAssumption DEF Location
<1>2. ASSUME NEW e \in 1 .. d, Interrupts(k, p, e)
      PROVE  \E i \in 1 .. e : k[i].ret = p /\ \A j \in i + 1 .. e : k[j].ret = NULL
  <2>1. CASE k[e].ret = p
    <3>1. e \in 1 .. e /\ \A j \in e + 1 .. e : FALSE
      BY <1>1
    <3> QED
      BY <2>1, <3>1
  <2>2. CASE k[e].ret = NULL /\ e > 1 /\ Spins(k, p, e - 1)
    <3>1. e - 1 \in 1 .. e /\ \A j \in (e - 1) + 1 .. e : j = e
      BY <1>1, <2>2
    <3> QED
      BY <2>2, <3>1 DEF Spins
  <2> QED
    BY <1>2, <2>1, <2>2 DEF Interrupts
<1>3. ASSUME NEW e \in 1 .. d, Executes(k, p, e)
      PROVE  \E i \in 1 .. e : k[i].ret = p /\ \A j \in i + 1 .. e : k[j].ret = NULL
  <2>1. CASE k[e].ret = p
    <3>1. e \in 1 .. e /\ \A j \in e + 1 .. e : FALSE
      BY <1>1
    <3> QED
      BY <2>1, <3>1
  <2>2. CASE k[e].ret = NULL /\ e > 1 /\ Opens(k, p, e - 1)
    <3>1. e - 1 \in 1 .. d /\ Interrupts(k, p, e - 1)
      BY <1>1, <2>2 DEF Opens
    <3>2. PICK i \in 1 .. e - 1 :
             k[i].ret = p /\ \A j \in i + 1 .. e - 1 : k[j].ret = NULL
      BY <1>2, <3>1
    <3>3. i \in 1 .. e /\ \A j \in i + 1 .. e : j \in i + 1 .. e - 1 \/ j = e
      BY <1>1, <3>1
    <3> QED
      BY <2>2, <3>2, <3>3
  <2> QED
    BY <1>3, <2>1, <2>2 DEF Executes
<1>4. \E i \in 1 .. d : k[i].ret = p /\ \A j \in i + 1 .. d : k[j].ret = NULL
  <2>1. d \in 1 .. d /\ \A j \in d + 1 .. d : FALSE
    BY <1>1
  <2>2. CASE Spins(k, p, d)
    BY <2>1, <2>2 DEF Spins
  <2>3. CASE ~Spins(k, p, d)
    BY <1>2, <1>3, <2>1, <2>3 DEF GoesBack, Opens
  <2> QED
    BY <2>2, <2>3
<1>5. PICK i \in 1 .. d : k[i].ret = p /\ \A j \in i + 1 .. d : k[j].ret = NULL
  BY <1>4
<1>6. i \in user /\ \A e \in user : e <= i
  <2> SUFFICES ASSUME NEW e \in user, ~(e <= i) PROVE FALSE
    BY <1>5
  <2>1. e \in i + 1 .. d
    BY <1>1
  <2> QED
    BY <1>5, <2>1
<1>7. \A m \in user : (\A e \in user : e <= m) => m = i
  BY <1>1, <1>6
<1>8. (CHOOSE m \in user : \A e \in user : e <= m) = i
  BY <1>6, <1>7
<1>9. user # {}
  BY <1>6
<1> HIDE DEF user
<1>10. Home(loc) = IF user = {} THEN NULL
                   ELSE k[CHOOSE m \in user : \A e \in user : e <= m].ret
  BY DEF Home, user
<1> QED
  BY <1>5, <1>8, <1>9, <1>10

LEMMA JobInvariant ==
    ASSUME Discipline
    PROVE  Spec => [](TypeInv /\ SlotInv /\ JobInv)
<1>1. QuietLaunch
  BY DEF Discipline
<1>2. Spec => []TypeInv /\ []SlotInv
  BY <1>1, TypeInvariant, SlotInvariant, PTL
<1>3. TypeInv /\ SlotInv /\ JobInv /\ [Next]_vars => JobInv'
  BY JobNext
<1>4. Init => JobInv
  BY JobInit
<1> QED
  BY <1>2, <1>3, <1>4, PTL DEF Spec

\* If users keep to that, whoever has the CPU is who should: in its own pages,
\* on its own kernel stack and terminal, and with nothing it waits for; for
\* every number of slots, terminals, frames and commands.
THEOREM RightProcess ==
    ASSUME Discipline
    PROVE  Spec => []RightProcessRuns
<1>1. TypeInv /\ SlotInv /\ JobInv => RightProcessRuns
  <2> SUFFICES ASSUME TypeInv, SlotInv, JobInv, mode = "user"
               PROVE  RightProcessRuns
    BY DEF RightProcessRuns, CpuConsistent, ForegroundRuns, LauncherWaits
  <2>1. ~LaunchUnderWay /\ mode # "overflow"
    BY DEF LaunchUnderWay
  <2>2. /\ JobTree /\ Born = Live /\ run = curr_process /\ run \in Live
        /\ cr3 = run /\ tss_esp0.own = run /\ pcb[run].stdout = screen_num
        /\ ~pcb[run].child_flag
    BY <2>1, SettledFacts
  <2>3. \A p \in Live \ {run} : pcb[p].parent # run
    BY <2>2 DEF JobTree
  <2> QED
    BY <2>2, <2>3 DEF RightProcessRuns, CpuConsistent, ForegroundRuns, LauncherWaits
<1> QED
  BY <1>1, JobInvariant, PTL

\* ... and whoever waits can be resumed: its frame is there, where its PCB
\* says, and what is below it leads back to its own user code or halt.
THEOREM NothingIsLost ==
    ASSUME Discipline
    PROVE  Spec => []NothingLost
<1>1. TypeInv /\ SlotInv /\ JobInv => NothingLost
  <2> SUFFICES ASSUME TypeInv, SlotInv, JobInv PROVE NothingLost
    OBVIOUS
  <2>1. NeverLost
    BY DEF NeverLost, JobInv
  <2>2. ASSUME mode = "user", NEW p \in Live \ {run}
        PROVE  LET loc == pcb[p].k_sp IN
               /\ Resumable(stack, loc) /\ loc.own = p /\ Home(loc) = p
               /\ pcb[p].PD = p
    <3> DEFINE loc == pcb[p].k_sp
    <3>1. ~LaunchUnderWay /\ mode # "overflow"
      BY <2>2 DEF LaunchUnderWay
    <3>2. /\ JobTree /\ OthersWait /\ Caller = run /\ Born = Live
          /\ pcb \in [Pid -> Pcb] /\ NULL \notin Pid /\ Live \subseteq Pid
      BY <2>2, <3>1, SettledFacts, JobFacts
    <3>3. /\ loc.own = p /\ Resumable(stack, loc) /\ GoesBack(stack[p], p, loc.dep)
      BY <3>2 DEF OthersWait, Waits
    <3>4. loc \in Location /\ loc.dep > 0 /\ p \in Pid
      BY <3>2, <3>3 DEF Resumable, Pcb
    <3>5. Home(loc) = p
      BY <3>2, <3>3, <3>4, HomeLemma
    <3> QED
      BY <3>2, <3>3, <3>5 DEF JobTree
  <2> QED
    BY <2>1, <2>2 DEF NothingLost, SuspendedIntact
<1> QED
  BY <1>1, JobInvariant, PTL

-----------------------------------------------------------------------------
(* ProcessControl implements TerminalJobs. *)

\* What the chain from terminal t's shell comes to.
ShellAndCommand(t) ==
    IF t \notin Live THEN <<>>
    ELSE IF pcb[t].child_flag /\ pcb[t].child \in Live
           THEN Append(<<t>>, pcb[t].child) ELSE <<t>>

LEMMA Least ==
    ASSUME NEW S, S \subseteq Nat, S # {}
    PROVE  \E m \in S : \A k \in S : m <= k
<1>1. PICK m \in S : \A k \in S : ~(<<k, m>> \in OpToRel(<, Nat))
  BY NatLessThanWellFounded, WFMin, Zenon
<1>2. \A k \in S : ~(k < m)
  BY <1>1 DEF OpToRel
<1> QED
  BY <1>2

\* A stack of a shell and one command.
LEMMA CommandOnTop ==
    ASSUME NEW S, NEW x \in S, NEW y \in S
    PROVE  LET s == Append(<<x>>, y) IN
           s # <<>> /\ Len(s) = 2 /\ s[Len(s)] = y /\ SubSeq(s, 1, Len(s) - 1) = <<x>>
<1> DEFINE s == Append(<<x>>, y)
<1>1. <<x>> \in Seq(S) /\ Len(<<x>>) = 1 /\ <<x>>[1] = x
  OBVIOUS
<1>2. s \in Seq(S) /\ s # <<>> /\ Len(s) = 2 /\ s[1] = x /\ s[2] = y
  BY <1>1, AppendProperties
<1>3. SubSeq(s, 1, 1) \in Seq(S) /\ Len(SubSeq(s, 1, 1)) = 1
  BY <1>2, SubSeqProperties
<1>4. \A i \in 1 .. 1 : SubSeq(s, 1, 1)[i] = <<x>>[i]
  BY <1>1, <1>2, SubSeqProperties
<1>5. SubSeq(s, 1, 1) = <<x>>
  BY <1>1, <1>3, <1>4, SeqEqual
<1> QED
  BY <1>2, <1>5

LEMMA RootLemma ==
    ASSUME TypeInv, SlotInv, JobInv, mode # "overflow", NEW t \in Term
    PROVE  Roots(t) = IF t \in Live THEN {t} ELSE {}
<1>1. JobTree /\ NULL \notin Pid /\ Live \subseteq Pid
  BY JobFacts
<1>2. \A p \in Live \cap Term : pcb[p].parent = p /\ pcb[p].stdout = p
  BY <1>1 DEF JobTree, Born
<1>3. \A p \in Live \ Term : pcb[p].parent \in Term
  BY <1>1 DEF JobTree, Born
<1> QED
  BY <1>2, <1>3 DEF Roots

\* A command has no child, so the chain ends after it.
LEMMA ChainLemma ==
    ASSUME TypeInv, SlotInv, JobInv, mode # "overflow", NEW t \in Term, t \in Live
    PROVE  Chain(t)[NPROC - 1] = ShellAndCommand(t)
<1> DEFINE Link(s) == IF pcb[s[Len(s)]].child_flag /\ pcb[s[Len(s)]].child \in Live
                        THEN Append(s, pcb[s[Len(s)]].child) ELSE s
           last == ShellAndCommand(t)
           chain == Chain(t)
<1>1. JobTree /\ Live \subseteq Pid /\ t \in Pid
  BY JobFacts DEF Live
<1>2. (CHOOSE p \in Roots(t) : TRUE) = t
  BY RootLemma
<1>3. Link(<<t>>) = last
  BY DEF ShellAndCommand
<1>4. Link(last) = last
  <2>1. CASE pcb[t].child_flag /\ pcb[t].child \in Live
    <3>1. last = Append(<<t>>, pcb[t].child)
      BY <2>1 DEF ShellAndCommand
    <3>2. pcb[t].child \in Pid \ Term
      BY <1>1, <2>1 DEF JobTree, Born
    <3>3. ~pcb[pcb[t].child].child_flag
      BY <1>1, <3>2 DEF JobTree
    <3>4. last[Len(last)] = pcb[t].child
      BY <1>1, <3>1, <3>2, CommandOnTop
    <3> QED
      BY <3>3, <3>4
  <2>2. CASE ~(pcb[t].child_flag /\ pcb[t].child \in Live)
    BY <2>2 DEF ShellAndCommand
  <2> QED
    BY <2>1, <2>2
<1> HIDE DEF last
<1>5. chain = CHOOSE f : f = [n \in Nat |->
                 IF n = 0 THEN << CHOOSE p \in Roots(t) : TRUE >> ELSE Link(f[n - 1])]
  BY DEF Chain
<1>6. chain = CHOOSE f : f = [n \in Nat |-> IF n = 0 THEN <<t>> ELSE Link(f[n - 1])]
  BY <1>2, <1>5
<1> HIDE DEF chain, Link
<1>7. chain = [n \in Nat |-> IF n = 0 THEN <<t>> ELSE Link(chain[n - 1])]
  <2> DEFINE g == [n \in Nat |-> IF n = 0 THEN <<t>> ELSE last]
  <2>1. g = [n \in Nat |-> IF n = 0 THEN <<t>> ELSE Link(g[n - 1])]
    <3> SUFFICES ASSUME NEW n \in Nat, n # 0 PROVE last = Link(g[n - 1])
      OBVIOUS
    <3>1. n - 1 \in Nat /\ g[n - 1] = IF n - 1 = 0 THEN <<t>> ELSE last
      OBVIOUS
    <3> QED
      BY <1>3, <1>4, <3>1
  <2> HIDE DEF g
  <2> QED
    BY <1>6, <2>1, Zenon
<1>8. \A n \in Nat \ {0} : chain[n] = last
  <2> DEFINE S == {n \in Nat \ {0} : chain[n] # last}
  <2> SUFFICES ASSUME S # {} PROVE FALSE
    OBVIOUS
  <2>1. PICK m \in S : \A k \in S : m <= k
    <3>1. S \subseteq Nat
      OBVIOUS
    <3> HIDE DEF S
    <3> QED
      BY <3>1, Least
  <2>2. m \in Nat \ {0} /\ m - 1 \in Nat /\ chain[m] # last
    BY <2>1
  <2>3. chain[m] = Link(chain[m - 1]) /\ chain[0] = <<t>>
    BY <1>7, <2>2
  <2>4. m - 1 = 0 \/ chain[m - 1] = last
    BY <2>1, <2>2
  <2> QED
    BY <1>3, <1>4, <2>2, <2>3, <2>4
<1>9. CASE NPROC - 1 = 0
  <2>1. last = <<t>>
    <3>1. Pid \subseteq Term
      BY <1>9, SizeAssumption DEF Pid, Term
    <3>2. \A p \in Live : pcb[p].child_flag => pcb[p].child \in Pid \ Term
      BY <1>1, JobFacts DEF JobTree, Born
    <3> QED
      BY <3>1, <3>2 DEF last, ShellAndCommand
  <2>2. 0 \in Nat
    OBVIOUS
  <2>3. chain[0] = <<t>>
    BY <1>7, <2>2
  <2> QED
    BY <1>9, <2>1, <2>3 DEF chain, last
<1>10. CASE NPROC - 1 # 0
  <2>1. NPROC - 1 \in Nat \ {0}
    BY <1>10, SizeAssumption
  <2> QED
    BY <1>8, <2>1 DEF chain, last
<1> QED
  BY <1>9, <1>10

LEMMA JobsAre ==
    TypeInv /\ SlotInv /\ JobInv /\ mode # "overflow"
      => \A t \in Term : JobsOn(t) = ShellAndCommand(t)
<1> SUFFICES ASSUME TypeInv, SlotInv, JobInv, mode # "overflow", NEW t \in Term
             PROVE  JobsOn(t) = ShellAndCommand(t)
  OBVIOUS
<1>1. CASE t \in Live
  BY <1>1, RootLemma, ChainLemma DEF JobsOn
<1>2. CASE t \notin Live
  BY <1>2, RootLemma DEF JobsOn, ShellAndCommand
<1> QED
  BY <1>1, <1>2

LEMMA JobsAreNext ==
    (TypeInv /\ SlotInv /\ JobInv /\ mode # "overflow")'
      => (\A t \in Term : JobsOn(t) = ShellAndCommand(t))'
<1>1. TypeInv /\ SlotInv /\ JobInv /\ mode # "overflow"
        => \A t \in Term : JobsOn(t) = ShellAndCommand(t)
  BY JobsAre
<1> QED
  BY <1>1, PTL

\* A step that starts and ends nobody leaves the jobs alone.
LEMMA JobsKept ==
    ASSUME TypeInv, SlotInv, JobInv, TypeInv', SlotInv', JobInv',
           mode # "overflow", mode' # "overflow", Live' = Live,
           \A p \in Live : pcb'[p].child_flag = pcb[p].child_flag,
           \A p \in Live : pcb[p].child_flag =>
                              pcb'[p].child = pcb[p].child
    PROVE  [t \in Term |-> JobsOn(t)]' = [t \in Term |-> JobsOn(t)]
<1> SUFFICES ASSUME NEW t \in Term PROVE JobsOn(t)' = JobsOn(t)
  OBVIOUS
<1>1. JobsOn(t) = ShellAndCommand(t) /\ JobsOn(t)' = ShellAndCommand(t)'
  BY JobsAre, JobsAreNext
<1> QED
  BY <1>1 DEF ShellAndCommand

\* Neither does one that leaves the PCBs as they are.
LEMMA JobsSame ==
    ASSUME UNCHANGED <<pcb, prog>>
    PROVE  [t \in Term |-> JobsOn(t)]' = [t \in Term |-> JobsOn(t)]
BY DEF JobsOn, Roots, Chain, Live

\* A step within the kernel shows nothing of itself.
LEMMA Silent ==
    ASSUME mode # "user", mode' # "user", UNCHANGED <<prog, screen_num>>,
           [t \in Term |-> JobsOn(t)]' = [t \in Term |-> JobsOn(t)]
    PROVE  UNCHANGED Jobs!jobVars
BY DEF Jobs!jobVars

\* The new process is not yet a job.
LEMMA InitRefines ==
    ASSUME TypeInv, SlotInv, JobInv, TypeInv', SlotInv', JobInv', ExecuteInit
    PROVE  UNCHANGED Jobs!jobVars
<1> DEFINE b == process_id
           c == Top.prev
<1>1. mode = "kernel" /\ Top.at = "init" /\ LaunchUnderWay
  BY DEF ExecuteInit, InKernel, LaunchUnderWay, Launching
<1>2. /\ LaunchPlaced /\ LaunchOfCommand /\ Live \subseteq Pid /\ NULL \notin Pid
      /\ b \in Pid \ Live
  BY <1>1, JobFacts
<1>3. ~(~initial_shell /\ c = NULL)
  BY <1>1, <1>2 DEF LaunchPlaced
<1>4. mode' = "kernel" /\ UNCHANGED <<prog, screen_num>> /\ Live' = Live
  BY <1>1, <1>3 DEF ExecuteInit, kernelStays, termVars, Live
<1>5. ASSUME NEW t \in Term PROVE JobsOn(t)' = JobsOn(t)
  <2>1. JobsOn(t) = ShellAndCommand(t) /\ JobsOn(t)' = ShellAndCommand(t)'
    BY <1>1, <1>4, JobsAre, JobsAreNext
  <2>2. t \in Live /\ ~initial_shell /\ t = c
          => ~pcb[t].child_flag /\ pcb'[t].child \notin Live
    BY <1>1, <1>2, NewPcbs DEF LaunchOfCommand
  <2>3. t \in Live /\ (initial_shell \/ t # c)
          => pcb'[t].child_flag = pcb[t].child_flag /\ pcb'[t].child = pcb[t].child
    BY <1>2, NewPcbs
  <2> QED
    BY <1>4, <2>1, <2>2, <2>3 DEF ShellAndCommand
<1> QED
  BY <1>1, <1>4, <1>5, Silent

\* The other steps within the kernel leave PCBs and programs alone.
LEMMA KernelRefines ==
    ASSUME TypeInv, SlotInv, JobInv,
           ExecuteAlloc \/ ExecuteCheck \/ ExecuteMap \/ ExecuteLoad \/ OpenContinue
    PROVE  UNCHANGED Jobs!jobVars
<1>1. mode = "kernel"
  BY DEF ExecuteAlloc, ExecuteCheck, ExecuteMap, ExecuteLoad, OpenContinue, InKernel
<1>2. CASE ExecuteAlloc \/ ExecuteCheck \/ ExecuteMap \/ ExecuteLoad
  <2>1. UNCHANGED <<pcb, prog, screen_num, mode>>
    BY <1>2 DEF ExecuteAlloc, ExecuteCheck, ExecuteMap, ExecuteLoad, procVars, termVars,
       kernelStays
  <2> QED
    BY <1>1, <2>1, JobsSame, Silent
<1>3. CASE OpenContinue
  <2>1. mode = "kernel" /\ Top.at = "opening" /\ ~LaunchUnderWay
    BY <1>3 DEF OpenContinue, InKernel, LaunchUnderWay, Launching
  <2>2. /\ curr_process \in Live /\ GoesBack(stack[curr_process], curr_process, esp.dep)
        /\ esp.own = curr_process /\ JobTree /\ Born = Live
        /\ pcb[curr_process].stdout = screen_num
    BY <2>1, SettledFacts
  <2>3. Opens(stack[curr_process], curr_process, esp.dep)
    BY <2>1, <2>2 DEF GoesBack, Spins, Top
  <2>4. screen_num = Top.prev
    BY <2>2, <2>3 DEF Opens, JobTree, Top
  <2>5. UNCHANGED <<pcb, prog, screen_num, mode>>
    BY <1>3, <2>4 DEF OpenContinue, procVars, termVars, kernelStays
  <2> QED
    BY <1>1, <2>5, JobsSame, Silent
<1> QED
  BY <1>2, <1>3

\* Back to user mode: the newest job of the terminal on the screen goes on.
LEMMA LeaveRefines ==
    ASSUME TypeInv, SlotInv, JobInv, TypeInv', SlotInv', JobInv',
           mode = "kernel", Leave
    PROVE  Jobs!GoOn \/ UNCHANGED Jobs!jobVars
<1>1. UNCHANGED <<pcb, prog, screen_num>>
  BY DEF Leave, procVars, termVars
<1>2. [t \in Term |-> JobsOn(t)]' = [t \in Term |-> JobsOn(t)]
  BY <1>1, JobsSame
<1>3. CASE mode' # "user"
  BY <1>1, <1>2, <1>3, Silent
<1>4. CASE mode' = "user"
  <2>1. /\ run' \in Live' /\ pcb'[run'].stdout = screen_num'
        /\ ~pcb'[run'].child_flag /\ JobTree' /\ Born' = Live'
    BY <1>4 DEF JobInv, Settled, LaunchUnderWay, Born, InKernel
  <2>2. screen_num' \in Term
    BY DEF TypeInv, TypeOK
  <2>3. JobsOn(screen_num)' = ShellAndCommand(screen_num)'
    BY <1>4, <2>2, JobsAreNext
  <2>4. \/ JobsOn(screen_num)' = <<run'>>
        \/ \E q \in Pid : JobsOn(screen_num)' = Append(<<q>>, run')
    <3>1. CASE run' \in Term
      <4>1. run' = screen_num'
        BY <2>1, <3>1 DEF JobTree
      <4> QED
        BY <2>1, <2>3, <4>1 DEF ShellAndCommand
    <3>2. CASE run' \notin Term
      <4>1. /\ screen_num' \in Live' /\ pcb'[screen_num'].child_flag
            /\ pcb'[screen_num'].child = run' /\ screen_num' \in Pid
        BY <2>1, <2>2, <3>2, SizeAssumption DEF JobTree, Term, Pid
      <4> QED
        BY <2>1, <2>3, <4>1 DEF ShellAndCommand
    <3> QED
      BY <3>1, <3>2
  <2>5. JobsOn(screen_num)' = JobsOn(screen_num)
    BY <1>1, <1>2, <2>2
  <2>6. JobsOn(screen_num) # <<>>
        /\ JobsOn(screen_num)[Len(JobsOn(screen_num))] = run'
    <3>1. run' \in Pid
      BY DEF TypeInv, TypeOK
    <3>2. CASE JobsOn(screen_num)' = <<run'>>
      BY <2>5, <3>2
    <3>3. CASE \E q \in Pid : JobsOn(screen_num)' = Append(<<q>>, run')
      <4>1. PICK q \in Pid : JobsOn(screen_num)' = Append(<<q>>, run')
        BY <3>3
      <4> DEFINE s == Append(<<q>>, run')
      <4>2. s # <<>> /\ s[Len(s)] = run'
        BY <3>1, CommandOnTop
      <4> QED
        BY <2>5, <4>1, <4>2
    <3> QED
      BY <2>4, <3>2, <3>3
  <2> QED
    BY <1>1, <1>2, <1>4, <2>2, <2>6 DEF Jobs!GoOn, Jobs!Newest
<1> QED
  BY <1>3, <1>4

LEMMA FirstJob ==
    ASSUME NEW S, NEW x \in S
    PROVE  Append(<<>>, x) = <<x>>
<1>1. <<>> \in Seq(S) /\ Len(<<>>) = 0 /\ <<x>> \in Seq(S) /\ Len(<<x>>) = 1 /\ <<x>>[1] = x
  OBVIOUS
<1>2. /\ Append(<<>>, x) \in Seq(S) /\ Len(Append(<<>>, x)) = 1
      /\ Append(<<>>, x)[1] = x
  BY <1>1, AppendProperties
<1>3. \A i \in 1 .. 1 : Append(<<>>, x)[i] = <<x>>[i]
  BY <1>1, <1>2
<1> QED
  BY <1>1, <1>2, <1>3, SeqEqual

\* The jump to user space starts a job on the terminal on the screen.
LEMMA JumpRefines ==
    ASSUME TypeInv, SlotInv, JobInv, TypeInv', SlotInv', JobInv', ExecuteJump
    PROVE  Jobs!Start(curr_process, Top.cmd)
<1> DEFINE c == Top.prev
           b == curr_process
           q == screen_num
<1>1. /\ mode = "kernel" /\ Top.at = "jump" /\ LaunchUnderWay /\ InKernel("jump")
      /\ pcb' = IF c = NULL THEN pcb ELSE Saved(c, esp)
      /\ mode' = "user" /\ run' = b
      /\ prog' = [prog EXCEPT ![b] = Top.cmd]
      /\ UNCHANGED screen_num
  BY DEF ExecuteJump, InKernel, LaunchUnderWay, Launching, Advance, termVars
<1>2. /\ JobTree /\ LaunchPlaced /\ LaunchDone
      /\ pcb \in [Pid -> Pcb] /\ Live \subseteq Pid
      /\ Term \subseteq Pid /\ NULL \notin Pid
      /\ q \in Term /\ prog \in [Pid -> Program \cup {NULL}]
      /\ b \in Pid \ Live
  BY <1>1, JobFacts DEF TypeInv, TypeOK, LaunchDone
<1>3. /\ ~pcb[b].child_flag /\ pcb[b].stdout = q
      /\ Top.cmd \in Program /\ (Top.cmd = Shell <=> b \in Term)
  BY <1>1, <1>2 DEF LaunchDone
<1>4. /\ Live' = Live \cup {b} /\ Born = Live \cup {b}
  BY <1>1, <1>2, <1>3, NullAssumption DEF Live, Born
<1>5. \A p \in Pid : /\ pcb'[p].child = pcb[p].child
                     /\ pcb'[p].child_flag = pcb[p].child_flag
  <2>1. \A p \in Pid : pcb[p] \in Pcb
    BY <1>2
  <2> QED
    BY <1>1, <1>2, <2>1 DEF Saved, Pcb
<1>6. ASSUME NEW t \in Term
      PROVE  JobsOn(t) = ShellAndCommand(t) /\ JobsOn(t)' = ShellAndCommand(t)'
  BY <1>1, JobsAre, JobsAreNext
<1>7. prog[b] = NULL
  BY <1>2 DEF Live
\* A shell is the first job of its terminal.
<1>8. CASE b \in Term
  <2>1. b = q /\ Top.cmd = Shell
    BY <1>2, <1>3, <1>4, <1>8 DEF JobTree
  <2>2. JobsOn(q) = <<>>
    BY <1>2, <1>6, <2>1 DEF ShellAndCommand
  <2>3. JobsOn(q)' = <<b>>
    BY <1>1, <1>2, <1>3, <1>4, <1>5, <1>6, <2>1 DEF ShellAndCommand
  <2>4. ASSUME NEW t \in Term \ {q} PROVE JobsOn(t)' = JobsOn(t)
    <3>1. t \in Live /\ pcb[t].child_flag => pcb[t].child # b
      BY <1>2, <1>4, <1>8 DEF JobTree
    <3>2. t \in Live' <=> t \in Live
      BY <1>4, <2>1
    <3>3. ShellAndCommand(t)' = ShellAndCommand(t)
      BY <1>2, <1>4, <1>5, <3>1, <3>2 DEF ShellAndCommand
    <3> QED
      BY <1>6, <3>3
  <2>5. JobsOn(q)' = Append(JobsOn(q), b)
    BY <1>2, <2>2, <2>3, FirstJob
  <2> QED
    BY <1>1, <1>2, <1>7, <2>1, <2>2, <2>4, <2>5 DEF Jobs!Start
\* A command is the job its terminal's shell has called.
<1>9. CASE b \notin Term
  <2>1. /\ q \in Live /\ pcb[b].parent = q /\ pcb[q].child_flag /\ pcb[q].child = b
    BY <1>2, <1>3, <1>4, <1>9 DEF JobTree
  <2>2. JobsOn(q) = <<q>>
    <3>1. ShellAndCommand(q) = <<q>>
      BY <1>2, <2>1 DEF ShellAndCommand
    <3> QED
      BY <1>2, <1>6, <3>1
  <2>3. JobsOn(q)' = Append(<<q>>, b)
    <3>1. ShellAndCommand(q)' = Append(<<q>>, b)
      BY <1>1, <1>2, <1>4, <1>5, <2>1 DEF ShellAndCommand
    <3> QED
      BY <1>1, <1>2, <1>6, <3>1
  <2>4. ASSUME NEW t \in Term \ {q} PROVE JobsOn(t)' = JobsOn(t)
    <3>1. t \in Live /\ pcb[t].child_flag => pcb[t].child # b
      BY <1>2, <1>4, <2>1 DEF JobTree
    <3>2. t \in Live' <=> t \in Live
      BY <1>4, <1>9
    <3>3. ShellAndCommand(t)' = ShellAndCommand(t)
      BY <1>2, <1>4, <1>5, <3>1, <3>2 DEF ShellAndCommand
    <3> QED
      BY <1>6, <3>3
  <2>5. prog[q] = Shell
    BY <1>2, <2>1 DEF JobTree
  <2>6. JobsOn(q) # <<>> /\ JobsOn(q)[Len(JobsOn(q))] = q
    BY <2>2
  <2> QED
    BY <1>1, <1>2, <1>7, <2>2, <2>3, <2>4, <2>5, <2>6 DEF Jobs!Start, Jobs!Newest
<1> QED
  BY <1>8, <1>9

\* A trap from user mode that is not a command's halt.
LEMMA EntryRefines ==
    ASSUME TypeInv, mode = "user", mode' # "user", UNCHANGED <<pcb, prog, screen_num>>
    PROVE  Jobs!EnterKernel
<1>1. run # NULL
  BY NullAssumption DEF TypeInv, TypeOK
<1>2. [t \in Term |-> JobsOn(t)]' = [t \in Term |-> JobsOn(t)]
  BY JobsSame
<1> QED
  BY <1>1, <1>2 DEF Jobs!EnterKernel

LEMMA CallRefines ==
    ASSUME TypeInv, NEW cmd \in Commands, ExecuteCall(cmd)
    PROVE  Jobs!EnterKernel
<1>1. mode = "user" /\ mode' # "user" /\ UNCHANGED <<pcb, prog, screen_num>>
  BY DEF ExecuteCall, Overflow, Stop, procVars, termVars
<1> QED
  BY <1>1, EntryRefines

LEMMA CommandEnds ==
    ASSUME NEW S, NEW x \in S, NEW y \in S, NEW s, NEW r,
           s = Append(<<x>>, y), r = <<x>>
    PROVE  Len(s) > 1 /\ r = SubSeq(s, 1, Len(s) - 1)
<1>1. Len(s) = 2 /\ SubSeq(s, 1, Len(s) - 1) = <<x>>
  BY CommandOnTop
<1> QED
  BY <1>1

\* halt ends a command and hands over to its shell.
LEMMA HaltRefines ==
    ASSUME TypeInv, SlotInv, JobInv, TypeInv', SlotInv', JobInv', Halt
    PROVE  Jobs!Finish \/ Jobs!EnterKernel
<1> DEFINE c == curr_process
           q == screen_num
           loc == Deeper(Base, 1)
           st == Put(stack, loc, Junk)
<1>1. mode = "user" /\ ~LaunchUnderWay /\ mode # "overflow"
  BY DEF Halt, LaunchUnderWay
<1>2. /\ JobTree /\ OthersWait /\ Caller = c /\ Born = Live
      /\ c \in Live /\ c \in Pid /\ run = c
      /\ pcb[c].stdout = q /\ ~pcb[c].child_flag
      /\ NULL \notin Pid /\ q \in Term /\ Live \subseteq Pid /\ Term \subseteq Pid
      /\ pcb \in [Pid -> Pcb]
      /\ prog \in [Pid -> Program \cup {NULL}]
  BY <1>1, SettledFacts, JobFacts DEF TypeInv, TypeOK
<1>3. CASE ~Fits(1) \/ c \in Term
  <2>1. c \in Term => pcb[c].parent = c /\ c # NULL
    BY <1>2 DEF JobTree
  <2>2. mode' # "user" /\ UNCHANGED <<pcb, prog, screen_num>>
    BY <1>3, <2>1 DEF Halt, Overflow, Stop, procVars, termVars
  <2> QED
    BY <1>1, <2>2, EntryRefines
<1>4. CASE Fits(1) /\ c \notin Term
  <2>1. /\ q \in Live /\ pcb[c].parent = q /\ q # c
        /\ pcb[q].child_flag /\ pcb[q].child = c /\ q # NULL
    BY <1>2, <1>4 DEF JobTree
  <2>2. /\ st \in Stacks /\ \A p \in Pid \ {c} : st[p] = stack[p]
    BY <1>1, <1>4, FrameLemma, EntryFacts
  <2> HIDE DEF st, loc
  <2>3. Resumable(st, pcb[q].k_sp)
    BY <1>2, <2>1, <2>2 DEF OthersWait, Waits, Resumable
  <2>4. /\ pcb' = [pcb EXCEPT ![q].child_flag = FALSE]
        /\ prog' = [prog EXCEPT ![c] = NULL]
        /\ mode' = "kernel" /\ UNCHANGED screen_num
    BY <1>4, <2>1, <2>3 DEF Halt, Resume, termVars, st, loc
  <2>5. /\ \A p \in Pid : pcb'[p].child = pcb[p].child
        /\ \A p \in Pid \ {q} : pcb'[p].child_flag = pcb[p].child_flag
        /\ ~pcb'[q].child_flag
    <3>1. \A p \in Pid : pcb[p] \in Pcb
      BY <1>2
    <3> QED
      BY <1>2, <2>1, <2>4, <3>1 DEF Pcb
  <2>6. Live' = Live \ {c}
    BY <1>2, <2>4 DEF Live
  <2>7. ASSUME NEW t \in Term
        PROVE  JobsOn(t) = ShellAndCommand(t) /\ JobsOn(t)' = ShellAndCommand(t)'
    BY <1>1, <2>4, JobsAre, JobsAreNext
  <2>8. JobsOn(q) = Append(<<q>>, c) /\ JobsOn(q)' = <<q>>
    <3>1. ShellAndCommand(q) = Append(<<q>>, c)
      BY <1>2, <2>1 DEF ShellAndCommand
    <3>2. ShellAndCommand(q)' = <<q>>
      BY <1>2, <2>1, <2>4, <2>5, <2>6 DEF ShellAndCommand
    <3> QED
      BY <1>2, <2>4, <2>7, <3>1, <3>2
  <2>9. ASSUME NEW t \in Term \ {q} PROVE JobsOn(t)' = JobsOn(t)
    <3>1. t \in Live /\ pcb[t].child_flag => pcb[t].child # c
      BY <1>2, <2>1 DEF JobTree
    <3>2. t \in Live' <=> t \in Live
      BY <1>4, <2>6
    <3>3. ShellAndCommand(t)' = ShellAndCommand(t)
      BY <1>2, <2>5, <2>6, <3>1, <3>2 DEF ShellAndCommand
    <3> QED
      BY <2>7, <3>3
  <2>10. /\ Len(JobsOn(q)) > 1
         /\ JobsOn(q)' = SubSeq(JobsOn(q), 1, Len(JobsOn(q)) - 1)
    BY <1>2, <2>8, CommandEnds
  <2> QED
    BY <1>1, <1>2, <2>4, <2>9, <2>10 DEF Jobs!Finish
<1> QED
  BY <1>3, <1>4

\* The keys of the terminals change the terminal on the screen and enter the
\* kernel, no more.
LEMMA KeyRefines ==
    ASSUME TypeInv, SlotInv, JobInv, TypeInv', SlotInv', JobInv', Discipline,
           NEW t \in Term, OpenTerminal(t) \/ SwitchTerminal(t)
    PROVE  Jobs!Switch(t)
<1>1. screen_num' = t /\ mode # "overflow" /\ mode' # "user"
  BY DEF OpenTerminal, SwitchTerminal, KeyAllowed, Discipline, InKernel, ContextSwitch,
         Resume, Lost, Overflow, Stop
<1>2. [s \in Term |-> JobsOn(s)]' = [s \in Term |-> JobsOn(s)]
  <2>1. CASE UNCHANGED <<pcb, prog>>
    BY <2>1, JobsSame
  <2>2. CASE ~UNCHANGED <<pcb, prog>>
    <3> DEFINE loc == Deeper(Base, 1)
               st == Put(stack, loc, KeyFrame("switched", screen_num, ReturnTo))
    <3>1. ContextSwitch(Target(t), loc, st)
      BY <2>2 DEF OpenTerminal, SwitchTerminal, Overflow, Stop, procVars
    <3> HIDE DEF loc, st
    <3>2. curr_process \in Pid /\ pcb \in [Pid -> Pcb] /\ Live \subseteq Pid
      <4>1. ~LaunchUnderWay /\ mode # "overflow"
        BY <1>1 DEF OpenTerminal, SwitchTerminal, KeyAllowed, Discipline,
           LaunchUnderWay, InKernel, Launching
      <4> QED
        BY <4>1, SettledFacts, JobFacts
    <3>3. pcb' = Saved(curr_process, loc) /\ UNCHANGED prog /\ mode' = "kernel"
      BY <2>2, <3>1 DEF ContextSwitch, Lost, Stop, procVars, Resume
    <3>4. \A p \in Pid : /\ pcb'[p].child = pcb[p].child
                         /\ pcb'[p].child_flag = pcb[p].child_flag
      <4>1. \A p \in Pid : pcb[p] \in Pcb
        BY <3>2
      <4> QED
        BY <3>2, <3>3, <4>1 DEF Saved, Pcb
    <3>5. Live' = Live
      BY <3>3 DEF Live
    <3> QED
      BY <1>1, <3>2, <3>3, <3>4, <3>5, JobsKept
  <2> QED
    BY <2>1, <2>2
<1>3. UNCHANGED prog
  BY DEF OpenTerminal, SwitchTerminal, Overflow, Stop, ContextSwitch, Lost
<1> QED
  BY <1>1, <1>2, <1>3 DEF Jobs!Switch

LEMMA NextRefines ==
    ASSUME TypeInv, SlotInv, JobInv, TypeInv', SlotInv', JobInv', Discipline,
           [Next]_vars
    PROVE  [Jobs!Next]_(Jobs!jobVars)
<1>1. CASE ExecuteAlloc \/ ExecuteCheck \/ ExecuteMap \/ ExecuteLoad \/ OpenContinue
  BY <1>1, KernelRefines
<1>2. CASE ExecuteInit
  BY <1>2, InitRefines
<1>3. CASE ExecuteJump
  <2>1. Jobs!Start(curr_process, Top.cmd)
    BY <1>3, JumpRefines
  <2>2. curr_process \in Pid /\ Top.cmd \in Program
    <3>1. InKernel("jump") /\ mode # "overflow"
      BY <1>3 DEF ExecuteJump, InKernel
    <3> QED
      BY <3>1, JobFacts DEF LaunchDone, TypeInv, TypeOK
  <2> QED
    BY <2>1, <2>2 DEF Jobs!Next
<1>4. CASE ExecuteReturn \/ KeyReturn
  <2>1. Jobs!GoOn \/ UNCHANGED Jobs!jobVars
    BY <1>4, LeaveRefines DEF ExecuteReturn, KeyReturn, InKernel
  <2> QED
    BY <2>1 DEF Jobs!Next
<1>5. CASE \E cmd \in Commands : ExecuteCall(cmd)
  <2>1. Jobs!EnterKernel
    BY <1>5, CallRefines
  <2> QED
    BY <2>1 DEF Jobs!Next
<1>6. CASE Halt
  <2>1. Jobs!Finish \/ Jobs!EnterKernel
    BY <1>6, HaltRefines
  <2> QED
    BY <2>1 DEF Jobs!Next
<1>7. CASE \E t \in Term : OpenTerminal(t) \/ SwitchTerminal(t)
  <2>1. \E t \in Term : Jobs!Switch(t)
    BY <1>7, KeyRefines
  <2> QED
    BY <2>1 DEF Jobs!Next
<1>8. CASE UNCHANGED vars
  <2>1. UNCHANGED <<pcb, prog, screen_num, mode, run>>
    BY <1>8 DEF vars, procVars, cpuVars, termVars
  <2>2. [t \in Term |-> JobsOn(t)]' = [t \in Term |-> JobsOn(t)]
    BY <2>1, JobsSame
  <2> QED
    BY <2>1, <2>2 DEF Jobs!jobVars
<1>9. DebugKeys = {}
  BY DEF Discipline
<1> QED
  BY <1>1, <1>2, <1>3, <1>4, <1>5, <1>6, <1>7, <1>8, <1>9 DEF Next, KernelStep

\* Under the same discipline process control implements TerminalJobs: execute,
\* halt, context_switch and the keyboard handler, cut into all their phases,
\* do to the stacks of jobs what the terminals promise and nothing else.
THEOREM JobsImplemented ==
    ASSUME Discipline
    PROVE  Spec => JobsSpec
<1>1. Init => Jobs!Init
  <2> SUFFICES ASSUME Init PROVE Jobs!Init
    OBVIOUS
  <2>1. prog = [p \in Pid |-> NULL] /\ mode = "kernel" /\ screen_num = 0 /\ Live = {}
    BY DEF Init, Live
  <2>2. \A t \in Term : JobsOn(t) = <<>>
    BY <2>1 DEF JobsOn, Roots
  <2> QED
    BY <2>1, <2>2 DEF Jobs!Init
<1>2. TypeInv /\ SlotInv /\ JobInv /\ (TypeInv /\ SlotInv /\ JobInv)' /\ [Next]_vars
        => [Jobs!Next]_(Jobs!jobVars)
  BY NextRefines
<1>3. Spec => [](TypeInv /\ SlotInv /\ JobInv)
  BY JobInvariant
<1> QED
  BY <1>1, <1>2, <1>3, PTL DEF Spec, JobsSpec, Jobs!Spec
=============================================================================
