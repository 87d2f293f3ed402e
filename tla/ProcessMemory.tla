--------------------------- MODULE ProcessMemory ---------------------------
(***************************************************************************)
(* What a process can reach in memory and what getargs tells it: the page  *)
(* directories and tables of paging.c, the CPU's cache of translations,    *)
(* vidmap, getargs and the parts of execute, halt and context_switch that  *)
(* touch them (systemcalls.c).                                             *)
(*                                                                         *)
(* Addresses are the kernel's own numbers.  Launching, halting and         *)
(* switching are one step each: how the kernel's stacks carry them out,    *)
(* and what a key in the middle of a launch does, is ProcessControl's      *)
(* part, and so is the slot that a failed launch leaves taken.  Of such a   *)
(* launch this module has what matters here: the argument string changes.  *)
(***************************************************************************)
EXTENDS Integers, Sequences

CONSTANTS
    NPROC,      \* process slots and page directories: 7 in the kernel
    NTERM,      \* terminals
    Programs,   \* the files that can be executed
    Shell,      \* the one that runs commands
    Arguments,  \* what may be typed behind a command's name
    NoArgs,     \* nothing was
    Pointers,   \* what a program may pass to vidmap
    Probes,     \* the addresses the model looks at
    Rules,      \* "latest", "prompt", "room": see below
    NULL

Pid == 0 .. NPROC - 1
Term == 0 .. NTERM - 1

ASSUME SizeAssumption == NPROC \in 1 .. 7 /\ NTERM \in 1 .. NPROC
ASSUME ProgramAssumption == Shell \in Programs /\ NoArgs \in Arguments
ASSUME AddressAssumption == Pointers \subseteq Nat /\ Probes \subseteq Nat
ASSUME NullAssumption ==
    /\ NULL \notin Programs \cup Arguments \cup Pid
    /\ NULL \notin [addr : Nat, to : Nat, user : BOOLEAN, global : BOOLEAN]

(* The rules.                                                              *)
(*   latest   only the process that was launched last calls vidmap         *)
(*   prompt   a program asks for its arguments once, before any other      *)
(*            command is started                                           *)
(*   room     nobody passes vidmap one of the page's last three addresses  *)
Rule(r) == r \in Rules

VARIABLES
    PD,         \* the page directories; entries not listed are absent
    PT,         \* the two page tables in use
    cur_PD,     \* the directory paging.c writes to
    cr3,        \* the directory the CPU translates with
    tlb,        \* the translations the CPU remembers
    PD_ptr,     \* the directory in each process's PCB
    jobs,       \* each terminal's processes, launcher below launched
    prog,       \* what each live process runs
    screen_num,
    args,       \* the string get_arg leaves and getargs reads
    given, told, \* each process's arguments; what getargs told it
    vidmapped,  \* the processes vidmap has said 0 to
    mode        \* "user", or "fault": the kernel spins in a handler

tables == <<PD, PT, cur_PD>>
processes == <<PD_ptr, jobs, prog, screen_num, given>>
answers == <<told, vidmapped>>
vars == <<tables, cr3, tlb, processes, args, answers, mode>>

-----------------------------------------------------------------------------
(* Addresses and entries. *)

Page == 4096
MB4 == 1024 * Page
VIDEO_MEM  == 184 * Page            \* 0xB8000
KERNEL_MEM == MB4                   \* 0x400000
USER_VID   == 31 * MB4 + 184 * Page \* 0x07CB8000
PGRM_IMG   == 32 * MB4 + 72 * Page  \* 0x08048000
_128MB     == 32 * MB4
PGRM_PAGE(i) == 2 * MB4 + i * MB4

get_PDE_offset(addr) == addr \div MB4
get_PTE_offset(addr) == (addr % MB4) \div Page

PDE_default == [present |-> FALSE, user |-> FALSE, global |-> FALSE,
                big |-> FALSE, base |-> 0]
Entry == [present : BOOLEAN, user : BOOLEAN, global : BOOLEAN,
          big : BOOLEAN, base : Nat]
Mapped(base, user, global, big) ==
    [present |-> TRUE, user |-> user, global |-> global, big |-> big,
     base |-> base]

Slots == {get_PDE_offset(a) : a \in {VIDEO_MEM, KERNEL_MEM, USER_VID, PGRM_IMG}}

\* The CPU's walk through directory d for addr: NULL, or where it leads and
\* who may follow.  A small entry's base is the number of a table, and only
\* the last entry of a walk says whether the translation outlives CR3.
Walk(d, addr) ==
    LET pde == IF get_PDE_offset(addr) \in Slots
                 THEN PD[d][get_PDE_offset(addr)] ELSE PDE_default
        pte == IF get_PTE_offset(addr) = get_PTE_offset(VIDEO_MEM)
                 THEN PT[pde.base] ELSE PDE_default
    IN IF ~pde.present THEN NULL
       ELSE IF pde.big
         THEN [addr |-> addr, to |-> pde.base + (addr % MB4),
               user |-> pde.user, global |-> pde.global]
       ELSE IF ~pte.present THEN NULL
         ELSE [addr |-> addr, to |-> pte.base + (addr % Page),
               user |-> pde.user /\ pte.user, global |-> pte.global]

\* What the CPU may use for addr: what it remembers or what a walk finds.
Translations(d, cache, addr) ==
    {t \in cache : t.addr = addr} \cup ({Walk(d, addr)} \ {NULL})

\* Loading CR3 forgets all but the global translations; INVLPG one page.
FlushNothing(cache) == cache    \* slip: the directory is not reloaded
Flushed(cache) == {t \in cache : t.global}
Without(cache, addr) == {t \in cache : t.addr \div Page # addr \div Page}

-----------------------------------------------------------------------------
(* init_paging, and the first shell.                                       *)

init_PD ==
    [s \in Slots |->
        IF s = get_PDE_offset(VIDEO_MEM) THEN Mapped(0, FALSE, TRUE, FALSE)
        ELSE IF s = get_PDE_offset(KERNEL_MEM)
          THEN Mapped(KERNEL_MEM, FALSE, TRUE, TRUE)
        ELSE PDE_default]
init_VIDEO_PT ==
    [i \in {0, 1} |-> IF i = 0 THEN Mapped(VIDEO_MEM, FALSE, TRUE, FALSE)
                               ELSE PDE_default]

\* map_4MB_page(PGRM_IMG, PGRM_PAGE[PID], 1, 1) in PID's directory.
map_4MB_page(pds, p) ==
    [pds EXCEPT ![p][get_PDE_offset(PGRM_IMG)] =
        Mapped(PGRM_PAGE(p), TRUE, FALSE, TRUE)]

Init ==
    /\ PD = map_4MB_page([p \in Pid |-> init_PD], 0) /\ PT = init_VIDEO_PT
    /\ cur_PD = 0 /\ cr3 = 0 /\ tlb = {}
    /\ PD_ptr = [p \in Pid |-> IF p = 0 THEN 0 ELSE NULL]
    /\ jobs = [t \in Term |-> IF t = 0 THEN <<0>> ELSE <<>>]
    /\ prog = [p \in Pid |-> IF p = 0 THEN Shell ELSE NULL]
    /\ screen_num = 0
    /\ args = NoArgs /\ given = [p \in Pid |-> IF p = 0 THEN NoArgs ELSE NULL]
    /\ told = [p \in Pid |-> NULL] /\ vidmapped = {} /\ mode = "user"

-----------------------------------------------------------------------------
(* Launching, halting, switching. *)

Live == {p \in Pid : prog[p] # NULL}
Running(t) == jobs[t][Len(jobs[t])]
curr_process == Running(screen_num)

\* parse and get_arg: the string is the new command's, whatever becomes of it.
KeptWhenBare(rest) == IF rest = NoArgs THEN args ELSE rest  \* slip
get_arg(rest) == rest

\* execute(file rest) for terminal t, on the lowest free slot: task_mem_init,
\* program_load, the new PCB.
task_mem_init(p) ==
    /\ cur_PD' = p /\ PD' = map_4MB_page(PD, p)
    /\ cr3' = p /\ tlb' = Flushed(tlb)
    /\ UNCHANGED PT

\* The new PCB keeps the directory halt and context_switch will load.
NewPcb(p) == [PD_ptr EXCEPT ![p] = p]

Execute(t, file, rest) ==
    /\ args' = get_arg(rest)
    /\ IF Pid \subseteq Live \/ file \notin Programs
         THEN UNCHANGED <<tables, cr3, tlb, processes, answers>>
         ELSE \E p \in Pid \ Live :
            /\ \A q \in Pid \ Live : p <= q
            /\ task_mem_init(p)
            /\ PD_ptr' = NewPcb(p)
            /\ jobs' = [jobs EXCEPT ![t] = Append(@, p)]
            /\ prog' = [prog EXCEPT ![p] = file]
            /\ given' = [given EXCEPT ![p] = rest]
            /\ told' = [told EXCEPT ![p] = NULL]
            /\ vidmapped' = vidmapped \ {p}
            /\ screen_num' = t

Unanswered == {p \in Live : prog[p] # Shell /\ told[p] = NULL}

\* A shell runs a command.
Command(file, rest) ==
    /\ mode = "user" /\ prog[curr_process] = Shell
    /\ Rule("prompt") => Unanswered = {}
    /\ Execute(screen_num, file, rest)
    /\ UNCHANGED mode

\* Alt-F2 or Alt-F3 for the first time.
OpenTerminal(t) ==
    /\ mode = "user" /\ jobs[t] = <<>> /\ ~(Pid \subseteq Live)
    /\ Rule("prompt") => Unanswered = {}
    /\ Execute(t, Shell, NoArgs)
    /\ UNCHANGED mode

\* halt and context_switch load CR3 from the other process's PCB, and leave
\* cur_PD alone.
LoadPages(p) == cr3' = PD_ptr[p] /\ tlb' = Flushed(tlb)

\* halt; a terminal's first shell spins instead and reaches no other memory.
Halt ==
    LET p == curr_process
        parent == jobs[screen_num][Len(jobs[screen_num]) - 1]
    IN /\ mode = "user" /\ Len(jobs[screen_num]) > 1
       /\ LoadPages(parent)
       /\ jobs' = [jobs EXCEPT ![screen_num] = SubSeq(@, 1, Len(@) - 1)]
       /\ prog' = [prog EXCEPT ![p] = NULL]
       /\ UNCHANGED <<tables, PD_ptr, screen_num, given, args, answers, mode>>

SwitchTerminal(t) ==
    /\ mode = "user" /\ t # screen_num /\ jobs[t] # <<>>
    /\ LoadPages(Running(t))
    /\ screen_num' = t
    /\ UNCHANGED <<tables, PD_ptr, jobs, prog, given, args, answers, mode>>

-----------------------------------------------------------------------------
(* The system calls of a program. *)

GetArgs ==
    LET p == curr_process IN
    /\ mode = "user" /\ prog[p] # Shell
    /\ Rule("prompt") => told[p] = NULL
    /\ told' = [told EXCEPT ![p] = args]
    /\ UNCHANGED <<tables, cr3, tlb, processes, args, vidmapped, mode>>

\* user_vidmap: the table entry once for all, the directory entry in cur_PD.
UserVideoGlobal == Mapped(VIDEO_MEM, TRUE, TRUE, FALSE)     \* slip
UserVideo == Mapped(VIDEO_MEM, TRUE, FALSE, FALSE)
OnlyWithTable(pds) ==       \* slip: both entries under the first test
    IF PT[1].present THEN pds
    ELSE [pds EXCEPT ![cur_PD][get_PDE_offset(USER_VID)] =
             Mapped(1, TRUE, FALSE, FALSE)]
VideoDirectory(pds) ==
    IF pds[cur_PD][get_PDE_offset(USER_VID)].present THEN pds
    ELSE [pds EXCEPT ![cur_PD][get_PDE_offset(USER_VID)] =
             Mapped(1, TRUE, FALSE, FALSE)]

InclusiveEnd(ptr) == ptr >= _128MB /\ ptr <= _128MB + MB4  \* slip
InProgramPage(ptr) == ptr >= _128MB /\ ptr < _128MB + MB4

\* vidmap: a pointer outside the program's page is refused; the kernel
\* faults if the four bytes of the result do not all lie in it.
Vidmap(ptr) ==
    LET p == curr_process IN
    /\ mode = "user" /\ prog[p] # Shell
    /\ Rule("latest") => p = cur_PD
    /\ Rule("room") => _128MB + MB4 - ptr \notin 1 .. 3
    /\ IF ~InProgramPage(ptr) THEN UNCHANGED <<PD, PT, tlb, vidmapped, mode>>
       ELSE /\ PT' = IF PT[1].present THEN PT ELSE [PT EXCEPT ![1] = UserVideo]
            /\ PD' = VideoDirectory(PD)
            /\ tlb' = Without(tlb, USER_VID)
            /\ IF Walk(cr3, ptr) # NULL /\ Walk(cr3, ptr + 3) # NULL
                 THEN vidmapped' = vidmapped \cup {p} /\ UNCHANGED mode
                 ELSE mode' = "fault" /\ UNCHANGED vidmapped
    /\ UNCHANGED <<cur_PD, cr3, processes, args, told>>

\* The CPU follows the current directory and remembers what it finds, for
\* the running code or for the kernel in its name.
Remember(addr) ==
    /\ mode = "user"
    /\ Walk(cr3, addr) # NULL
    /\ tlb' = tlb \cup {Walk(cr3, addr)}
    /\ UNCHANGED <<tables, cr3, processes, args, answers, mode>>

Next ==
    \/ \E file \in Programs \cup {NULL}, rest \in Arguments : Command(file, rest)
    \/ \E t \in Term : OpenTerminal(t) \/ SwitchTerminal(t)
    \/ Halt \/ GetArgs
    \/ \E ptr \in Pointers : Vidmap(ptr)
    \/ \E addr \in Probes : Remember(addr)

Spec == Init /\ [][Next]_vars

-----------------------------------------------------------------------------
(* What makes memory correct. *)

Translation == [addr : Probes, to : Nat, user : BOOLEAN, global : BOOLEAN]

\* Every variable has its type; a table entry never points behind the pages
\* the kernel hands out.
TypeOK ==
    /\ PD \in [Pid -> [Slots -> Entry]] /\ PT \in [{0, 1} -> Entry]
    /\ cur_PD \in Pid /\ cr3 \in Pid /\ \A t \in tlb : t \in Translation
    /\ PD_ptr \in [Pid -> Pid \cup {NULL}]
    /\ jobs \in [Term -> Seq(Pid)]
    /\ prog \in [Pid -> Programs \cup {NULL}] /\ screen_num \in Term
    /\ args \in Arguments /\ given \in [Pid -> Arguments \cup {NULL}]
    /\ told \in [Pid -> Arguments \cup {NULL}]
    /\ vidmapped \subseteq Pid /\ mode \in {"user", "fault"}

OwnPage(p) == PGRM_PAGE(p) .. PGRM_PAGE(p) + MB4 - 1
VideoPage == VIDEO_MEM .. VIDEO_MEM + Page - 1

\* Whatever address user code tries, what the CPU finds for it, in the tables
\* or in its cache, lies in the running process's own four megabytes or in
\* video memory: no kernel memory and no other process's page.
Isolated ==
    \A addr \in Probes : \A t \in Translations(cr3, tlb, addr) :
        t.user => t.to \in OwnPage(curr_process) \/ t.to \in VideoPage

\* What the CPU remembers is what the tables of the process that runs say now:
\* no switch, command or vidmap leaves a translation of the past behind.
NoStaleTranslation == \A t \in tlb : t = Walk(cr3, t.addr)

\* Once vidmap has said 0 to a process, the address it was given leads it to
\* video memory whenever it runs, across switches, commands and halts.
VidmapLasts ==
    curr_process \in vidmapped =>
        LET ts == Translations(cr3, tlb, USER_VID)
        IN ts # {} /\ \A t \in ts : t.user /\ t.to = VIDEO_MEM

\* getargs tells every process what was typed behind its own name.
ArgsAreOwn == \A p \in Live : told[p] # NULL => told[p] = given[p]

\* The range vidmap checks lets no pointer through at which its own store of
\* the result faults, the last three addresses of the page apart.
ResultFits == mode = "user"
=============================================================================
