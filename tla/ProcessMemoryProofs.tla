------------------------ MODULE ProcessMemoryProofs ------------------------
(***************************************************************************)
(* Proofs about ProcessMemory, for every number of slots the kernel has    *)
(* pages for, every number of terminals, set of programs and of arguments, *)
(* and for every address, not only the probed ones the runs look at.       *)
(***************************************************************************)
EXTENDS ProcessMemory, TLAPS

(* The pages' places in directories and tables.                            *)
LEMMA Offsets ==
    /\ get_PDE_offset(VIDEO_MEM) = 0  /\ get_PDE_offset(KERNEL_MEM) = 1
    /\ get_PDE_offset(USER_VID) = 31  /\ get_PDE_offset(PGRM_IMG) = 32
    /\ get_PTE_offset(VIDEO_MEM) = 184 /\ get_PTE_offset(USER_VID) = 184
    /\ Slots = {0, 1, 31, 32}
  BY SMT DEF get_PDE_offset, get_PTE_offset, VIDEO_MEM, KERNEL_MEM, USER_VID,
             PGRM_IMG, Slots, Page, MB4

LEMMA Numbers ==
    /\ KERNEL_MEM = MB4 /\ VIDEO_MEM = 184 * Page /\ MB4 = 1024 * Page
    /\ Page \in Nat /\ Page > 4
    /\ _128MB = 32 * MB4 /\ USER_VID = 31 * MB4 + VIDEO_MEM
    /\ \A p \in Pid : PGRM_PAGE(p) = (2 + p) * MB4 /\ PGRM_PAGE(p) \in Nat
  BY SizeAssumption, SMT
     DEF Page, MB4, VIDEO_MEM, KERNEL_MEM, _128MB, USER_VID, PGRM_PAGE, Pid

LEMMA Division ==
  ASSUME NEW a \in Nat
  PROVE  /\ a \div MB4 \in Nat /\ a % MB4 \in 0 .. MB4 - 1
         /\ a % Page \in 0 .. Page - 1
         /\ a = MB4 * (a \div MB4) + (a % MB4)
<1>1. ASSUME NEW n \in Nat \ {0}
      PROVE  a \div n \in Nat /\ a % n \in 0 .. n - 1 /\ a = n * (a \div n) + (a % n)
  OBVIOUS
<1>2. MB4 \in Nat \ {0} /\ Page \in Nat \ {0}
  BY SMT DEF MB4, Page
<1> QED
  BY <1>1, <1>2

-----------------------------------------------------------------------------
(* What a walk finds, as a function of one directory and the tables.        *)

LowVideo == Mapped(VIDEO_MEM, FALSE, TRUE, FALSE)
LowTable == Mapped(0, FALSE, TRUE, FALSE)
KernelPage == Mapped(KERNEL_MEM, FALSE, TRUE, TRUE)
VideoTable == Mapped(1, TRUE, FALSE, FALSE)
ImagePage(p) == Mapped(PGRM_PAGE(p), TRUE, FALSE, TRUE)

(* Directories and tables the kernel makes.                                *)
Directories(p) ==
    {r \in [Slots -> Entry] :
        /\ r[0] = LowTable /\ r[1] = KernelPage
        /\ r[31] \in {PDE_default, VideoTable}
        /\ r[32] \in {PDE_default, ImagePage(p)}}
Tables == {t \in [{0, 1} -> Entry] :
              t[0] = LowVideo /\ t[1] \in {PDE_default, UserVideo}}

Found == [addr : Nat, to : Nat, user : BOOLEAN, global : BOOLEAN]
At(a, to, user, global) == [addr |-> a, to |-> to, user |-> user, global |-> global]

Path(r, t, a) ==
    LET pde == IF get_PDE_offset(a) \in Slots THEN r[get_PDE_offset(a)]
                                              ELSE PDE_default
        pte == IF get_PTE_offset(a) = get_PTE_offset(VIDEO_MEM)
                 THEN t[pde.base] ELSE PDE_default
    IN IF ~pde.present THEN NULL
       ELSE IF pde.big
         THEN At(a, pde.base + (a % MB4), pde.user, pde.global)
       ELSE IF ~pte.present THEN NULL
         ELSE At(a, pte.base + (a % Page), pde.user /\ pte.user, pte.global)

LEMMA WalkIsPath == \A d, a : Walk(d, a) = Path(PD[d], PT, a)
  BY DEF Walk, Path, At

(* A walk that ends in a page of four megabytes, and one through a table   *)
(* that user code may not use.                                             *)
LEMMA BigPath ==
  ASSUME NEW r, NEW t, NEW a, NEW s \in Slots, s = get_PDE_offset(a),
         r[s].present, r[s].big
  PROVE  Path(r, t, a) = At(a, r[s].base + (a % MB4), r[s].user, r[s].global)
  BY DEF Path

LEMMA KernelPath ==
  ASSUME NEW r, NEW t, NEW a, NEW s \in Slots, s = get_PDE_offset(a),
         r[s].present, ~r[s].big, NEW f, f = t[r[s].base], f.present,
         get_PTE_offset(a) = get_PTE_offset(VIDEO_MEM),
         ~r[s].user, r[s].user \in BOOLEAN
  PROVE  Path(r, t, a) = At(a, f.base + (a % Page), r[s].user, f.global)
<1>1. (r[s].user /\ f.user) = r[s].user
  OBVIOUS
<1> QED
  BY <1>1 DEF Path

LEMMA Fields ==
    /\ ~PDE_default.present
    /\ LowTable.present /\ ~LowTable.big /\ LowTable.base = 0
    /\ LowTable.user = FALSE
    /\ LowVideo.present /\ LowVideo.base = VIDEO_MEM
    /\ LowVideo.user = FALSE /\ LowVideo.global = TRUE
    /\ KernelPage.present /\ KernelPage.big /\ KernelPage.base = KERNEL_MEM
    /\ KernelPage.user = FALSE /\ KernelPage.global = TRUE
    /\ VideoTable.present /\ ~VideoTable.big /\ VideoTable.base = 1
    /\ VideoTable.user = TRUE
    /\ UserVideo.present /\ UserVideo.base = VIDEO_MEM
    /\ UserVideo.user = TRUE /\ UserVideo.global = FALSE
  BY DEF PDE_default, LowTable, LowVideo, KernelPage, VideoTable, UserVideo, Mapped

LEMMA ImageFields ==
  ASSUME NEW p
  PROVE  /\ ImagePage(p).present /\ ImagePage(p).big
         /\ ImagePage(p).base = PGRM_PAGE(p)
         /\ ImagePage(p).user = TRUE /\ ImagePage(p).global = FALSE
  BY DEF ImagePage, Mapped

(* The directory entries an address can have, and what a walk finds there. *)
LEMMA EntryOf ==
  ASSUME NEW p \in Pid, NEW r \in Directories(p), NEW s \in Slots
  PROVE  \/ s = 0 /\ r[s] = LowTable
         \/ s = 1 /\ r[s] = KernelPage
         \/ s = 31 /\ r[s] \in {PDE_default, VideoTable}
         \/ s = 32 /\ r[s] \in {PDE_default, ImagePage(p)}
  BY Offsets DEF Directories

LEMMA NoEntryPath ==
  ASSUME NEW r, NEW t, NEW a,
         get_PDE_offset(a) \notin Slots \/ r[get_PDE_offset(a)] = PDE_default
  PROVE  Path(r, t, a) = NULL
  BY Fields DEF Path

LEMMA NoPagePath ==
  ASSUME NEW r, NEW t, NEW a, NEW s \in Slots, s = get_PDE_offset(a),
         NEW e, r[s] = e, ~e.big,
         \/ get_PTE_offset(a) # get_PTE_offset(VIDEO_MEM)
         \/ t[e.base] = PDE_default
  PROVE  Path(r, t, a) = NULL
  BY Fields DEF Path

LEMMA LowPath ==
  ASSUME NEW r, NEW t \in Tables, NEW a, NEW s \in Slots, s = get_PDE_offset(a),
         r[s] = LowTable, get_PTE_offset(a) = get_PTE_offset(VIDEO_MEM)
  PROVE  Path(r, t, a) = At(a, VIDEO_MEM + (a % Page), FALSE, TRUE)
<1>1. t[0] = LowVideo /\ LowTable.base = 0
  BY Fields DEF Tables
<1>2. t[r[s].base] = LowVideo
  BY <1>1
<1>3. /\ r[s].present /\ ~r[s].big /\ ~r[s].user /\ LowVideo.present
      /\ r[s].user \in BOOLEAN
  BY Fields
<1>4. Path(r, t, a) = At(a, LowVideo.base + (a % Page), r[s].user, LowVideo.global)
  BY <1>2, <1>3, KernelPath
<1> QED
  BY <1>4, Fields

LEMMA KernelCodePath ==
  ASSUME NEW r, NEW t, NEW a, NEW s \in Slots, s = get_PDE_offset(a),
         r[s] = KernelPage
  PROVE  Path(r, t, a) = At(a, KERNEL_MEM + (a % MB4), FALSE, TRUE)
<1>1. Path(r, t, a) = At(a, r[s].base + (a % MB4), r[s].user, r[s].global)
  BY Fields, BigPath
<1> QED
  BY <1>1, Fields

LEMMA VideoPath ==
  ASSUME NEW r, NEW t, NEW a, NEW s \in Slots, s = get_PDE_offset(a),
         r[s] = VideoTable, t[1] = UserVideo,
         get_PTE_offset(a) = get_PTE_offset(VIDEO_MEM)
  PROVE  Path(r, t, a) = At(a, VIDEO_MEM + (a % Page), TRUE, FALSE)
<1>1. t[r[s].base] = UserVideo
  BY Fields
<1>2. (VideoTable.user /\ UserVideo.user) = UserVideo.user
  BY Fields
<1>3. Path(r, t, a) = At(a, UserVideo.base + (a % Page),
                         VideoTable.user /\ UserVideo.user, UserVideo.global)
  BY <1>1, Fields DEF Path
<1> QED
  BY <1>2, <1>3, Fields

LEMMA ImagePath ==
  ASSUME NEW p, NEW r, NEW t, NEW a, NEW s \in Slots, s = get_PDE_offset(a),
         r[s] = ImagePage(p)
  PROVE  Path(r, t, a) = At(a, PGRM_PAGE(p) + (a % MB4), TRUE, FALSE)
<1>1. r[s].present /\ r[s].big
  BY ImageFields
<1>2. Path(r, t, a) = At(a, r[s].base + (a % MB4), r[s].user, r[s].global)
  BY <1>1, BigPath
<1> QED
  BY <1>2, ImageFields

(* What a walk finds has the address asked for; what user code may use lies *)
(* in the process's page or in video memory; and what outlives CR3 is found *)
(* alike in every directory.                                               *)
LEMMA PathFound ==
  ASSUME NEW p \in Pid, NEW r \in Directories(p), NEW t \in Tables, NEW a \in Nat,
         Path(r, t, a) # NULL
  PROVE  /\ Path(r, t, a) \in Found
         /\ Path(r, t, a).addr = a
         /\ Path(r, t, a).user =>
              Path(r, t, a).to \in OwnPage(p) \/ Path(r, t, a).to \in VideoPage
         /\ Path(r, t, a).global => get_PDE_offset(a) \in {0, 1}
<1>1. a % MB4 \in 0 .. MB4 - 1 /\ a % Page \in 0 .. Page - 1
  BY Division
<1>2. MB4 \in Nat /\ Page \in Nat /\ VIDEO_MEM \in Nat /\ KERNEL_MEM \in Nat
      /\ PGRM_PAGE(p) \in Nat
  BY Numbers
<1>3. PICK s \in Slots : s = get_PDE_offset(a)
  BY NoEntryPath
<1>4. r[s] # PDE_default
  BY <1>3, NoEntryPath
<1>5. CASE s = 0 /\ r[s] = LowTable
  <2>1. get_PTE_offset(a) = get_PTE_offset(VIDEO_MEM)
    BY <1>3, <1>5, Fields, NoPagePath
  <2>2. Path(r, t, a) = At(a, VIDEO_MEM + (a % Page), FALSE, TRUE)
    BY <1>3, <1>5, <2>1, LowPath
  <2>3. VIDEO_MEM + (a % Page) \in Nat
    BY <1>1, <1>2
  <2> QED
    BY <2>2, <2>3, <1>3, <1>5 DEF At, Found
<1>6. CASE s = 1 /\ r[s] = KernelPage
  <2>1. Path(r, t, a) = At(a, KERNEL_MEM + (a % MB4), FALSE, TRUE)
    BY <1>3, <1>6, KernelCodePath
  <2>2. KERNEL_MEM + (a % MB4) \in Nat
    BY <1>1, <1>2
  <2> QED
    BY <2>1, <2>2, <1>3, <1>6 DEF At, Found
<1>7. CASE r[s] = VideoTable
  <2>1. get_PTE_offset(a) = get_PTE_offset(VIDEO_MEM) /\ t[1] = UserVideo
    BY <1>3, <1>7, Fields, NoPagePath DEF Tables
  <2>2. Path(r, t, a) = At(a, VIDEO_MEM + (a % Page), TRUE, FALSE)
    BY <1>3, <1>7, <2>1, VideoPath
  <2>3. VIDEO_MEM + (a % Page) \in VideoPage /\ VIDEO_MEM + (a % Page) \in Nat
    BY <1>1, <1>2 DEF VideoPage
  <2> QED
    BY <2>2, <2>3 DEF At, Found
<1>8. CASE r[s] = ImagePage(p)
  <2>1. Path(r, t, a) = At(a, PGRM_PAGE(p) + (a % MB4), TRUE, FALSE)
    BY <1>3, <1>8, ImagePath
  <2>2. PGRM_PAGE(p) + (a % MB4) \in OwnPage(p) /\ PGRM_PAGE(p) + (a % MB4) \in Nat
    BY <1>1, <1>2 DEF OwnPage
  <2> QED
    BY <2>1, <2>2 DEF At, Found
<1> QED
  BY <1>4, <1>5, <1>6, <1>7, <1>8, EntryOf

LEMMA GlobalPath ==
  ASSUME NEW p \in Pid, NEW r \in Directories(p), NEW t \in Tables,
         NEW q \in Pid, NEW w \in Directories(q), NEW v \in Tables,
         NEW a \in Nat, NEW s, s = get_PDE_offset(a), s = 0 \/ s = 1
  PROVE  Path(w, v, a) = Path(r, t, a)
<1>1. s \in Slots
  BY Offsets
<1>2. CASE s = 0
  <2>1. r[s] = LowTable /\ w[s] = LowTable
    BY <1>1, <1>2, EntryOf
  <2>2. CASE get_PTE_offset(a) = get_PTE_offset(VIDEO_MEM)
    <3>1. Path(r, t, a) = At(a, VIDEO_MEM + (a % Page), FALSE, TRUE)
      BY <1>1, <2>1, <2>2, LowPath
    <3>2. Path(w, v, a) = At(a, VIDEO_MEM + (a % Page), FALSE, TRUE)
      BY <1>1, <2>1, <2>2, LowPath
    <3> QED
      BY <3>1, <3>2
  <2>3. CASE get_PTE_offset(a) # get_PTE_offset(VIDEO_MEM)
    BY <1>1, <2>1, <2>3, Fields, NoPagePath
  <2> QED
    BY <2>2, <2>3
<1>3. CASE s = 1
  <2>1. r[s] = KernelPage /\ w[s] = KernelPage
    BY <1>1, <1>3, EntryOf
  <2> QED
    BY <1>1, <2>1, KernelCodePath
<1> QED
  BY <1>2, <1>3

-----------------------------------------------------------------------------
(* The processes and what they run.                                        *)

Nested(t) == \A i \in 1 .. Len(jobs[t]) : prog[jobs[t][i]] # NULL
Apart(t, u) == \A i \in 1 .. Len(jobs[t]), j \in 1 .. Len(jobs[u]) :
                 jobs[t][i] = jobs[u][j] => t = u /\ i = j

JobsInv ==
    /\ jobs \in [Term -> Seq(Pid)] /\ screen_num \in Term
    /\ prog \in [Pid -> Programs \cup {NULL}]
    /\ args \in Arguments /\ given \in [Pid -> Arguments \cup {NULL}]
    /\ told \in [Pid -> Arguments \cup {NULL}]
    /\ jobs[screen_num] # <<>>
    /\ \A t \in Term : Nested(t)
    /\ \A t, u \in Term : Apart(t, u)

LEMMA RunningLive ==
  ASSUME JobsInv
  PROVE  /\ curr_process \in Pid /\ prog[curr_process] # NULL
         /\ curr_process \in Live
         /\ Len(jobs[screen_num]) \in Nat \ {0}
         /\ curr_process = jobs[screen_num][Len(jobs[screen_num])]
<1>1. jobs[screen_num] \in Seq(Pid) /\ jobs[screen_num] # <<>>
  BY DEF JobsInv
<1>2. Len(jobs[screen_num]) \in Nat \ {0}
  BY <1>1
<1>3. curr_process = jobs[screen_num][Len(jobs[screen_num])]
  BY DEF curr_process, Running
<1>4. curr_process \in Pid
  BY <1>1, <1>2, <1>3
<1>5. prog[curr_process] # NULL
  BY <1>2, <1>3 DEF JobsInv, Nested
<1> QED
  BY <1>2, <1>3, <1>4, <1>5 DEF Live

(* Launching: nothing but the string changes, or the new process is added. *)
Added(t, p, file, rest) ==
    /\ PD' = [PD EXCEPT ![p][get_PDE_offset(PGRM_IMG)] = ImagePage(p)]
    /\ PT' = PT /\ cur_PD' = p /\ cr3' = p /\ tlb' = Flushed(tlb)
    /\ PD_ptr' = [PD_ptr EXCEPT ![p] = p]
    /\ jobs' = [jobs EXCEPT ![t] = Append(@, p)]
    /\ prog' = [prog EXCEPT ![p] = file]
    /\ given' = [given EXCEPT ![p] = rest]
    /\ told' = [told EXCEPT ![p] = NULL]
    /\ vidmapped' = vidmapped \ {p}
    /\ screen_num' = t

LEMMA ExecuteCases ==
  ASSUME NEW t, NEW file, NEW rest, Execute(t, file, rest)
  PROVE  /\ args' = rest
         /\ \/ UNCHANGED <<tables, cr3, tlb, processes, answers>>
            \/ /\ file \in Programs
               /\ \E p \in Pid : prog[p] = NULL /\ Added(t, p, file, rest)
<1>1. args' = rest
  BY DEF Execute, get_arg
<1>2. CASE Pid \subseteq Live \/ file \notin Programs
  BY <1>1, <1>2 DEF Execute
<1>3. CASE ~(Pid \subseteq Live \/ file \notin Programs)
  <2>1. PICK p \in Pid \ Live :
          /\ task_mem_init(p) /\ PD_ptr' = NewPcb(p)
          /\ jobs' = [jobs EXCEPT ![t] = Append(@, p)]
          /\ prog' = [prog EXCEPT ![p] = file]
          /\ given' = [given EXCEPT ![p] = rest]
          /\ told' = [told EXCEPT ![p] = NULL]
          /\ vidmapped' = vidmapped \ {p}
          /\ screen_num' = t
    BY <1>3 DEF Execute
  <2>2. Added(t, p, file, rest)
    BY <2>1 DEF Added, task_mem_init, map_4MB_page, ImagePage, NewPcb
  <2> QED
    BY <1>1, <1>3, <2>1, <2>2 DEF Live
<1> QED
  BY <1>2, <1>3

LEMMA AddJob ==
  ASSUME JobsInv, NEW t \in Term, NEW p \in Pid, NEW file \in Programs,
         NEW rest \in Arguments, prog[p] = NULL, Added(t, p, file, rest),
         args' = rest
  PROVE  JobsInv'
<1>1. jobs[t] \in Seq(Pid) /\ Len(jobs[t]) \in Nat
  BY DEF JobsInv
<1>2. /\ jobs' \in [Term -> Seq(Pid)]
      /\ jobs'[t] = Append(jobs[t], p)
      /\ \A u \in Term \ {t} : jobs'[u] = jobs[u]
  BY <1>1 DEF JobsInv, Added
<1>3. /\ Len(jobs'[t]) = Len(jobs[t]) + 1
      /\ jobs'[t][Len(jobs[t]) + 1] = p
      /\ \A i \in 1 .. Len(jobs[t]) : jobs'[t][i] = jobs[t][i]
  BY <1>1, <1>2
<1>4. prog'[p] # NULL /\ \A q \in Pid \ {p} : prog'[q] = prog[q]
  BY NullAssumption DEF JobsInv, Added
<1>5. \A u \in Term : \A i \in 1 .. Len(jobs[u]) :
        jobs[u][i] \in Pid /\ jobs[u][i] # p /\ prog[jobs[u][i]] # NULL
  BY DEF JobsInv, Nested
<1>6. \A u \in Term : Nested(u)'
  <2> SUFFICES ASSUME NEW u \in Term, NEW i \in 1 .. Len(jobs'[u])
               PROVE  prog'[jobs'[u][i]] # NULL
    BY DEF Nested
  <2>1. CASE u = t /\ i = Len(jobs[t]) + 1
    BY <2>1, <1>3, <1>4
  <2>2. CASE u = t /\ i # Len(jobs[t]) + 1
    <3>1. i \in 1 .. Len(jobs[t])
      BY <2>2, <1>1, <1>3
    <3> QED
      BY <2>2, <3>1, <1>3, <1>4, <1>5
  <2>3. CASE u # t
    BY <2>3, <1>2, <1>4, <1>5
  <2> QED
    BY <2>1, <2>2, <2>3
<1>7. \A u, v \in Term : Apart(u, v)'
  <2> SUFFICES ASSUME NEW u \in Term, NEW v \in Term, NEW i \in 1 .. Len(jobs'[u]),
                      NEW j \in 1 .. Len(jobs'[v]), jobs'[u][i] = jobs'[v][j]
               PROVE  u = v /\ i = j
    BY DEF Apart
  <2> DEFINE Top(w, k) == w = t /\ k = Len(jobs[t]) + 1
  <2>1. \A w \in Term : \A k \in 1 .. Len(jobs'[w]) :
          \/ Top(w, k) /\ jobs'[w][k] = p
          \/ ~Top(w, k) /\ k \in 1 .. Len(jobs[w]) /\ jobs'[w][k] = jobs[w][k]
    <3> SUFFICES ASSUME NEW w \in Term, NEW k \in 1 .. Len(jobs'[w])
                 PROVE  \/ Top(w, k) /\ jobs'[w][k] = p
                        \/ /\ ~Top(w, k) /\ k \in 1 .. Len(jobs[w])
                           /\ jobs'[w][k] = jobs[w][k]
      OBVIOUS
    <3>1. CASE w = t
      <4>1. k \in 1 .. Len(jobs[t]) + 1
        BY <3>1, <1>3
      <4>2. CASE k = Len(jobs[t]) + 1
        BY <3>1, <4>2, <1>3
      <4>3. CASE k # Len(jobs[t]) + 1
        <5>1. k \in 1 .. Len(jobs[t])
          BY <4>1, <4>3, <1>1
        <5> QED
          BY <3>1, <4>3, <5>1, <1>3
      <4> QED
        BY <4>2, <4>3
    <3>2. CASE w # t
      BY <3>2, <1>2
    <3> QED
      BY <3>1, <3>2
  <2>2. CASE Top(u, i) /\ Top(v, j)
    BY <2>2
  <2>3. CASE Top(u, i) /\ ~Top(v, j)
    BY <2>1, <2>3, <1>5
  <2>4. CASE ~Top(u, i) /\ Top(v, j)
    BY <2>1, <2>4, <1>5
  <2>5. CASE ~Top(u, i) /\ ~Top(v, j)
    BY <2>1, <2>5 DEF JobsInv, Apart
  <2> QED
    BY <2>2, <2>3, <2>4, <2>5
<1>8. jobs'[screen_num'] # <<>> /\ screen_num' \in Term
  BY <1>1, <1>2 DEF Added
<1> QED
  BY <1>2, <1>6, <1>7, <1>8 DEF JobsInv, Added

LEMMA JobsCommand ==
  ASSUME JobsInv, NEW t \in Term, NEW file \in Programs \cup {NULL},
         NEW rest \in Arguments, Execute(t, file, rest)
  PROVE  JobsInv'
<1>1. CASE UNCHANGED <<tables, cr3, tlb, processes, answers>>
  <2>1. args' \in Arguments
    BY ExecuteCases
  <2> QED
    BY <1>1, <2>1 DEF JobsInv, Nested, Apart, processes, answers
<1>2. ASSUME file \in Programs, NEW p \in Pid, prog[p] = NULL, Added(t, p, file, rest)
      PROVE  JobsInv'
  BY <1>2, AddJob, ExecuteCases
<1> QED
  BY <1>1, <1>2, ExecuteCases

LEMMA JobsHalt ==
  ASSUME JobsInv, Halt
  PROVE  JobsInv'
<1> DEFINE p == curr_process
           n == Len(jobs[screen_num])
<1>1. /\ p \in Pid /\ n \in Nat /\ n > 1 /\ p = jobs[screen_num][n]
      /\ jobs[screen_num] \in Seq(Pid)
  BY RunningLive DEF Halt, JobsInv
<1>2. /\ jobs' = [jobs EXCEPT ![screen_num] = SubSeq(jobs[screen_num], 1, n - 1)]
      /\ prog' = [prog EXCEPT ![p] = NULL]
      /\ UNCHANGED <<screen_num, args, given, told>>
  BY DEF Halt, answers
<1> HIDE DEF p, n
<1>3. /\ SubSeq(jobs[screen_num], 1, n - 1) \in Seq(Pid)
      /\ Len(SubSeq(jobs[screen_num], 1, n - 1)) = n - 1
      /\ \A i \in 1 .. n - 1 : SubSeq(jobs[screen_num], 1, n - 1)[i] = jobs[screen_num][i]
  BY <1>1 DEF n
<1>4. /\ jobs' \in [Term -> Seq(Pid)] /\ screen_num \in Term
      /\ \A u \in Term : /\ Len(jobs'[u]) \in Nat /\ Len(jobs[u]) \in Nat
                         /\ Len(jobs'[u]) <= Len(jobs[u])
                         /\ u = screen_num => Len(jobs'[u]) = n - 1
                         /\ \A i \in 1 .. Len(jobs'[u]) : jobs'[u][i] = jobs[u][i]
  <2>1. screen_num \in Term /\ jobs \in [Term -> Seq(Pid)] /\ jobs' \in [Term -> Seq(Pid)]
    BY <1>2, <1>3 DEF JobsInv
  <2>2. \A u \in Term : Len(jobs'[u]) \in Nat /\ Len(jobs[u]) \in Nat
    BY <2>1
  <2>3. /\ Len(jobs'[screen_num]) = n - 1 /\ Len(jobs[screen_num]) = n
        /\ \A i \in 1 .. n - 1 : jobs'[screen_num][i] = jobs[screen_num][i]
    BY <1>2, <1>3, <2>1 DEF n
  <2>4. \A u \in Term : u # screen_num => jobs'[u] = jobs[u]
    BY <1>2, <2>1
  <2> QED
    BY <1>1, <2>1, <2>2, <2>3, <2>4
<1>5. \A u \in Term : \A i \in 1 .. Len(jobs'[u]) :
        i \in 1 .. Len(jobs[u]) /\ jobs'[u][i] = jobs[u][i] /\ jobs[u][i] # p
        /\ jobs[u][i] \in Pid /\ prog[jobs[u][i]] # NULL
  <2> SUFFICES ASSUME NEW u \in Term, NEW i \in 1 .. Len(jobs'[u])
               PROVE  /\ i \in 1 .. Len(jobs[u]) /\ jobs'[u][i] = jobs[u][i]
                      /\ jobs[u][i] # p /\ jobs[u][i] \in Pid
                      /\ prog[jobs[u][i]] # NULL
    OBVIOUS
  <2>1. i \in 1 .. Len(jobs[u]) /\ jobs'[u][i] = jobs[u][i]
    BY <1>4
  <2>2. jobs[u][i] = p => u = screen_num /\ i = n
    <3>1. Apart(u, screen_num) /\ n \in 1 .. Len(jobs[screen_num])
      BY <1>1, <1>4 DEF JobsInv, n
    <3> QED
      BY <3>1, <2>1, <1>1 DEF Apart
  <2>3. jobs[u][i] # p
    BY <1>1, <1>4, <2>2
  <2> QED
    BY <2>1, <2>3 DEF JobsInv, Nested
<1>6. \A u \in Term : Nested(u)'
  <2>1. \A q \in Pid : q # p => prog'[q] = prog[q]
    BY <1>2 DEF JobsInv
  <2> QED
    BY <2>1, <1>5 DEF Nested
<1>7. \A u, v \in Term : Apart(u, v)'
  <2>1. ASSUME NEW u \in Term, NEW v \in Term,
               NEW i \in 1 .. Len(jobs'[u]), NEW j \in 1 .. Len(jobs'[v]),
               jobs'[u][i] = jobs'[v][j]
        PROVE  u = v /\ i = j
    <3>1. /\ i \in 1 .. Len(jobs[u]) /\ j \in 1 .. Len(jobs[v])
          /\ jobs[u][i] = jobs[v][j]
      BY <1>5, <2>1
    <3>2. Apart(u, v)
      BY DEF JobsInv
    <3> QED
      BY <3>1, <3>2 DEF Apart
  <2> QED
    BY <2>1 DEF Apart
<1>8. jobs'[screen_num'] # <<>>
  <2>1. Len(jobs'[screen_num]) = n - 1 /\ n - 1 # 0
    BY <1>1, <1>4
  <2>2. Len(<<>>) = 0
    OBVIOUS
  <2>3. jobs'[screen_num] # <<>>
    BY <2>1, <2>2
  <2> QED
    BY <2>3, <1>2
<1> QED
  BY <1>2, <1>4, <1>6, <1>7, <1>8 DEF JobsInv

LEMMA JobsStep ==
  ASSUME JobsInv, [Next]_vars
  PROVE  JobsInv'
<1>1. CASE UNCHANGED vars
  BY <1>1 DEF JobsInv, Nested, Apart, vars, processes, answers
<1>2. ASSUME NEW file \in Programs \cup {NULL}, NEW rest \in Arguments,
             Command(file, rest)
      PROVE  JobsInv'
  BY <1>2, JobsCommand DEF Command, JobsInv
<1>3. ASSUME NEW t \in Term, OpenTerminal(t)
      PROVE  JobsInv'
  BY <1>3, JobsCommand, ProgramAssumption DEF OpenTerminal
<1>4. ASSUME NEW t \in Term, SwitchTerminal(t)
      PROVE  JobsInv'
  BY <1>4 DEF SwitchTerminal, JobsInv, Nested, Apart, answers
<1>5. CASE Halt
  BY <1>5, JobsHalt
<1>6. CASE GetArgs
  BY <1>6, RunningLive DEF GetArgs, JobsInv, Nested, Apart, processes
<1>7. ASSUME NEW ptr \in Pointers, Vidmap(ptr)
      PROVE  JobsInv'
  BY <1>7 DEF Vidmap, JobsInv, Nested, Apart, processes
<1>8. ASSUME NEW addr \in Probes, Remember(addr)
      PROVE  JobsInv'
  BY <1>8 DEF Remember, JobsInv, Nested, Apart, processes, answers
<1> QED
  BY <1>1, <1>2, <1>3, <1>4, <1>5, <1>6, <1>7, <1>8 DEF Next

LEMMA JobsStart == Init => JobsInv
  <1> SUFFICES ASSUME Init PROVE JobsInv
    OBVIOUS
  <1>1. 0 \in Term /\ 0 \in Pid
    BY SizeAssumption DEF Term, Pid
  <1>2. jobs[0] = <<0>> /\ \A t \in Term \ {0} : jobs[t] = <<>>
    BY <1>1 DEF Init
  <1>3. /\ \A t \in Term : Nested(t)
        /\ \A t, u \in Term : Apart(t, u)
    BY <1>1, <1>2, ProgramAssumption, NullAssumption DEF Init, Nested, Apart
  <1>4. jobs \in [Term -> Seq(Pid)]
    BY <1>1 DEF Init
  <1> QED
    BY <1>1, <1>2, <1>3, <1>4, ProgramAssumption DEF Init, JobsInv

-----------------------------------------------------------------------------
(* The directories the kernel makes, and the one in use.                   *)

TablesInv ==
    /\ PD \in [Pid -> [Slots -> Entry]] /\ PT \in Tables
    /\ \A p \in Pid : PD[p] \in Directories(p)
    /\ \A p \in Pid : PD[p][31] = VideoTable => PT[1] = UserVideo
    /\ cur_PD \in Pid /\ cr3 \in Pid /\ cr3 = curr_process
    /\ PD_ptr \in [Pid -> Pid \cup {NULL}]
    /\ \A p \in Pid : prog[p] # NULL => PD_ptr[p] = p /\ PD[p][32] = ImagePage(p)

LEMMA EntryTypes ==
  ASSUME NEW p \in Pid
  PROVE  /\ PDE_default \in Entry /\ VideoTable \in Entry /\ ImagePage(p) \in Entry
         /\ LowVideo \in Entry /\ UserVideo \in Entry
         /\ LowTable \in Entry /\ KernelPage \in Entry
  BY Numbers DEF Entry, PDE_default, VideoTable, ImagePage, LowVideo, UserVideo,
                 LowTable, KernelPage, Mapped

LEMMA MapImage ==
  ASSUME NEW p \in Pid, NEW r \in Directories(p)
  PROVE  LET w == [r EXCEPT ![get_PDE_offset(PGRM_IMG)] = ImagePage(p)]
         IN w \in Directories(p) /\ w[31] = r[31] /\ w[32] = ImagePage(p)
  BY Offsets, EntryTypes DEF Directories

LEMMA MapVideo ==
  ASSUME NEW p \in Pid, NEW r \in Directories(p)
  PROVE  LET w == [r EXCEPT ![get_PDE_offset(USER_VID)] = VideoTable]
         IN /\ w \in Directories(p) /\ w[31] = VideoTable /\ w[32] = r[32]
            /\ \A s \in Slots \ {31} : w[s] = r[s]
  BY Offsets, EntryTypes DEF Directories

LEMMA TablesAdd ==
  ASSUME TablesInv, JobsInv, NEW t \in Term, NEW p \in Pid, NEW file \in Programs,
         NEW rest, prog[p] = NULL, Added(t, p, file, rest)
  PROVE  TablesInv'
<1> DEFINE w == [PD[p] EXCEPT ![get_PDE_offset(PGRM_IMG)] = ImagePage(p)]
<1>1. PD' = [PD EXCEPT ![p] = w] /\ PT' = PT
  BY DEF Added
<1>2. w \in Directories(p) /\ w[31] = PD[p][31] /\ w[32] = ImagePage(p)
  BY MapImage DEF TablesInv
<1>3. w \in [Slots -> Entry]
  BY <1>2 DEF Directories
<1> HIDE DEF w
<1>4. /\ PD' \in [Pid -> [Slots -> Entry]] /\ PD'[p] = w
      /\ \A q \in Pid \ {p} : PD'[q] = PD[q]
  BY <1>1, <1>3 DEF TablesInv
<1>5. \A q \in Pid : PD'[q] \in Directories(q) /\ PD'[q][31] = PD[q][31]
  BY <1>2, <1>4 DEF TablesInv
<1>6. cr3' = curr_process'
  <2>1. jobs[t] \in Seq(Pid) /\ jobs'[t] = Append(jobs[t], p)
    BY DEF JobsInv, Added
  <2>2. jobs'[t][Len(jobs'[t])] = p
    BY <2>1
  <2> QED
    BY <2>2 DEF Added, curr_process, Running
<1>7. \A q \in Pid : prog'[q] # NULL => PD_ptr'[q] = q /\ PD'[q][32] = ImagePage(q)
  <2> SUFFICES ASSUME NEW q \in Pid, prog'[q] # NULL
               PROVE  PD_ptr'[q] = q /\ PD'[q][32] = ImagePage(q)
    OBVIOUS
  <2>1. CASE q = p
    BY <2>1, <1>2, <1>4 DEF Added, TablesInv
  <2>2. CASE q # p
    <3>1. prog[q] # NULL /\ PD_ptr'[q] = PD_ptr[q] /\ PD'[q] = PD[q]
      BY <2>2, <1>4 DEF Added, TablesInv, JobsInv
    <3> QED
      BY <3>1 DEF TablesInv
  <2> QED
    BY <2>1, <2>2
<1> QED
  BY <1>1, <1>4, <1>5, <1>6, <1>7 DEF TablesInv, Added

LEMMA TablesCommand ==
  ASSUME TablesInv, JobsInv, NEW t \in Term, NEW file \in Programs \cup {NULL},
         NEW rest \in Arguments, Execute(t, file, rest)
  PROVE  TablesInv'
<1>1. CASE UNCHANGED <<tables, cr3, tlb, processes, answers>>
  BY <1>1 DEF TablesInv, tables, processes, curr_process, Running
<1>2. ASSUME file \in Programs, NEW p \in Pid, prog[p] = NULL, Added(t, p, file, rest)
      PROVE  TablesInv'
  BY <1>2, TablesAdd
<1> QED
  BY <1>1, <1>2, ExecuteCases

LEMMA TablesVidmap ==
  ASSUME TablesInv, JobsInv, NEW ptr \in Pointers, Vidmap(ptr)
  PROVE  TablesInv'
<1>1. CASE UNCHANGED <<PD, PT>>
  BY <1>1 DEF TablesInv, Vidmap, processes, curr_process, Running
<1>2. CASE ~UNCHANGED <<PD, PT>>
  <2>1. /\ PT' = IF PT[1].present THEN PT ELSE [PT EXCEPT ![1] = UserVideo]
        /\ PD' = VideoDirectory(PD)
        /\ UNCHANGED <<cur_PD, cr3, processes>>
    BY <1>2 DEF Vidmap
  <2>2. PT' \in Tables /\ PT'[1] = UserVideo
    <3>1. CASE PT[1] = PDE_default
      <4>1. PT' = [PT EXCEPT ![1] = UserVideo]
        BY <2>1, <3>1, Fields
      <4> QED
        BY <4>1, EntryTypes DEF TablesInv, Tables
    <3>2. CASE PT[1] = UserVideo
      BY <2>1, <3>2, Fields DEF TablesInv
    <3> QED
      BY <3>1, <3>2 DEF TablesInv, Tables
  <2> DEFINE w == [PD[cur_PD] EXCEPT ![get_PDE_offset(USER_VID)] = VideoTable]
  <2>3. PD' = PD \/ PD' = [PD EXCEPT ![cur_PD] = w]
    BY <2>1 DEF VideoDirectory, VideoTable
  <2>4. w \in Directories(cur_PD) /\ w[32] = PD[cur_PD][32] /\ w \in [Slots -> Entry]
    BY MapVideo DEF TablesInv, Directories
  <2> HIDE DEF w
  <2>5. /\ PD' \in [Pid -> [Slots -> Entry]]
        /\ \A q \in Pid : PD'[q] \in Directories(q) /\ PD'[q][32] = PD[q][32]
    BY <2>3, <2>4 DEF TablesInv
  <2>6. cr3' = curr_process'
    BY <2>1 DEF TablesInv, processes, curr_process, Running
  <2> QED
    BY <2>1, <2>2, <2>5, <2>6 DEF TablesInv, processes
<1> QED
  BY <1>1, <1>2

LEMMA TablesHalt ==
  ASSUME TablesInv, JobsInv, Halt
  PROVE  TablesInv'
<1> DEFINE n == Len(jobs[screen_num])
           parent == jobs[screen_num][n - 1]
<1>1. /\ n \in Nat /\ n > 1 /\ jobs[screen_num] \in Seq(Pid) /\ screen_num \in Term
      /\ cr3' = PD_ptr[parent]
      /\ jobs' = [jobs EXCEPT ![screen_num] = SubSeq(jobs[screen_num], 1, n - 1)]
      /\ screen_num' = screen_num /\ prog' = [prog EXCEPT ![curr_process] = NULL]
      /\ UNCHANGED <<tables, PD_ptr>>
  BY DEF Halt, LoadPages, JobsInv
<1>2. n - 1 \in 1 .. n /\ parent \in Pid
  BY <1>1
<1>3. prog[parent] # NULL
  BY <1>1, <1>2 DEF JobsInv, Nested
<1>4. cr3' = parent
  BY <1>1, <1>2, <1>3 DEF TablesInv
<1>5. curr_process' = parent
  <2>1. jobs'[screen_num] = SubSeq(jobs[screen_num], 1, n - 1)
    BY <1>1 DEF JobsInv
  <2>2. /\ Len(SubSeq(jobs[screen_num], 1, n - 1)) = n - 1
        /\ SubSeq(jobs[screen_num], 1, n - 1)[n - 1] = jobs[screen_num][n - 1]
    BY <1>1, <1>2
  <2> QED
    BY <2>1, <2>2, <1>1 DEF curr_process, Running
<1>6. \A q \in Pid : prog'[q] # NULL => prog[q] # NULL
  BY <1>1, RunningLive DEF JobsInv
<1> QED
  BY <1>1, <1>2, <1>4, <1>5, <1>6 DEF TablesInv, tables

LEMMA TablesSwitch ==
  ASSUME TablesInv, JobsInv, NEW t \in Term, SwitchTerminal(t)
  PROVE  TablesInv'
<1>1. /\ jobs[t] # <<>> /\ jobs[t] \in Seq(Pid) /\ cr3' = PD_ptr[Running(t)]
      /\ screen_num' = t /\ UNCHANGED <<tables, PD_ptr, jobs, prog>>
  BY DEF SwitchTerminal, LoadPages, JobsInv
<1>2. Len(jobs[t]) \in 1 .. Len(jobs[t]) /\ Running(t) \in Pid
  BY <1>1 DEF Running
<1>3. prog[Running(t)] # NULL
  BY <1>2 DEF JobsInv, Nested, Running
<1>4. cr3' = Running(t) /\ curr_process' = Running(t)
  BY <1>1, <1>2, <1>3 DEF TablesInv, curr_process, Running
<1> QED
  BY <1>1, <1>2, <1>4 DEF TablesInv, tables

LEMMA TablesStep ==
  ASSUME TablesInv, JobsInv, [Next]_vars
  PROVE  TablesInv'
<1>1. ASSUME UNCHANGED <<tables, cr3, processes>>
      PROVE  TablesInv'
  BY <1>1 DEF TablesInv, tables, processes, curr_process, Running
<1>2. ASSUME NEW file \in Programs \cup {NULL}, NEW rest \in Arguments,
             Command(file, rest)
      PROVE  TablesInv'
  BY <1>2, TablesCommand DEF Command, JobsInv
<1>3. ASSUME NEW t \in Term, OpenTerminal(t)
      PROVE  TablesInv'
  BY <1>3, TablesCommand, ProgramAssumption DEF OpenTerminal
<1>4. ASSUME NEW t \in Term, SwitchTerminal(t)
      PROVE  TablesInv'
  BY <1>4, TablesSwitch
<1>5. CASE Halt
  BY <1>5, TablesHalt
<1>6. ASSUME NEW ptr \in Pointers, Vidmap(ptr)
      PROVE  TablesInv'
  BY <1>6, TablesVidmap
<1>7. CASE GetArgs
  BY <1>7, <1>1 DEF GetArgs
<1>8. ASSUME NEW addr \in Probes, Remember(addr)
      PROVE  TablesInv'
  BY <1>8, <1>1 DEF Remember
<1>9. CASE UNCHANGED vars
  BY <1>9, <1>1 DEF vars
<1> QED
  BY <1>2, <1>3, <1>4, <1>5, <1>6, <1>7, <1>8, <1>9 DEF Next

LEMMA TablesStart == Init => TablesInv
<1> SUFFICES ASSUME Init PROVE TablesInv
  OBVIOUS
<1>1. 0 \in Pid /\ 0 \in Term
  BY SizeAssumption DEF Pid, Term
<1>2. /\ init_PD \in [Slots -> Entry]
      /\ init_PD[0] = LowTable /\ init_PD[1] = KernelPage
      /\ init_PD[31] = PDE_default /\ init_PD[32] = PDE_default
  <2>1. init_PD = [s \in {0, 1, 31, 32} |->
                     IF s = 0 THEN LowTable ELSE IF s = 1 THEN KernelPage
                     ELSE PDE_default]
    BY Offsets DEF init_PD, LowTable, KernelPage
  <2> QED
    BY <1>1, <2>1, Offsets, EntryTypes
<1>3. \A p \in Pid : init_PD \in Directories(p)
  BY <1>2 DEF Directories
<1> DEFINE w == [init_PD EXCEPT ![get_PDE_offset(PGRM_IMG)] = ImagePage(0)]
<1>4. w \in Directories(0) /\ w[31] = PDE_default /\ w[32] = ImagePage(0)
  BY <1>1, <1>2, <1>3, MapImage
<1>5. PD = [[p \in Pid |-> init_PD] EXCEPT ![0] = w]
  BY <1>1 DEF Init, map_4MB_page, ImagePage
<1> HIDE DEF w
<1>6. w \in [Slots -> Entry]
  BY <1>4 DEF Directories
<1>7. /\ PD \in [Pid -> [Slots -> Entry]]
      /\ \A p \in Pid : PD[p] \in Directories(p) /\ PD[p][31] = PDE_default
      /\ PD[0][32] = ImagePage(0)
  BY <1>1, <1>2, <1>3, <1>4, <1>5, <1>6
<1>8. PT \in Tables
  BY <1>1, EntryTypes DEF Init, init_VIDEO_PT, Tables, LowVideo
<1>9. /\ cr3 = curr_process /\ cr3 \in Pid /\ cur_PD \in Pid
      /\ PD_ptr \in [Pid -> Pid \cup {NULL}]
      /\ \A p \in Pid : prog[p] # NULL => p = 0 /\ PD_ptr[p] = p
  BY <1>1 DEF Init, curr_process, Running
<1> QED
  BY <1>7, <1>8, <1>9, Fields DEF TablesInv

-----------------------------------------------------------------------------
(* What the CPU remembers.                                                  *)

CacheInv == \A t \in tlb : /\ t.addr \in Probes /\ t # NULL
                           /\ t = Path(PD[cr3], PT, t.addr)

\* Loading CR3 keeps only what every directory says alike.
LEMMA CacheLoad ==
  ASSUME TablesInv, CacheInv, TablesInv', tlb' = Flushed(tlb)
  PROVE  CacheInv'
<1> SUFFICES ASSUME NEW t \in tlb'
             PROVE  /\ t.addr \in Probes /\ t # NULL
                    /\ t = Path(PD'[cr3'], PT', t.addr)
  BY DEF CacheInv
<1>1. t \in tlb /\ t.global
  BY DEF Flushed
<1>2. t.addr \in Probes /\ t.addr \in Nat /\ t # NULL /\ t = Path(PD[cr3], PT, t.addr)
  BY <1>1, AddressAssumption DEF CacheInv
<1>3. /\ cr3 \in Pid /\ PD[cr3] \in Directories(cr3) /\ PT \in Tables
      /\ cr3' \in Pid /\ PD'[cr3'] \in Directories(cr3') /\ PT' \in Tables
  BY DEF TablesInv
<1>4. get_PDE_offset(t.addr) \in {0, 1}
  BY <1>1, <1>2, <1>3, PathFound
<1>5. PICK s : s = get_PDE_offset(t.addr) /\ (s = 0 \/ s = 1)
  BY <1>4
<1>6. Path(PD'[cr3'], PT', t.addr) = Path(PD[cr3], PT, t.addr)
  BY <1>2, <1>3, <1>5, GlobalPath
<1> QED
  BY <1>2, <1>6

\* vidmap fills what was absent: no walk that led somewhere leads elsewhere.
LEMMA SamePath ==
  ASSUME NEW r, NEW t, NEW w, NEW v, NEW a, NEW s, s = get_PDE_offset(a),
         s \in Slots => /\ w[s] = r[s]
                        /\ ~r[s].big => v[r[s].base] = t[r[s].base]
  PROVE  Path(w, v, a) = Path(r, t, a)
<1>1. CASE s \in Slots
  <2>1. CASE r[s].big
    BY <1>1, <2>1 DEF Path
  <2>2. CASE ~r[s].big
    BY <1>1, <2>2 DEF Path
  <2> QED
    BY <2>1, <2>2
<1>2. CASE s \notin Slots
  <2>1. Path(w, v, a) = NULL
    BY <1>2, NoEntryPath
  <2>2. Path(r, t, a) = NULL
    BY <1>2, NoEntryPath
  <2> QED
    BY <2>1, <2>2
<1> QED
  BY <1>1, <1>2

LEMMA FilledPath ==
  ASSUME NEW p \in Pid, NEW r \in Directories(p), NEW t \in Tables,
         NEW w \in Directories(p), NEW v \in Tables, v[1] = UserVideo,
         r[31] = VideoTable => t[1] = UserVideo,
         w = r \/ (w[31] = VideoTable /\ \A s \in Slots \ {31} : w[s] = r[s]),
         NEW a \in Nat, Path(r, t, a) # NULL
  PROVE  Path(w, v, a) = Path(r, t, a)
<1>1. PICK s \in Slots : s = get_PDE_offset(a) /\ r[s] # PDE_default
  BY NoEntryPath
<1>2. v[0] = t[0]
  BY DEF Tables
<1>3. CASE s = 0 /\ r[s] = LowTable
  <2>1. w[s] = r[s] /\ (~r[s].big => v[r[s].base] = t[r[s].base])
    BY <1>1, <1>2, <1>3, Fields
  <2> QED
    BY <1>1, <2>1, SamePath
<1>4. CASE s = 1 /\ r[s] = KernelPage
  <2>1. w[s] = r[s] /\ r[s].big
    BY <1>1, <1>4, Fields
  <2> QED
    BY <1>1, <2>1, SamePath
<1>5. CASE s = 31 /\ r[s] = VideoTable
  <2>1. r[31] = VideoTable /\ t[1] = UserVideo /\ w[31] = VideoTable
    BY <1>5
  <2>2. w[s] = r[s] /\ (~r[s].big => v[r[s].base] = t[r[s].base])
    BY <1>5, <2>1, Fields
  <2> QED
    BY <1>1, <2>2, SamePath
<1>6. CASE s = 32 /\ r[s] = ImagePage(p)
  <2>1. w[s] = r[s]
    BY <1>1, <1>6
  <2>2. r[s].big
    BY <1>6, ImageFields
  <2> QED
    BY <1>1, <2>1, <2>2, SamePath
<1> QED
  BY <1>1, <1>3, <1>4, <1>5, <1>6, EntryOf

LEMMA Filled ==
  ASSUME TablesInv, NEW ptr, Vidmap(ptr)
  PROVE  \/ UNCHANGED <<PD, PT, tlb, vidmapped, mode>>
         \/ /\ InProgramPage(ptr)
            /\ PT'[1] = UserVideo /\ PD'[cur_PD][31] = VideoTable
            /\ \A p \in Pid : \/ PD'[p] = PD[p]
                              \/ /\ PD'[p][31] = VideoTable
                                 /\ \A s \in Slots \ {31} : PD'[p][s] = PD[p][s]
            /\ tlb' \subseteq tlb
            /\ \/ mode' = mode /\ vidmapped' = vidmapped \cup {curr_process}
               \/ /\ mode' = "fault" /\ vidmapped' = vidmapped
                  /\ Walk(cr3, ptr) = NULL \/ Walk(cr3, ptr + 3) = NULL
<1> SUFFICES ASSUME InProgramPage(ptr)
             PROVE  /\ PT'[1] = UserVideo /\ PD'[cur_PD][31] = VideoTable
                    /\ \A p \in Pid : \/ PD'[p] = PD[p]
                                      \/ /\ PD'[p][31] = VideoTable
                                         /\ \A s \in Slots \ {31} : PD'[p][s] = PD[p][s]
                    /\ tlb' \subseteq tlb
                    /\ \/ mode' = mode /\ vidmapped' = vidmapped \cup {curr_process}
                       \/ /\ mode' = "fault" /\ vidmapped' = vidmapped
                          /\ Walk(cr3, ptr) = NULL \/ Walk(cr3, ptr + 3) = NULL
  BY DEF Vidmap
<1>1. /\ PT' = IF PT[1].present THEN PT ELSE [PT EXCEPT ![1] = UserVideo]
      /\ PD' = VideoDirectory(PD)
      /\ tlb' = Without(tlb, USER_VID)
      /\ \/ mode' = mode /\ vidmapped' = vidmapped \cup {curr_process}
         \/ /\ mode' = "fault" /\ vidmapped' = vidmapped
            /\ Walk(cr3, ptr) = NULL \/ Walk(cr3, ptr + 3) = NULL
  BY DEF Vidmap
<1>2. PT'[1] = UserVideo
  <2>1. PT \in [{0, 1} -> Entry] /\ PT[1] \in {PDE_default, UserVideo}
    BY DEF TablesInv, Tables
  <2> QED
    BY <1>1, <2>1, Fields
<1> DEFINE w == [PD[cur_PD] EXCEPT ![get_PDE_offset(USER_VID)] = VideoTable]
<1>3. /\ PD \in [Pid -> [Slots -> Entry]] /\ cur_PD \in Pid
      /\ PD[cur_PD] \in Directories(cur_PD)
      /\ PD[cur_PD][31] \in {PDE_default, VideoTable}
  BY DEF TablesInv, Directories
<1>4. w[31] = VideoTable /\ \A s \in Slots \ {31} : w[s] = PD[cur_PD][s]
  BY <1>3, MapVideo
<1>5. PD' = IF PD[cur_PD][31].present THEN PD ELSE [PD EXCEPT ![cur_PD] = w]
  BY <1>1, Offsets DEF VideoDirectory, VideoTable
<1> HIDE DEF w
<1>6. CASE PD[cur_PD][31] = VideoTable
  <2>1. PD' = PD
    BY <1>5, <1>6, Fields
  <2> QED
    BY <1>1, <1>2, <1>6, <2>1 DEF Without
<1>7. CASE PD[cur_PD][31] = PDE_default
  <2>1. PD' = [PD EXCEPT ![cur_PD] = w]
    BY <1>5, <1>7, Fields
  <2>2. PD'[cur_PD] = w /\ \A p \in Pid \ {cur_PD} : PD'[p] = PD[p]
    BY <2>1, <1>3
  <2> QED
    BY <1>1, <1>2, <1>4, <2>2 DEF Without
<1> QED
  BY <1>3, <1>6, <1>7

LEMMA CacheVidmap ==
  ASSUME TablesInv, CacheInv, TablesInv', NEW ptr, Vidmap(ptr)
  PROVE  CacheInv'
<1>1. cr3' = cr3
  BY DEF Vidmap
<1>2. CASE UNCHANGED <<PD, PT, tlb, vidmapped, mode>>
  BY <1>1, <1>2 DEF CacheInv
<1>3. CASE ~UNCHANGED <<PD, PT, tlb, vidmapped, mode>>
  <2> SUFFICES ASSUME NEW t \in tlb'
               PROVE  /\ t.addr \in Probes /\ t # NULL
                      /\ t = Path(PD'[cr3'], PT', t.addr)
    BY DEF CacheInv
  <2>1. /\ t \in tlb /\ PT'[1] = UserVideo
        /\ \A p \in Pid : \/ PD'[p] = PD[p]
                          \/ /\ PD'[p][31] = VideoTable
                             /\ \A s \in Slots \ {31} : PD'[p][s] = PD[p][s]
    BY <1>3, Filled
  <2>2. t.addr \in Probes /\ t.addr \in Nat /\ t # NULL /\ t = Path(PD[cr3], PT, t.addr)
    BY <2>1, AddressAssumption DEF CacheInv
  <2>3. /\ cr3 \in Pid /\ PD[cr3] \in Directories(cr3) /\ PT \in Tables
        /\ PD'[cr3] \in Directories(cr3) /\ PT' \in Tables
        /\ PD[cr3][31] = VideoTable => PT[1] = UserVideo
    BY <1>1 DEF TablesInv
  <2>4. Path(PD'[cr3], PT', t.addr) = Path(PD[cr3], PT, t.addr)
    BY <2>1, <2>2, <2>3, FilledPath
  <2> QED
    BY <1>1, <2>2, <2>4
<1> QED
  BY <1>2, <1>3

LEMMA CacheRemember ==
  ASSUME TablesInv, CacheInv, NEW addr \in Probes, Remember(addr)
  PROVE  CacheInv'
<1>1. /\ Walk(cr3, addr) # NULL /\ tlb' = tlb \cup {Walk(cr3, addr)}
      /\ UNCHANGED <<PD, PT, cr3>>
  BY DEF Remember, tables
<1>2. Walk(cr3, addr) = Path(PD[cr3], PT, addr)
  BY WalkIsPath
<1>3. Path(PD[cr3], PT, addr).addr = addr
  BY <1>1, <1>2, PathFound, AddressAssumption DEF TablesInv
<1> QED
  BY <1>1, <1>2, <1>3 DEF CacheInv

LEMMA CacheStep ==
  ASSUME TablesInv, JobsInv, CacheInv, [Next]_vars
  PROVE  CacheInv'
<1>1. TablesInv'
  BY TablesStep
<1>2. ASSUME UNCHANGED <<tables, cr3, tlb>>
      PROVE  CacheInv'
  BY <1>2 DEF CacheInv, tables
<1>3. ASSUME NEW t, NEW file, NEW rest, Execute(t, file, rest)
      PROVE  CacheInv'
  <2>1. CASE UNCHANGED <<tables, cr3, tlb, processes, answers>>
    BY <2>1, <1>2
  <2>2. ASSUME NEW p \in Pid, Added(t, p, file, rest)
        PROVE  CacheInv'
    BY <2>2, <1>1, CacheLoad DEF Added
  <2> QED
    BY <1>3, <2>1, <2>2, ExecuteCases
<1>4. CASE \E file \in Programs \cup {NULL}, rest \in Arguments : Command(file, rest)
  BY <1>4, <1>3 DEF Command
<1>5. CASE \E t \in Term : OpenTerminal(t) \/ SwitchTerminal(t)
  BY <1>5, <1>3, <1>1, CacheLoad DEF OpenTerminal, SwitchTerminal, LoadPages
<1>6. CASE Halt
  BY <1>6, <1>1, CacheLoad DEF Halt, LoadPages
<1>7. CASE GetArgs
  BY <1>7, <1>2 DEF GetArgs
<1>8. CASE \E ptr \in Pointers : Vidmap(ptr)
  BY <1>8, <1>1, CacheVidmap
<1>9. CASE \E addr \in Probes : Remember(addr)
  BY <1>9, CacheRemember
<1>10. CASE UNCHANGED vars
  BY <1>10, <1>2 DEF vars
<1> QED
  BY <1>4, <1>5, <1>6, <1>7, <1>8, <1>9, <1>10 DEF Next

-----------------------------------------------------------------------------
(* What programs were told, and what vidmap did for them.                  *)

VidInv ==
    /\ vidmapped \subseteq Pid
    /\ Rule("latest") => \A p \in vidmapped : PD[p][31] = VideoTable

ModeInv ==
    /\ mode \in {"user", "fault"}
    /\ Rule("room") => mode = "user"

ArgsInv ==
    Rule("prompt") =>
        \A p \in Pid : prog[p] # NULL =>
            /\ prog[p] # Shell /\ told[p] = NULL => given[p] = args
            /\ told[p] # NULL => told[p] = given[p]

LEMMA VidStep ==
  ASSUME JobsInv, TablesInv, VidInv, [Next]_vars
  PROVE  VidInv'
<1>1. ASSUME UNCHANGED <<PD, vidmapped>>
      PROVE  VidInv'
  BY <1>1 DEF VidInv
<1>2. ASSUME NEW t, NEW file, NEW rest, Execute(t, file, rest)
      PROVE  VidInv'
  <2>1. CASE UNCHANGED <<tables, cr3, tlb, processes, answers>>
    BY <2>1, <1>1 DEF tables, answers
  <2>2. ASSUME NEW p \in Pid, Added(t, p, file, rest)
        PROVE  VidInv'
    <3>1. \A q \in Pid \ {p} : PD'[q] = PD[q]
      BY <2>2 DEF Added, TablesInv
    <3> QED
      BY <2>2, <3>1 DEF Added, VidInv
  <2> QED
    BY <1>2, <2>1, <2>2, ExecuteCases
<1>3. CASE \E file \in Programs \cup {NULL}, rest \in Arguments : Command(file, rest)
  BY <1>3, <1>2 DEF Command
<1>4. CASE \E t \in Term : OpenTerminal(t) \/ SwitchTerminal(t)
  BY <1>4, <1>1, <1>2 DEF OpenTerminal, SwitchTerminal, tables, answers
<1>5. ASSUME NEW ptr, Vidmap(ptr)
      PROVE  VidInv'
  <2>1. CASE UNCHANGED <<PD, PT, tlb, vidmapped, mode>>
    BY <2>1, <1>1
  <2>2. CASE ~UNCHANGED <<PD, PT, tlb, vidmapped, mode>>
    <3>1. /\ PD'[cur_PD][31] = VideoTable
          /\ \A p \in Pid : PD[p][31] = VideoTable => PD'[p][31] = VideoTable
          /\ vidmapped' \subseteq vidmapped \cup {curr_process}
      BY <1>5, <2>2, Filled
    <3>2. curr_process \in Pid /\ (Rule("latest") => curr_process = cur_PD)
      BY <1>5, RunningLive DEF Vidmap
    <3> QED
      BY <3>1, <3>2 DEF VidInv
  <2> QED
    BY <2>1, <2>2
<1>6. CASE Halt
  BY <1>6, <1>1 DEF Halt, tables, answers
<1>7. CASE GetArgs
  BY <1>7, <1>1 DEF GetArgs, tables
<1>8. CASE \E addr \in Probes : Remember(addr)
  BY <1>8, <1>1 DEF Remember, tables, answers
<1>9. CASE UNCHANGED vars
  BY <1>9, <1>1 DEF vars, tables, answers
<1> QED
  BY <1>3, <1>4, <1>5, <1>6, <1>7, <1>8, <1>9 DEF Next

(* The four bytes from a pointer that passes vidmap's test, the page's last *)
(* three addresses apart, lie in one directory slot.                       *)
LEMMA InImage ==
  ASSUME NEW a \in Nat, a >= _128MB, a < _128MB + MB4
  PROVE  get_PDE_offset(a) = get_PDE_offset(PGRM_IMG)
<1>1. MB4 \in Nat \ {0} /\ _128MB = 32 * MB4
  BY SMT DEF MB4, Page, _128MB
<1>2. ASSUME NEW n \in Nat \ {0}, a >= 32 * n, a < 32 * n + n
      PROVE  a \div n = 32
  BY <1>2
<1>3. a \div MB4 = 32
  BY <1>1, <1>2
<1> QED
  BY <1>3, Offsets DEF get_PDE_offset

LEMMA ImageMapped ==
  ASSUME JobsInv, TablesInv, NEW a \in Nat, a >= _128MB, a < _128MB + MB4
  PROVE  Walk(cr3, a) # NULL
<1>1. /\ cr3 \in Pid /\ PD[cr3][get_PDE_offset(PGRM_IMG)] = ImagePage(cr3)
      /\ get_PDE_offset(PGRM_IMG) \in Slots
  BY RunningLive, Offsets DEF TablesInv
<1>2. Path(PD[cr3], PT, a) = At(a, PGRM_PAGE(cr3) + (a % MB4), TRUE, FALSE)
  BY <1>1, InImage, ImagePath
<1>3. PGRM_PAGE(cr3) + (a % MB4) \in Nat
  <2>1. PGRM_PAGE(cr3) \in Nat /\ MB4 \in Nat
    BY <1>1, Numbers
  <2>2. a % MB4 \in 0 .. MB4 - 1
    BY Division
  <2> QED
    BY <2>1, <2>2
<1>4. At(a, PGRM_PAGE(cr3) + (a % MB4), TRUE, FALSE) \in Found
  BY <1>3 DEF At, Found
<1> QED
  BY <1>2, <1>4, WalkIsPath, NullAssumption DEF Found

LEMMA ModeStep ==
  ASSUME JobsInv, TablesInv, ModeInv, [Next]_vars
  PROVE  ModeInv'
<1>1. ASSUME UNCHANGED mode
      PROVE  ModeInv'
  BY <1>1 DEF ModeInv
<1>2. ASSUME NEW ptr \in Pointers, Vidmap(ptr)
      PROVE  ModeInv'
  <2>1. CASE mode' = mode
    BY <2>1, <1>1
  <2>2. CASE mode' # mode
    <3>1. /\ InProgramPage(ptr) /\ mode' = "fault"
          /\ Walk(cr3, ptr) = NULL \/ Walk(cr3, ptr + 3) = NULL
      BY <1>2, <2>2, Filled
    <3>2. ptr \in Nat /\ _128MB \in Nat /\ MB4 \in Nat
      BY AddressAssumption, Numbers
    <3>3. ptr >= _128MB /\ ptr < _128MB + MB4
      BY <3>1 DEF InProgramPage
    <3>4. Rule("room") => ptr + 3 < _128MB + MB4
      <4>1. Rule("room") => _128MB + MB4 - ptr \notin 1 .. 3
        BY <1>2 DEF Vidmap
      <4> QED
        BY <4>1, <3>2, <3>3
    <3>5. ptr + 3 \in Nat /\ ptr + 3 >= _128MB
      BY <3>2, <3>3
    <3>6. ~Rule("room")
      BY <3>1, <3>2, <3>3, <3>4, <3>5, ImageMapped
    <3> QED
      BY <3>1, <3>6 DEF ModeInv, Rule
  <2> QED
    BY <2>1, <2>2
<1>3. CASE \E file \in Programs \cup {NULL}, rest \in Arguments : Command(file, rest)
  BY <1>3, <1>1 DEF Command
<1>4. CASE \E t \in Term : OpenTerminal(t) \/ SwitchTerminal(t)
  BY <1>4, <1>1 DEF OpenTerminal, SwitchTerminal
<1>5. CASE Halt \/ GetArgs \/ UNCHANGED vars \/ \E addr \in Probes : Remember(addr)
  BY <1>5, <1>1 DEF Halt, GetArgs, Remember, vars
<1> QED
  BY <1>2, <1>3, <1>4, <1>5 DEF Next

LEMMA ArgsStep ==
  ASSUME JobsInv, ArgsInv, [Next]_vars
  PROVE  ArgsInv'
<1>1. ASSUME UNCHANGED <<prog, given, told, args>>
      PROVE  ArgsInv'
  BY <1>1 DEF ArgsInv, Rule
<1>2. ASSUME NEW t \in Term, NEW file \in Programs \cup {NULL}, NEW rest \in Arguments,
             Execute(t, file, rest), Rule("prompt") => Unanswered = {}
      PROVE  ArgsInv'
  <2> SUFFICES ASSUME Rule("prompt"), NEW q \in Pid, prog'[q] # NULL
               PROVE  /\ prog'[q] # Shell /\ told'[q] = NULL => given'[q] = args'
                      /\ told'[q] # NULL => told'[q] = given'[q]
    BY DEF ArgsInv, Rule
  <2>1. \A p \in Pid : prog[p] # NULL => prog[p] = Shell \/ told[p] # NULL
    BY <1>2 DEF Unanswered, Live
  <2>2. CASE UNCHANGED <<tables, cr3, tlb, processes, answers>>
    BY <2>1, <2>2 DEF ArgsInv, processes, answers
  <2>3. ASSUME NEW p \in Pid, Added(t, p, file, rest), args' = rest
        PROVE  /\ prog'[q] # Shell /\ told'[q] = NULL => given'[q] = args'
               /\ told'[q] # NULL => told'[q] = given'[q]
    <3>1. CASE q = p
      BY <2>3, <3>1 DEF Added, JobsInv
    <3>2. CASE q # p
      BY <2>1, <2>3, <3>2 DEF Added, JobsInv, ArgsInv
    <3> QED
      BY <3>1, <3>2
  <2> QED
    BY <1>2, <2>2, <2>3, ExecuteCases
<1>3. CASE \E file \in Programs \cup {NULL}, rest \in Arguments : Command(file, rest)
  BY <1>3, <1>2 DEF Command, JobsInv
<1>4. CASE \E t \in Term : OpenTerminal(t) \/ SwitchTerminal(t)
  BY <1>4, <1>1, <1>2, ProgramAssumption
     DEF OpenTerminal, SwitchTerminal, answers
<1>5. CASE Halt
  <2>1. /\ prog' = [prog EXCEPT ![curr_process] = NULL]
        /\ UNCHANGED <<given, told, args>>
    BY <1>5 DEF Halt, answers
  <2>2. \A p \in Pid : prog'[p] # NULL => prog'[p] = prog[p]
    BY <2>1 DEF JobsInv
  <2> QED
    BY <2>1, <2>2 DEF ArgsInv, Rule
<1>6. CASE GetArgs
  <2>1. /\ told' = [told EXCEPT ![curr_process] = args]
        /\ prog[curr_process] # Shell /\ (Rule("prompt") => told[curr_process] = NULL)
        /\ UNCHANGED <<prog, given, args>>
    BY <1>6 DEF GetArgs, processes
  <2>2. curr_process \in Pid /\ prog[curr_process] # NULL
    BY RunningLive
  <2> SUFFICES ASSUME Rule("prompt"), NEW q \in Pid, prog[q] # NULL
               PROVE  /\ prog[q] # Shell /\ told'[q] = NULL => given[q] = args
                      /\ told'[q] # NULL => told'[q] = given[q]
    BY <2>1 DEF ArgsInv, Rule
  <2>3. CASE q = curr_process
    BY <2>1, <2>2, <2>3, NullAssumption DEF ArgsInv, JobsInv
  <2>4. CASE q # curr_process
    BY <2>1, <2>4 DEF ArgsInv, JobsInv
  <2> QED
    BY <2>3, <2>4
<1>7. CASE \E ptr \in Pointers : Vidmap(ptr)
  BY <1>7, <1>1 DEF Vidmap, processes
<1>8. CASE UNCHANGED vars \/ \E addr \in Probes : Remember(addr)
  BY <1>8, <1>1 DEF Remember, vars, processes, answers
<1> QED
  BY <1>3, <1>4, <1>5, <1>6, <1>7, <1>8 DEF Next

-----------------------------------------------------------------------------
(* The theorems.                                                           *)

MemoryInv ==
    JobsInv /\ TablesInv /\ CacheInv /\ VidInv /\ ModeInv /\ ArgsInv

\* The six invariants together are inductive.
LEMMA MemoryInvariant == Spec => []MemoryInv
<1>1. Init => MemoryInv
  <2> SUFFICES ASSUME Init PROVE MemoryInv
    OBVIOUS
  <2>1. CacheInv /\ VidInv /\ ModeInv
    BY DEF Init, CacheInv, VidInv, ModeInv
  <2>2. ArgsInv
    BY DEF Init, ArgsInv
  <2> QED
    BY <2>1, <2>2, JobsStart, TablesStart DEF MemoryInv
<1>2. MemoryInv /\ [Next]_vars => MemoryInv'
  BY JobsStep, TablesStep, CacheStep, VidStep, ModeStep, ArgsStep DEF MemoryInv
<1> QED
  BY <1>1, <1>2, PTL DEF Spec

\* Whatever translations the CPU may use are what the tables say now.
LEMMA OneTranslation ==
  ASSUME CacheInv, NEW addr, NEW t \in Translations(cr3, tlb, addr)
  PROVE  t = Path(PD[cr3], PT, addr) /\ t # NULL
  BY WalkIsPath DEF CacheInv, Translations

\* Every variable of the memory module keeps its type, for every number of
\* slots the kernel has pages for: the tables, the PCBs and what is remembered.
THEOREM MemoryTypes == Spec => []TypeOK
<1>1. MemoryInv => TypeOK
  <2> SUFFICES ASSUME MemoryInv PROVE TypeOK
    OBVIOUS
  <2>1. ASSUME NEW t \in tlb PROVE t \in Translation
    <3>1. t.addr \in Probes /\ t.addr \in Nat /\ t # NULL
          /\ t = Path(PD[cr3], PT, t.addr)
      BY <2>1, AddressAssumption DEF MemoryInv, CacheInv
    <3>2. cr3 \in Pid /\ PD[cr3] \in Directories(cr3) /\ PT \in Tables
      BY DEF MemoryInv, TablesInv
    <3>3. t \in Found
      BY <3>1, <3>2, PathFound
    <3> QED
      BY <3>1, <3>3 DEF Found, Translation
  <2>2. PD \in [Pid -> [Slots -> Entry]] /\ PT \in [{0, 1} -> Entry]
        /\ cur_PD \in Pid /\ cr3 \in Pid /\ PD_ptr \in [Pid -> Pid \cup {NULL}]
    BY DEF MemoryInv, TablesInv, Tables
  <2> QED
    BY <2>1, <2>2 DEF TypeOK, MemoryInv, JobsInv, VidInv, ModeInv
<1> QED
  BY <1>1, MemoryInvariant, PTL

\* No address leads user code outside its own four megabytes and video memory,
\* through the tables or through what the CPU remembers: for every address.
THEOREM MemoryIsolated == Spec => []Isolated
<1>1. MemoryInv => Isolated
  <2> SUFFICES ASSUME MemoryInv, NEW addr \in Probes,
                      NEW t \in Translations(cr3, tlb, addr), t.user
               PROVE  t.to \in OwnPage(curr_process) \/ t.to \in VideoPage
    BY DEF Isolated
  <2>1. t = Path(PD[cr3], PT, addr) /\ t # NULL /\ addr \in Nat
    BY OneTranslation, AddressAssumption DEF MemoryInv
  <2>2. /\ cr3 \in Pid /\ PD[cr3] \in Directories(cr3) /\ PT \in Tables
        /\ cr3 = curr_process
    BY DEF MemoryInv, TablesInv
  <2> QED
    BY <2>1, <2>2, PathFound
<1> QED
  BY <1>1, MemoryInvariant, PTL

\* No translation of another process or of an earlier table is ever used.
THEOREM TranslationsFresh == Spec => []NoStaleTranslation
<1>1. MemoryInv => NoStaleTranslation
  BY WalkIsPath DEF MemoryInv, CacheInv, NoStaleTranslation
<1> QED
  BY <1>1, MemoryInvariant, PTL

\* When only the process launched last calls vidmap, the address it gets leads
\* to video memory for as long as it lives.
THEOREM VidmapKept ==
  ASSUME Rule("latest") PROVE Spec => []VidmapLasts
<1>1. MemoryInv => VidmapLasts
  <2> SUFFICES ASSUME MemoryInv, curr_process \in vidmapped
               PROVE  LET ts == Translations(cr3, tlb, USER_VID)
                      IN ts # {} /\ \A t \in ts : t.user /\ t.to = VIDEO_MEM
    BY DEF VidmapLasts
  <2>1. /\ cr3 = curr_process /\ cr3 \in Pid /\ PD[cr3] \in Directories(cr3)
        /\ PT \in Tables /\ PD[cr3][31] = VideoTable /\ PT[1] = UserVideo
    BY DEF MemoryInv, TablesInv, VidInv
  <2>2. PICK s \in Slots : s = get_PDE_offset(USER_VID) /\ PD[cr3][s] = VideoTable
    BY <2>1, Offsets
  <2>3. get_PTE_offset(USER_VID) = get_PTE_offset(VIDEO_MEM)
    BY Offsets
  <2>4. Path(PD[cr3], PT, USER_VID) =
            At(USER_VID, VIDEO_MEM + (USER_VID % Page), TRUE, FALSE)
    BY <2>1, <2>2, <2>3, VideoPath
  <2>5. VIDEO_MEM + (USER_VID % Page) = VIDEO_MEM
    BY SMT DEF VIDEO_MEM, USER_VID, Page, MB4
  <2>6. Path(PD[cr3], PT, USER_VID).user /\ Path(PD[cr3], PT, USER_VID).to = VIDEO_MEM
    BY <2>4, <2>5 DEF At
  <2>7. Path(PD[cr3], PT, USER_VID) # NULL
    <3>1. VIDEO_MEM \in Nat /\ USER_VID \in Nat
      BY SMT DEF VIDEO_MEM, USER_VID, Page, MB4
    <3>2. At(USER_VID, VIDEO_MEM, TRUE, FALSE) \in Found
      BY <3>1 DEF At, Found
    <3> QED
      BY <2>4, <2>5, <3>2, NullAssumption DEF Found
  <2>8. Path(PD[cr3], PT, USER_VID) \in Translations(cr3, tlb, USER_VID)
    BY <2>7, WalkIsPath DEF Translations
  <2>9. \A t \in Translations(cr3, tlb, USER_VID) : t = Path(PD[cr3], PT, USER_VID)
    BY OneTranslation DEF MemoryInv
  <2> QED
    BY <2>6, <2>8, <2>9
<1> QED
  BY <1>1, MemoryInvariant, PTL

\* When every program asks for its arguments before the next command is
\* started, getargs tells each its own.
THEOREM ArgumentsOwn ==
  ASSUME Rule("prompt") PROVE Spec => []ArgsAreOwn
<1>1. MemoryInv => ArgsAreOwn
  BY DEF MemoryInv, ArgsInv, ArgsAreOwn, Live
<1> QED
  BY <1>1, MemoryInvariant, PTL

\* Unless a program passes one of the last three addresses of its page, vidmap
\* stores its result without a fault: for every pointer whatever.
THEOREM ResultsFit ==
  ASSUME Rule("room") PROVE Spec => []ResultFits
<1>1. MemoryInv => ResultFits
  BY DEF MemoryInv, ModeInv, ResultFits
<1> QED
  BY <1>1, MemoryInvariant, PTL
=============================================================================
