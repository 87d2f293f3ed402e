--------------------------- MODULE ProgramsProofs ---------------------------
(***************************************************************************)
(* Proofs about Programs, for every image, size of buffer, contents of the *)
(* files and argument.                                                     *)
(***************************************************************************)
EXTENDS Programs, FiniteSetTheorems, SequenceTheorems, WellFoundedInduction, TLAPS

-----------------------------------------------------------------------------
(* The constants.                                                           *)

LEMMA Sizes ==
  /\ BLOCKSIZE \in Nat /\ BLOCKSIZE > 0 /\ MAX_NAME_LENGTH \in Nat /\ MAX_NAME_LENGTH > 0
  /\ num_inodes \in Nat /\ num_data_blocks \in Nat /\ MAX_BLOCKS \in Nat
  /\ BUFSIZE \in Nat /\ BUFSIZE >= MAX_NAME_LENGTH /\ NFD \in Nat /\ NFD >= 4
  /\ WORD \in Nat /\ Len(dir_entries) < WORD
  /\ \A i \in K!Inode : index_nodes[i].length < WORD
  /\ \A s \in Screens : s \in Nat /\ s < WORD
  /\ Overrun \subseteq Nat
  BY ImageAssumption, ProgramsAssumption
     DEF K!SizesAssumption, K!TableAssumption, K!WordAssumption

LEMMA ThePid == p \in Pid /\ Pid = {p}
  BY ProgramsAssumption DEF p

(* The descriptors of the program.                                          *)
Kept(n, op) == fds[p][n].file_op = op /\ fds[p][n].flags = 1

(* Those below n are in use and the others are not.                         *)
UpTo(n) == \A f \in K!Fd : fds[p][f].flags = IF f < n THEN 1 ELSE 0

KernelInv ==
  /\ live = {p}
  /\ fds \in [Pid -> [K!Fd -> K!Entry]]
  /\ reply.ret \in Int
  /\ Kept(0, "stdin") /\ Kept(1, "stdout")

LEMMA FdFacts == 0 \in K!Fd /\ 1 \in K!Fd /\ 2 \in K!Fd /\ 3 \in K!Fd
  BY Sizes DEF K!Fd

LEMMA KernelInit == Init => KernelInv /\ UpTo(2)
  <1> SUFFICES ASSUME Init PROVE KernelInv /\ UpTo(2)
    OBVIOUS
  <1>1. PICK s \in Screens : fds = [q \in Pid |-> K!Fresh(q, s)]
    BY DEF Init
  <1>2. s \in 0 .. WORD - 1 /\ 0 \in 0 .. WORD - 1
    BY Sizes
  <1>3. /\ K!InUse("stdin", NULL) \in K!Entry
        /\ [K!InUse("stdout", NULL) EXCEPT !.file_pos = s] \in K!Entry
        /\ K!Blank \in K!Entry
    BY <1>2 DEF K!InUse, K!Entry, K!Blank, K!Driver
  <1>4. K!Fresh(p, s) \in [K!Fd -> K!Entry]
    BY <1>3 DEF K!Fresh
  <1>5. fds \in [Pid -> [K!Fd -> K!Entry]] /\ fds[p] = K!Fresh(p, s)
    BY <1>1, <1>4, ThePid
  <1>6. Kept(0, "stdin") /\ Kept(1, "stdout")
    BY <1>5, FdFacts DEF Kept, K!Fresh, K!InUse
  <1>7. UpTo(2)
    BY <1>5, FdFacts DEF UpTo, K!Fresh, K!InUse, K!Blank, K!Fd
  <1> QED BY <1>5, <1>6, <1>7 DEF Init, KernelInv, K!Reply

LEMMA Free ==
  ASSUME KernelInv, NEW n \in 0 .. NFD, UpTo(n)
  PROVE  /\ n < NFD => K!FirstFree(p) = {n}
         /\ n = NFD => K!FirstFree(p) = {}
  BY Sizes DEF UpTo, K!FirstFree, K!Fd

-----------------------------------------------------------------------------
(* What the kernel's calls do for the program.                              *)

LEMMA OneDentry ==
  ASSUME NEW name, NEW d \in K!read_dentry_by_name(name), NEW e \in K!read_dentry_by_name(name)
  PROVE  d = e
  <1>1. DOMAIN dir_entries \subseteq Nat
    BY ImageAssumption DEF K!DirectoryAssumption
  <1> QED BY <1>1 DEF K!read_dentry_by_name, K!Matches

LEMMA DirectoryType ==
  /\ dir_entries \in Seq([file_name : Seq(CHAR), file_type : Nat, inode_num : Nat])
  /\ Len(dir_entries) \in Nat /\ DOMAIN dir_entries = 1 .. Len(dir_entries)
  /\ \A i \in DOMAIN dir_entries :
       /\ dir_entries[i] \in [file_name : K!Name, file_type : Nat, inode_num : Nat]
       /\ Len(dir_entries[i].file_name) \in 1 .. MAX_NAME_LENGTH - 1
  <1>1. dir_entries \in Seq([file_name : K!Name, file_type : Nat, inode_num : Nat])
    BY ImageAssumption DEF K!DirectoryAssumption
  <1>2. Len(dir_entries) \in Nat /\ DOMAIN dir_entries = 1 .. Len(dir_entries)
    BY <1>1
  <1>3. ASSUME NEW i \in DOMAIN dir_entries
        PROVE  /\ dir_entries[i] \in [file_name : K!Name, file_type : Nat, inode_num : Nat]
               /\ Len(dir_entries[i].file_name) \in 1 .. MAX_NAME_LENGTH - 1
    <2>1. dir_entries[i] \in [file_name : K!Name, file_type : Nat, inode_num : Nat]
      <3>1. i \in 1 .. Len(dir_entries)
        BY <1>2
      <3> QED BY <1>1, <3>1, ElementOfSeq
    <2>2. dir_entries[i].file_name # <<>> /\ Len(dir_entries[i].file_name) < MAX_NAME_LENGTH
      BY ImageAssumption DEF K!NamesTerminated
    <2>3. dir_entries[i].file_name \in Seq(CHAR)
      BY <2>1 DEF K!Name
    <2>4. Len(dir_entries[i].file_name) \in Nat \ {0}
      BY <2>2, <2>3, EmptySeq
    <2> QED BY <2>1, <2>2, <2>4, Sizes
  <1> QED BY <1>1, <1>2, <1>3 DEF K!Name

LEMMA DentryType ==
  ASSUME NEW name, NEW d \in K!read_dentry_by_name(name)
  PROVE  /\ \E i \in DOMAIN dir_entries : d = dir_entries[i]
         /\ d.inode_num \in Nat /\ d.file_type \in Nat /\ d.file_name \in Seq(CHAR)
  <1>1. PICK i \in DOMAIN dir_entries : d = dir_entries[i]
    BY DEF K!read_dentry_by_name, K!Matches
  <1>2. dir_entries[i] \in [file_name : K!Name, file_type : Nat, inode_num : Nat]
    BY DirectoryType
  <1> QED BY <1>1, <1>2 DEF K!Name

LEMMA OpenedEntry ==
  ASSUME NEW name, NEW d \in K!read_dentry_by_name(name), NEW e \in K!Opened(d, K!Blank)
  PROVE  /\ e \in K!Entry /\ e.flags = 1 /\ e.file_pos = 0
         /\ e.file_op \in {"rtc", "dir", "file"}
         /\ e.file_op = "dir" <=> d.file_type = K!DIRECTORY
         /\ e.file_op = "file" <=> IsText(d)
         /\ e.file_op = "file" => e.inode_ptr = d.inode_num
  <1>1. \/ d.file_type = K!RTC /\ e = K!InUse("rtc", NULL)
        \/ d.file_type = K!DIRECTORY /\ e = K!InUse("dir", NULL)
        \/ d.file_type = K!FILE /\ d.inode_num < num_inodes /\ e = K!InUse("file", d.inode_num)
    BY DEF K!Opened
  <1>2. d.inode_num \in Nat /\ 0 \in 0 .. WORD - 1 /\ num_inodes \in Nat
    BY DentryType, Sizes
  <1>3. IsText(d) <=> d.file_type = K!FILE /\ d.inode_num < num_inodes
    BY <1>2 DEF IsText, K!Inode
  <1>4. d.inode_num < num_inodes => d.inode_num \in K!Inode
    BY <1>2 DEF K!Inode
  <1> QED BY <1>1, <1>2, <1>3, <1>4 DEF K!InUse, K!Entry, K!Driver, K!RTC, K!DIRECTORY, K!FILE

LEMMA OpenReply ==
  ASSUME KernelInv, NEW n \in 2 .. NFD - 1, UpTo(n), NEW name, K!Open(p, name)
  PROVE  /\ live' = live /\ KernelInv'
         /\ \/ /\ \E d \in K!read_dentry_by_name(name) : \E e \in K!Opened(d, K!Blank) :
                    fds' = [fds EXCEPT ![p][n] = e] /\ fds'[p][n] = e
               /\ reply'.ret = n /\ UpTo(n + 1)'
            \/ /\ fds' = fds /\ reply'.ret = K!FAIL
               /\ \A d \in K!read_dentry_by_name(name) : K!Opened(d, K!Blank) = {}
  <1>1. K!FirstFree(p) = {n} /\ n \in K!Fd /\ p \in Pid
    BY Free, Sizes, ThePid DEF K!Fd
  <1>2. \A d, old : K!Opened(d, old) = K!Opened(d, K!Blank)
    BY DEF K!Opened
  <1>3. CASE \E d \in K!read_dentry_by_name(name) : \E e \in K!Opened(d, K!Blank) :
               /\ fds' = [fds EXCEPT ![p][n] = e]
               /\ reply' = K!Reply(K!OpenCall(p, name), n, K!NoBytes)
    <2>0. PICK d \in K!read_dentry_by_name(name) : \E e \in K!Opened(d, K!Blank) :
               /\ fds' = [fds EXCEPT ![p][n] = e]
               /\ reply' = K!Reply(K!OpenCall(p, name), n, K!NoBytes)
      BY <1>3
    <2>1. PICK e \in K!Opened(d, K!Blank) :
               /\ fds' = [fds EXCEPT ![p][n] = e]
               /\ reply' = K!Reply(K!OpenCall(p, name), n, K!NoBytes)
      BY <2>0
    <2>2. e \in K!Entry /\ e.flags = 1
      BY OpenedEntry
    <2>3. /\ fds' \in [Pid -> [K!Fd -> K!Entry]] /\ fds'[p][n] = e
          /\ \A f \in K!Fd : f # n => fds'[p][f] = fds[p][f]
      BY <1>1, <2>1, <2>2 DEF KernelInv
    <2>4. reply'.ret = n /\ n \in Int /\ live' = live
      BY <2>1 DEF K!Reply, K!Open
    <2>5. Kept(0, "stdin")' /\ Kept(1, "stdout")'
      BY <2>3, FdFacts DEF KernelInv, Kept
    <2>6. UpTo(n + 1)'
      BY <2>2, <2>3, Sizes DEF UpTo, K!Fd
    <2> QED BY <2>1, <2>3, <2>4, <2>5, <2>6 DEF KernelInv
  <1>4. CASE /\ \A d \in K!read_dentry_by_name(name) : K!Opened(d, K!Blank) = {}
             /\ fds' = fds /\ reply' = K!Reply(K!OpenCall(p, name), K!FAIL, K!NoBytes)
    <2>1. reply'.ret = K!FAIL /\ K!FAIL \in Int /\ live' = live
      BY <1>4 DEF K!Reply, K!Open, K!FAIL
    <2> QED BY <1>4, <2>1 DEF KernelInv, Kept
  <1> QED BY <1>1, <1>2, <1>3, <1>4 DEF K!Open

LEMMA OpenFull ==
  ASSUME KernelInv, UpTo(NFD), NEW name, K!Open(p, name)
  PROVE  KernelInv' /\ fds' = fds /\ reply'.ret = K!FAIL
  <1>1. K!FirstFree(p) = {}
    BY Free, Sizes
  <1>2. live' = live /\ fds' = fds /\ reply'.ret = K!FAIL /\ K!FAIL \in Int
    BY <1>1 DEF K!Open, K!Reply, K!FAIL
  <1> QED BY <1>2 DEF KernelInv, Kept

(* A text as far as it has been read.                                       *)
Sign == CHAR \cup {NL}
Part(t, a, b) == [k \in 1 .. b - a |-> t[a + k]]
Readable(i, n) == \A x \in 0 .. n - 1 : K!Intact(i, x)

LEMMA ReadableSign ==
  ASSUME content \in Contents, NEW i \in K!Inode, NEW x \in 0 .. index_nodes[i].length - 1,
         K!Intact(i, x)
  PROVE  Text(i)[x + 1] = content[K!ByteAt(i, x)] /\ Text(i)[x + 1] \in Sign
  <1>1. /\ index_nodes[i].length \in Nat
        /\ index_nodes[i].data_block_nums \in [0 .. MAX_BLOCKS - 1 -> Nat]
        /\ index_nodes[i].length <= MAX_BLOCKS * BLOCKSIZE
    BY ImageAssumption DEF K!InodesAssumption
  <1>2. x \in Nat /\ x + 1 \in 1 .. index_nodes[i].length /\ (x + 1) - 1 = x
    BY <1>1
  <1>3. Text(i)[x + 1] = content[K!ByteAt(i, x)]
    BY <1>2 DEF Text
  <1>4. x \div BLOCKSIZE \in 0 .. MAX_BLOCKS - 1 /\ x % BLOCKSIZE \in 0 .. BLOCKSIZE - 1
    <2>1. x < BLOCKSIZE * MAX_BLOCKS
      BY <1>1, <1>2, Sizes
    <2> QED BY <1>2, <2>1, Sizes
  <1>5. index_nodes[i].data_block_nums[x \div BLOCKSIZE] \in 0 .. num_data_blocks - 1
    <2> DEFINE q == x \div BLOCKSIZE
               b == index_nodes[i].data_block_nums[q]
    <2>1. b \in Nat
      <3>1. q \in 0 .. MAX_BLOCKS - 1
        BY <1>4
      <3> HIDE DEF q
      <3> QED BY <1>1, <3>1
    <2>2. b < num_data_blocks
      BY DEF K!Intact
    <2>3. num_data_blocks \in Nat
      BY Sizes
    <2> HIDE DEF b, q
    <2>4. b \in 0 .. num_data_blocks - 1
      BY <2>1, <2>2, <2>3
    <2> QED BY <2>4 DEF b, q
  <1>6. content \in [(0..num_data_blocks - 1) \X (0..BLOCKSIZE - 1) -> CHAR \cup {NL}]
    BY TextAssumption
  <1>7. K!ByteAt(i, x) \in (0..num_data_blocks - 1) \X (0..BLOCKSIZE - 1)
    BY <1>4, <1>5 DEF K!ByteAt
  <1> QED BY <1>3, <1>6, <1>7 DEF Sign

LEMMA PartSeq ==
  ASSUME NEW t, NEW a \in Nat, NEW b \in Nat, a <= b, \A k \in a + 1 .. b : t[k] \in Sign
  PROVE  Part(t, a, b) \in Seq(Sign) /\ Len(Part(t, a, b)) = b - a
  <1>1. \A k \in 1 .. b - a : t[a + k] \in Sign
    <2>1. \A k \in 1 .. b - a : a + k \in a + 1 .. b
      OBVIOUS
    <2> QED BY <2>1
  <1>2. b - a \in Nat
    OBVIOUS
  <1> QED BY <1>1, <1>2 DEF Part

(* A descriptor from which text i is read.                                  *)
HasText(f, i) ==
  /\ fds[p][f].flags = 1 /\ fds[p][f].file_op = "file" /\ fds[p][f].inode_ptr = i
  /\ i \in K!Inode
  /\ fds[p][f].file_pos <= index_nodes[i].length
  /\ Readable(i, fds[p][f].file_pos)

Moved(f, pos) ==
  /\ fds' = [fds EXCEPT ![p][f].file_pos = pos]
  /\ fds'[p][f] = [fds[p][f] EXCEPT !.file_pos = pos]
  /\ \A g \in K!Fd : g # f => fds'[p][g] = fds[p][g]

LEMMA MovedKernel ==
  ASSUME KernelInv, NEW f \in K!Fd, NEW pos \in 0 .. WORD - 1, live' = live, reply'.ret \in Int,
         fds' = [fds EXCEPT ![p][f].file_pos = pos]
  PROVE  /\ KernelInv' /\ Moved(f, pos)
         /\ \A n \in Nat : UpTo(n) => UpTo(n)'
  <1>1. fds[p][f] \in K!Entry /\ fds \in [Pid -> [K!Fd -> K!Entry]] /\ p \in Pid
    BY ThePid DEF KernelInv
  <1>2. [fds[p][f] EXCEPT !.file_pos = pos] \in K!Entry
    BY <1>1 DEF K!Entry
  <1>3. Moved(f, pos) /\ fds' \in [Pid -> [K!Fd -> K!Entry]]
    BY <1>1, <1>2 DEF Moved
  <1>4. \A g \in K!Fd : /\ fds'[p][g].flags = fds[p][g].flags
                        /\ fds'[p][g].file_op = fds[p][g].file_op
    BY <1>1, <1>3 DEF Moved, K!Entry
  <1>5. Kept(0, "stdin")' /\ Kept(1, "stdout")'
    BY <1>4, FdFacts DEF KernelInv, Kept
  <1>6. \A n \in Nat : UpTo(n) => UpTo(n)'
    BY <1>4 DEF UpTo
  <1> QED BY <1>3, <1>5, <1>6 DEF KernelInv

(* The replies to reads.                                                    *)

LEMMA IntervalSize == \A c \in Nat : Cardinality(0 .. c - 1) = c
  <1> SUFFICES ASSUME NEW c \in Nat PROVE Cardinality(0 .. c - 1) = c
    OBVIOUS
  <1>1. Cardinality(0 .. c - 1) = IF 0 > c - 1 THEN 0 ELSE (c - 1) - 0 + 1
    BY FS_Interval, 0 \in Int, c - 1 \in Int
  <1> QED BY <1>1

LEMMA Positions ==
  ASSUME KernelInv, NEW f \in K!Fd
  PROVE  /\ fds[p][f] \in K!Entry /\ p \in Pid
         /\ fds[p][f].file_pos \in Nat /\ fds[p][f].file_pos < WORD
  <1>1. fds[p][f] \in K!Entry /\ p \in Pid
    BY ThePid DEF KernelInv
  <1>2. fds[p][f].file_pos \in 0 .. WORD - 1
    BY <1>1 DEF K!Entry
  <1> QED BY <1>1, <1>2, Sizes

LEMMA Directory ==
  /\ Len(dir_entries) \in Nat /\ DOMAIN dir_entries = 1 .. Len(dir_entries)
  /\ Len(dir_entries) < WORD /\ WORD \in Nat /\ WORD > 0
  <1>1. Len(dir_entries) \in Nat /\ DOMAIN dir_entries = 1 .. Len(dir_entries)
    BY DirectoryType
  <1>2. Len(dir_entries) < WORD /\ WORD \in Nat
    BY Sizes
  <1> QED BY <1>1, <1>2

LEMMA EntryName ==
  ASSUME NEW i \in DOMAIN dir_entries
  PROVE  /\ dir_entries[i].file_name \in Seq(CHAR)
         /\ Len(dir_entries[i].file_name) \in Nat /\ Len(dir_entries[i].file_name) > 0
         /\ Len(dir_entries[i].file_name) < MAX_NAME_LENGTH
         /\ MAX_NAME_LENGTH \in Nat
  <1>1. dir_entries[i] \in [file_name : K!Name, file_type : Nat, inode_num : Nat]
    BY DirectoryType
  <1>2. dir_entries[i].file_name \in Seq(CHAR)
    BY <1>1 DEF K!Name
  <1>3. Len(dir_entries[i].file_name) \in 1 .. MAX_NAME_LENGTH - 1
    BY DirectoryType
  <1>4. MAX_NAME_LENGTH \in Nat
    BY Sizes
  <1> QED BY <1>2, <1>3, <1>4

LEMMA EmptyReply ==
  ASSUME NEW r, r.data = K!NoBytes
  PROVE  DataOf(r) = <<>> /\ NameOf(r) = <<>>
  <1>1. Cardinality(DOMAIN r.data) = 0
    BY FS_EmptySet DEF K!NoBytes
  <1> QED BY <1>1 DEF DataOf, NameOf

LEMMA ReadKernel ==
  ASSUME KernelInv, NEW f \in Int, NEW n \in Nat, K!Read(p, f, n)
  PROVE  /\ KernelInv' /\ \A m \in Nat : UpTo(m) => UpTo(m)'
         /\ ~K!Valid(p, f, n, K!HasRead) => fds' = fds /\ reply'.ret = K!FAIL
         /\ reply'.ret \in Int
  <1>1. CASE K!FileRead(p, f, n)
    <2> DEFINE ret == K!read_data(fds[p][f].inode_ptr, fds[p][f].file_pos, n).ret
               pos == (fds[p][f].file_pos + ret) % WORD
    <2>1. f \in K!Fd /\ fds[p][f] \in K!Entry /\ K!Valid(p, f, n, K!HasRead)
      BY <1>1, ThePid DEF K!FileRead, K!Valid, KernelInv, K!HasRead
    <2>2. ret \in Int
      <3>1. CASE fds[p][f].inode_ptr \in K!Inode
        <4>1. index_nodes[fds[p][f].inode_ptr].length \in Nat /\ fds[p][f].file_pos \in Nat
          BY <2>1, <3>1, ImageAssumption, Sizes DEF K!InodesAssumption, K!Entry
        <4> QED BY <4>1 DEF K!read_data, K!Available, K!FAIL
      <3> QED BY <3>1 DEF K!read_data, K!FAIL
    <2>3. pos \in 0 .. WORD - 1
      <3> HIDE DEF ret
      <3>1. fds[p][f].file_pos + ret \in Int
        BY <2>1, <2>2, Positions
      <3>2. WORD \in Nat /\ WORD > 0
        BY Directory
      <3> QED BY <3>1, <3>2
    <2>4. fds' = [fds EXCEPT ![p][f].file_pos = pos] /\ live' = live
      BY <1>1 DEF K!FileRead, K!NextPos, K!Read
    <2>5. reply'.ret = ret
      BY <1>1 DEF K!FileRead, K!Reply
    <2> HIDE DEF pos, ret
    <2> QED BY <2>1, <2>2, <2>3, <2>4, <2>5, MovedKernel
  <1>2. CASE K!DirRead(p, f, n)
    <2>1. f \in K!Fd /\ fds[p][f] \in K!Entry /\ K!Valid(p, f, n, K!HasRead) /\ live' = live
      BY <1>2, ThePid DEF K!DirRead, K!Valid, KernelInv, K!HasRead, K!Read
    <2>2. CASE fds[p][f].file_pos >= Len(dir_entries)
      <3>1. fds' = fds /\ reply'.ret = 0
        BY <1>2, <2>2 DEF K!DirRead, K!Reply
      <3> QED BY <2>1, <3>1 DEF KernelInv, Kept, UpTo
    <2>3. CASE ~(fds[p][f].file_pos >= Len(dir_entries))
      <3> DEFINE i == fds[p][f].file_pos + 1
                 pos == (fds[p][f].file_pos + 1) % WORD
      <3>1. i \in DOMAIN dir_entries /\ fds[p][f].file_pos + 1 \in Nat /\ WORD \in Nat /\ WORD > 0
        BY <2>1, <2>3, Positions, Directory
      <3>2. pos \in 0 .. WORD - 1
        BY <3>1
      <3>3. Len(dir_entries[i].file_name) \in Nat
        BY <3>1, EntryName
      <3>4. fds' = [fds EXCEPT ![p][f].file_pos = pos]
        BY <1>2, <2>3 DEF K!DirRead
      <3>5. reply'.ret \in Int
        <4>1. \E o \in Overrun : reply'.ret \in
                {Len(dir_entries[i].file_name), Len(dir_entries[i].file_name) + o, n, n + o,
                 MAX_NAME_LENGTH, MAX_NAME_LENGTH + o}
          BY <1>2, <2>3 DEF K!DirRead, K!Reply
        <4> QED BY <4>1, <3>3, Sizes
      <3> HIDE DEF pos
      <3> QED BY <2>1, <3>2, <3>4, <3>5, MovedKernel
    <2> QED BY <2>2, <2>3
  <1>3. CASE K!OtherRead(p, f, n)
    <2>1. fds' = fds /\ live' = live
      BY <1>3 DEF K!OtherRead, K!Read
    <2>2. /\ reply'.ret \in {0, n, K!FAIL}
          /\ ~K!Valid(p, f, n, K!HasRead) => reply'.ret = K!FAIL
      BY <1>3 DEF K!OtherRead, K!Reply
    <2>3. reply'.ret \in Int
      BY <2>2 DEF K!FAIL
    <2> QED BY <2>1, <2>2, <2>3 DEF KernelInv, Kept, UpTo
  <1> QED BY <1>1, <1>2, <1>3 DEF K!Read

LEMMA DirReply ==
  ASSUME KernelInv, NEW f \in K!Fd, fds[p][f].flags = 1, fds[p][f].file_op = "dir",
         fds[p][f].file_pos <= Len(dir_entries), NEW n \in Nat, n >= MAX_NAME_LENGTH,
         K!Read(p, f, n)
  PROVE  \/ /\ fds[p][f].file_pos = Len(dir_entries) /\ fds' = fds
            /\ reply'.ret = 0 /\ NameOf(reply') = <<>>
         \/ /\ fds[p][f].file_pos + 1 \in DOMAIN dir_entries
            /\ Moved(f, fds[p][f].file_pos + 1)
            /\ NameOf(reply') = dir_entries[fds[p][f].file_pos + 1].file_name
            /\ reply'.ret = Len(dir_entries[fds[p][f].file_pos + 1].file_name)
  <1>1. K!DirRead(p, f, n)
    <2>1. K!Valid(p, f, n, {"dir"}) /\ K!Valid(p, f, n, {"file", "dir"}) /\ ~K!Valid(p, f, n, {"file"})
      BY DEF K!Valid
    <2> QED BY <2>1 DEF K!Read, K!FileRead, K!OtherRead
  <1>2. CASE fds[p][f].file_pos >= Len(dir_entries)
    <2>1. fds' = fds /\ reply'.ret = 0 /\ reply'.data = K!NoBytes
      BY <1>1, <1>2 DEF K!DirRead, K!Reply
    <2>2. fds[p][f].file_pos = Len(dir_entries)
      BY <1>2, Positions, Directory
    <2> QED BY <2>1, <2>2, EmptyReply
  <1>3. CASE ~(fds[p][f].file_pos >= Len(dir_entries))
    <2> DEFINE i == fds[p][f].file_pos + 1
               name == dir_entries[i].file_name
    <2>1. i \in DOMAIN dir_entries /\ i \in Nat /\ i < WORD
      BY <1>3, Positions, Directory
    <2>2. /\ Len(name) \in Nat /\ Len(name) < MAX_NAME_LENGTH /\ name \in Seq(CHAR)
          /\ MAX_NAME_LENGTH \in Nat
      BY <2>1, EntryName
    <2>3. i % WORD = i
      BY <2>1, Directory, SMTT(30)
    <2>4. fds' = [fds EXCEPT ![p][f].file_pos = i]
      <3>1. fds' = [fds EXCEPT ![p][f].file_pos = (@ + 1) % WORD]
        BY <1>1, <1>3 DEF K!DirRead
      <3> QED BY <2>3, <3>1
    <2>5. live' = live /\ i \in 0 .. WORD - 1
      BY <2>1, Sizes DEF K!Read
    <2>6. reply'.ret = Len(name) /\ reply'.data = [k \in 0 .. Len(name) - 1 |-> name[k + 1]]
      <3>1. Len(name) < (IF n > MAX_NAME_LENGTH THEN MAX_NAME_LENGTH ELSE n)
        <4> HIDE DEF name
        <4> QED BY <2>2
      <3>2. \E over \in Overrun :
              reply' = K!Reply(K!Call(p, "read", f, n), Len(name),
                               [k \in 0 .. Len(name) - 1 |-> name[k + 1]])
        BY <1>1, <1>3, <3>1 DEF K!DirRead
      <3> QED BY <3>2 DEF K!Reply
    <2>7. reply'.ret \in Int
      BY <2>2, <2>6
    <2>8. Moved(f, i)
      BY <2>4, <2>5, <2>7, MovedKernel
    <2>9. NameOf(reply') = name
      <3>1. Cardinality(DOMAIN reply'.data) = Len(name)
        BY <2>2, <2>6, IntervalSize
      <3> HIDE DEF name
      <3>2. \A k \in 1 .. Len(name) : reply'.data[k - 1] = name[k]
        BY <2>2, <2>6
      <3>3. NameOf(reply') = [k \in 1 .. Len(name) |-> name[k]]
        BY <3>1, <3>2 DEF NameOf
      <3> QED BY <2>2, <3>3
    <2> QED BY <2>1, <2>6, <2>8, <2>9
  <1> QED BY <1>2, <1>3

LEMMA RtcReply ==
  ASSUME KernelInv, NEW f \in K!Fd, fds[p][f].flags = 1, fds[p][f].file_op = "rtc",
         NEW n \in Nat, K!Read(p, f, n)
  PROVE  fds' = fds /\ reply'.ret = 0 /\ DataOf(reply') = <<>>
  <1>1. K!Valid(p, f, n, K!HasRead) /\ ~K!Valid(p, f, n, {"dir"}) /\ ~K!Valid(p, f, n, {"file"})
    BY DEF K!Valid, K!HasRead
  <1>2. K!OtherRead(p, f, n)
    BY <1>1 DEF K!Read, K!DirRead, K!FileRead
  <1>3. fds' = fds /\ reply'.ret = 0 /\ reply'.data = K!NoBytes
    BY <1>1, <1>2 DEF K!OtherRead, K!Reply
  <1> QED BY <1>3, EmptyReply

LEMMA Inodes ==
  ASSUME NEW i \in K!Inode
  PROVE  index_nodes[i].length \in Nat /\ index_nodes[i].length < WORD
         /\ WORD \in Nat /\ WORD > 0 /\ Len(Text(i)) = index_nodes[i].length
  <1>1. index_nodes[i].length \in Nat
    BY ImageAssumption DEF K!InodesAssumption
  <1>2. index_nodes[i].length < WORD
    BY Sizes
  <1>3. Len(Text(i)) = index_nodes[i].length
    BY <1>1 DEF Text
  <1> QED BY <1>1, <1>2, <1>3, Directory

Left(i, pos, n) == IF pos + n > Len(Text(i)) THEN Len(Text(i)) - pos ELSE n

LEMMA TextReply ==
  ASSUME KernelInv, content \in Contents, NEW f \in K!Fd, NEW i, HasText(f, i),
         NEW n \in Nat, K!Read(p, f, n)
  PROVE  \/ reply'.ret = K!FAIL /\ DataOf(reply') = <<>>
            /\ \E x \in 0 .. Len(Text(i)) - 1 : ~K!Intact(i, x)
         \/ \E pos \in 0 .. Len(Text(i)) : \E c \in 0 .. n :
              /\ fds[p][f].file_pos = pos /\ c = Left(i, pos, n)
              /\ pos + c <= Len(Text(i)) /\ reply'.ret = c
              /\ Moved(f, pos + c) /\ HasText(f, i)'
              /\ DataOf(reply') = Part(Text(i), pos, pos + c)
              /\ DataOf(reply') \in Seq(Sign) /\ Len(DataOf(reply')) = c
              /\ \A k \in 1 .. c : DataOf(reply')[k] = Text(i)[pos + k]
  <1> DEFINE pos == fds[p][f].file_pos
             len == index_nodes[i].length
             c == K!Available(i, pos, n)
  <1>1. K!FileRead(p, f, n)
    <2>1. K!Valid(p, f, n, {"file"}) /\ K!Valid(p, f, n, {"file", "dir"}) /\ ~K!Valid(p, f, n, {"dir"})
      BY DEF K!Valid, HasText
    <2> QED BY <2>1 DEF K!Read, K!DirRead, K!OtherRead
  <1>2. i \in K!Inode /\ pos <= len /\ fds[p][f].inode_ptr = i /\ Readable(i, pos)
    BY DEF HasText
  <1>3. pos \in Nat /\ len \in Nat /\ len < WORD /\ WORD \in Nat /\ WORD > 0 /\ Len(Text(i)) = len
    BY <1>2, Positions, Inodes
  <1>4. c \in 0 .. n /\ c = Left(i, pos, n) /\ pos + c <= len /\ c \in Nat
    <2>1. c = IF pos >= len THEN 0 ELSE IF pos + n > len THEN len - pos ELSE n
      BY DEF K!Available
    <2>2. Left(i, pos, n) = IF pos + n > len THEN len - pos ELSE n
      BY <1>3 DEF Left
    <2> HIDE DEF pos, len, c
    <2> QED BY <1>2, <1>3, <2>1, <2>2
  <1>5. live' = live
    BY DEF K!Read
  <1>6. CASE ~(\A x \in pos .. pos + c - 1 : K!Intact(i, x))
    <2>1. K!read_data(i, pos, n) = [ret |-> K!FAIL, data |-> K!NoBytes]
      BY <1>2, <1>6 DEF K!read_data
    <2>2. reply'.ret = K!FAIL /\ reply'.data = K!NoBytes
      BY <1>1, <1>2, <2>1 DEF K!FileRead, K!Reply
    <2>3. PICK x \in pos .. pos + c - 1 : ~K!Intact(i, x)
      BY <1>6
    <2>4. x \in 0 .. Len(Text(i)) - 1
      <3> HIDE DEF pos, len, c
      <3> QED BY <1>3, <1>4, <2>3
    <2> QED BY <2>2, <2>3, <2>4, EmptyReply
  <1>7. CASE \A x \in pos .. pos + c - 1 : K!Intact(i, x)
    <2>1. K!read_data(i, pos, n) = [ret |-> c, data |-> K!Bytes(i, pos, c)]
      BY <1>2, <1>7 DEF K!read_data
    <2>2. reply'.ret = c /\ reply'.data = K!Bytes(i, pos, c)
      BY <1>1, <1>2, <2>1 DEF K!FileRead, K!Reply
    <2>3. fds' = [fds EXCEPT ![p][f].file_pos = K!NextPos(fds[p][f], c, n)]
      BY <1>1, <1>2, <2>1 DEF K!FileRead
    <2>4. K!NextPos(fds[p][f], c, n) = pos + c /\ pos + c \in 0 .. WORD - 1
      <3>1. K!NextPos(fds[p][f], c, n) = (pos + c) % WORD
        BY DEF K!NextPos
      <3> HIDE DEF pos, len, c
      <3>2. pos + c \in Nat /\ pos + c < WORD
        BY <1>3, <1>4
      <3>3. (pos + c) % WORD = pos + c
        BY <3>2, <1>3
      <3> QED BY <3>1, <3>2, <3>3, <1>3
    <2>5. c \in Int
      <3> HIDE DEF c
      <3> QED BY <1>4
    <2>6. Moved(f, pos + c)
      BY <1>5, <2>2, <2>3, <2>4, <2>5, MovedKernel
    <2>7. Readable(i, pos + c)
      <3> HIDE DEF pos, c
      <3> QED BY <1>2, <1>3, <1>4, <1>7 DEF Readable
    <2>8. HasText(f, i)'
      <3>1. fds'[p][f] = [fds[p][f] EXCEPT !.file_pos = pos + c] /\ fds[p][f] \in K!Entry
        BY <2>6, Positions DEF Moved
      <3>2. /\ fds'[p][f].flags = 1 /\ fds'[p][f].file_op = "file" /\ fds'[p][f].inode_ptr = i
            /\ fds'[p][f].file_pos = pos + c
        BY <3>1 DEF HasText, K!Entry
      <3> QED BY <1>2, <1>4, <2>7, <3>2 DEF HasText, Readable
    <2>9. \A k \in 1 .. pos + c : Text(i)[k] \in Sign
      <3> SUFFICES ASSUME NEW k \in 1 .. pos + c PROVE Text(i)[k] \in Sign
        OBVIOUS
      <3> HIDE DEF pos, c
      <3>1. k - 1 \in 0 .. index_nodes[i].length - 1 /\ k - 1 \in 0 .. (pos + c) - 1 /\ (k - 1) + 1 = k
        BY <1>3, <1>4 DEF len
      <3>2. K!Intact(i, k - 1)
        BY <2>7, <3>1 DEF Readable
      <3>3. Text(i)[(k - 1) + 1] \in Sign
        BY <1>2, <3>1, <3>2, ReadableSign
      <3> QED BY <3>1, <3>3
    <2>10. DataOf(reply') = Part(Text(i), pos, pos + c)
      <3>1. Cardinality(DOMAIN reply'.data) = c
        BY <1>4, <2>2, IntervalSize DEF K!Bytes
      <3>2. \A k \in 1 .. c : content[reply'.data[k - 1]] = Text(i)[pos + k]
        <4> SUFFICES ASSUME NEW k \in 1 .. c
                     PROVE  content[reply'.data[k - 1]] = Text(i)[pos + k]
          OBVIOUS
        <4>1. /\ pos + k - 1 \in 0 .. index_nodes[i].length - 1 /\ pos + k - 1 \in 0 .. (pos + c) - 1
              /\ (pos + k - 1) + 1 = pos + k /\ k - 1 \in 0 .. c - 1 /\ pos + (k - 1) = pos + k - 1
          <5> HIDE DEF pos, c
          <5> QED BY <1>3, <1>4, SMTT(30) DEF len
        <4>2. reply'.data[k - 1] = K!ByteAt(i, pos + k - 1)
          BY <2>2, <4>1 DEF K!Bytes
        <4>3. K!Intact(i, pos + k - 1)
          BY <2>7, <4>1 DEF Readable
        <4>4. Text(i)[(pos + k - 1) + 1] = content[K!ByteAt(i, pos + k - 1)]
          BY <1>2, <4>1, <4>3, ReadableSign
        <4> QED BY <4>1, <4>2, <4>4
      <3>3. DataOf(reply') = [k \in 1 .. c |-> Text(i)[pos + k]]
        BY <3>1, <3>2 DEF DataOf
      <3>4. (pos + c) - pos = c
        <4> HIDE DEF pos, c
        <4> QED BY <1>3, <1>4
      <3> QED BY <3>3, <3>4 DEF Part
    <2>11. pos \in 0 .. Len(Text(i))
      <3> HIDE DEF pos, len
      <3> QED BY <1>2, <1>3
    <2>12. pos + c <= Len(Text(i))
      BY <1>3, <1>4
    <2>13. /\ DataOf(reply') \in Seq(Sign) /\ Len(DataOf(reply')) = c
           /\ \A k \in 1 .. c : DataOf(reply')[k] = Text(i)[pos + k]
      <3> DEFINE t == Text(i)
      <3>1. \A k \in 1 .. pos + c : t[k] \in Sign
        BY <2>9
      <3>2. DataOf(reply') = Part(t, pos, pos + c)
        BY <2>10
      <3> HIDE DEF pos, c, len, t
      <3>3. pos \in Nat /\ pos + c \in Nat /\ pos <= pos + c /\ (pos + c) - pos = c
        BY <1>3, <1>4
      <3>4. \A k \in pos + 1 .. pos + c : t[k] \in Sign
        BY <3>1, <3>3
      <3>5. Part(t, pos, pos + c) \in Seq(Sign) /\ Len(Part(t, pos, pos + c)) = (pos + c) - pos
        BY <3>3, <3>4, PartSeq
      <3>6. \A k \in 1 .. c : Part(t, pos, pos + c)[k] = t[pos + k]
        BY <3>3 DEF Part
      <3> QED BY <3>2, <3>3, <3>5, <3>6 DEF t
    <2> HIDE DEF pos, c, len
    <2> QED BY <1>4, <2>2, <2>6, <2>8, <2>10, <2>11, <2>12, <2>13 DEF pos
  <1> QED BY <1>6, <1>7

(* The other calls.                                                         *)

LEMMA OpenKernel ==
  ASSUME KernelInv, NEW name, K!Open(p, name)
  PROVE  KernelInv'
  <1>0. p \in Pid /\ live' = live
    BY ThePid DEF K!Open
  <1>1. \A f \in K!FirstFree(p) : f \in K!Fd /\ f # 0 /\ f # 1
    BY FdFacts DEF K!FirstFree, KernelInv, Kept
  <1>2. CASE \E f \in K!FirstFree(p), d \in K!read_dentry_by_name(name) :
               \E e \in K!Opened(d, fds[p][f]) :
                 /\ fds' = [fds EXCEPT ![p][f] = e]
                 /\ reply' = K!Reply(K!OpenCall(p, name), f, K!NoBytes)
    <2>1. PICK f \in K!FirstFree(p), d \in K!read_dentry_by_name(name) :
               \E e \in K!Opened(d, fds[p][f]) :
                 /\ fds' = [fds EXCEPT ![p][f] = e]
                 /\ reply' = K!Reply(K!OpenCall(p, name), f, K!NoBytes)
      BY <1>2
    <2>2. PICK e \in K!Opened(d, fds[p][f]) :
                 /\ fds' = [fds EXCEPT ![p][f] = e]
                 /\ reply' = K!Reply(K!OpenCall(p, name), f, K!NoBytes)
      BY <2>1
    <2>3. e \in K!Opened(d, K!Blank)
      BY <2>2 DEF K!Opened
    <2>4. e \in K!Entry
      BY <2>3, OpenedEntry
    <2>5. f \in K!Fd /\ f # 0 /\ f # 1
      BY <1>1
    <2>6. fds' \in [Pid -> [K!Fd -> K!Entry]] /\ fds'[p][0] = fds[p][0] /\ fds'[p][1] = fds[p][1]
      BY <1>0, <2>2, <2>4, <2>5, FdFacts DEF KernelInv
    <2>7. reply'.ret = f /\ f \in Int
      BY <2>2, <2>5, Sizes DEF K!Reply, K!Fd
    <2> QED BY <1>0, <2>6, <2>7 DEF KernelInv, Kept
  <1>3. CASE fds' = fds /\ reply' = K!Reply(K!OpenCall(p, name), K!FAIL, K!NoBytes)
    <2>1. reply'.ret \in Int
      BY <1>3 DEF K!Reply, K!FAIL
    <2> QED BY <1>0, <1>3, <2>1 DEF KernelInv, Kept
  <1> QED BY <1>2, <1>3 DEF K!Open

LEMMA WriteReply ==
  ASSUME KernelInv, NEW f \in Int, NEW n \in Int, K!Write(p, f, n)
  PROVE  /\ KernelInv' /\ fds' = fds
         /\ ~K!Valid(p, f, n, {"rtc", "stdout"}) => reply'.ret = K!FAIL
  <1>1. live' = live /\ fds' = fds /\ reply'.ret \in {K!FAIL, 0, n}
    BY DEF K!Write, K!Reply
  <1>2. K!HasWrite \ {"dir", "file"} = {"rtc", "stdout"}
    BY DEF K!HasWrite
  <1>3. ~K!Valid(p, f, n, {"rtc", "stdout"}) => reply'.ret = K!FAIL
    BY <1>2 DEF K!Write, K!Reply
  <1>4. reply'.ret \in Int
    BY <1>1 DEF K!FAIL
  <1> QED BY <1>1, <1>3, <1>4 DEF KernelInv, Kept

LEMMA CloseReply ==
  ASSUME KernelInv, NEW f \in Int, K!Close(p, f)
  PROVE  /\ KernelInv'
         /\ \/ /\ f < 2 \/ f \notin K!Fd \/ fds[p][f].flags = 0
               /\ fds' = fds /\ reply'.ret = K!FAIL
            \/ /\ f \in K!Fd /\ f >= 2 /\ fds[p][f].flags = 1 /\ reply'.ret = 0
               /\ fds'[p][f] = [fds[p][f] EXCEPT !.flags = 0]
               /\ \A g \in K!Fd : g # f => fds'[p][g] = fds[p][g]
  <1>0. live' = live /\ p \in Pid
    BY ThePid DEF K!Close
  <1>1. CASE f < 2 \/ f \notin K!Fd \/ fds[p][f].flags = 0
    <2>1. fds' = fds /\ reply'.ret = K!FAIL /\ K!FAIL \in Int
      BY <1>1 DEF K!Close, K!Reply, K!FIRST_USER_FD, K!FAIL
    <2> QED BY <1>0, <1>1, <2>1 DEF KernelInv, Kept
  <1>2. CASE ~(f < 2 \/ f \notin K!Fd \/ fds[p][f].flags = 0)
    <2>1. f \in K!Fd /\ f >= 2 /\ fds[p][f] \in K!Entry
      BY <1>2, Positions
    <2>2. fds[p][f].flags = 1 /\ [fds[p][f] EXCEPT !.flags = 0] \in K!Entry
      BY <1>2, <2>1 DEF K!Entry
    <2>3. fds' = [fds EXCEPT ![p][f] = [fds[p][f] EXCEPT !.flags = 0]] /\ reply'.ret = 0
      BY <1>2 DEF K!Close, K!Reply, K!FIRST_USER_FD, K!ClosedEntry
    <2>4. /\ fds' \in [Pid -> [K!Fd -> K!Entry]] /\ fds'[p][f] = [fds[p][f] EXCEPT !.flags = 0]
          /\ \A g \in K!Fd : g # f => fds'[p][g] = fds[p][g]
      BY <1>0, <2>1, <2>2, <2>3 DEF KernelInv
    <2>5. Kept(0, "stdin")' /\ Kept(1, "stdout")'
      BY <2>1, <2>4, FdFacts DEF KernelInv, Kept
    <2> QED BY <1>0, <2>1, <2>2, <2>3, <2>4, <2>5 DEF KernelInv
  <1> QED BY <1>1, <1>2

-----------------------------------------------------------------------------
(* The buffers.                                                             *)

LEMMA OverlaidType ==
  ASSUME NEW m \in Nat, NEW b \in [0 .. m -> Character], NEW at \in Nat, NEW s \in Seq(Character)
  PROVE  /\ Overlaid(b, at, s) \in [0 .. m -> Character]
         /\ \A i \in 0 .. m : /\ i < at => Overlaid(b, at, s)[i] = b[i]
                              /\ at + Len(s) <= i => Overlaid(b, at, s)[i] = b[i]
                              /\ at <= i /\ i < at + Len(s) => Overlaid(b, at, s)[i] = s[i - at + 1]
  <1>1. Len(s) \in Nat /\ \A k \in 1 .. Len(s) : s[k] \in Character
    BY ElementOfSeq
  <1>2. DOMAIN b = 0 .. m
    OBVIOUS
  <1>3. ASSUME NEW i \in 0 .. m
        PROVE  /\ Overlaid(b, at, s)[i] \in Character
               /\ i < at => Overlaid(b, at, s)[i] = b[i]
               /\ at + Len(s) <= i => Overlaid(b, at, s)[i] = b[i]
               /\ at <= i /\ i < at + Len(s) => Overlaid(b, at, s)[i] = s[i - at + 1]
    <2>1. Overlaid(b, at, s)[i] = IF i \in at .. at + Len(s) - 1 THEN s[i - at + 1] ELSE b[i]
      BY <1>2 DEF Overlaid
    <2>2. i \in at .. at + Len(s) - 1 <=> at <= i /\ i < at + Len(s)
      BY <1>1
    <2>3. i \in at .. at + Len(s) - 1 => i - at + 1 \in 1 .. Len(s)
      BY <1>1
    <2> QED BY <1>1, <2>1, <2>2, <2>3
  <1>4. Overlaid(b, at, s) = [i \in 0 .. m |-> Overlaid(b, at, s)[i]]
    BY <1>2 DEF Overlaid
  <1> QED BY <1>3, <1>4

(* A piece of output, and what the program asked for of it.                 *)
Output == {o \in [asked : Nat, shown : Seq(Character \cup Seq(Character))] :
             o.asked <= Len(o.shown)}

LEMMA WrotePiece ==
  ASSUME NEW m \in Nat, buf \in [0 .. m -> Character], NEW n \in 0 .. m + 1,
         \A i \in 0 .. n - 1 : buf[i] \in Sign, NEW k \in StrLens(buf)
  PROVE  /\ k \in Nat /\ n <= k
         /\ [asked |-> n, shown |-> Shown(buf, k)] \in Output
         /\ AskedFor([asked |-> n, shown |-> Shown(buf, k)]) = [i \in 1 .. n |-> buf[i - 1]]
         /\ Len(Shown(buf, k)) = k
  <1>1. DOMAIN buf = 0 .. m /\ Cardinality(0 .. m) = m + 1
    BY IntervalSize
  <1>2. k \in Nat /\ n <= k
    <2>1. CASE k \in DOMAIN buf /\ buf[k] \in {Nul, Junk}
      <3>1. buf[k] \notin Sign
        BY <2>1, TextAssumption DEF Sign
      <3> QED BY <1>1, <2>1, <3>1
    <2>2. CASE k \in {Cardinality(DOMAIN buf) + o : o \in Overrun}
      <3>1. PICK o \in Overrun : k = m + 1 + o
        BY <1>1, <2>2
      <3> QED BY <3>1, Sizes
    <2> QED BY <2>1, <2>2 DEF StrLens
  <1>3. \A i \in 1 .. k : (IF i - 1 \in DOMAIN buf THEN buf[i - 1] ELSE Junk) \in Character
    BY <1>1 DEF Character
  <1>4. Shown(buf, k) \in Seq(Character) /\ Len(Shown(buf, k)) = k
    BY <1>2, <1>3 DEF Shown
  <1>5. Shown(buf, k) \in Seq(Character \cup Seq(Character))
    BY <1>2, <1>3 DEF Shown
  <1>6. \A i \in 1 .. n : Shown(buf, k)[i] = buf[i - 1]
    BY <1>1, <1>2 DEF Shown
  <1>7. SubSeq(Shown(buf, k), 1, n) = [i \in 1 .. n |-> buf[i - 1]]
    <2>1. SubSeq(Shown(buf, k), 1, n) = [i \in 1 .. n |-> Shown(buf, k)[i]]
      BY <1>2, <1>4
    <2> QED BY <1>6, <2>1
  <1> QED BY <1>2, <1>4, <1>5, <1>7 DEF Output, AskedFor

-----------------------------------------------------------------------------
(* The type of every variable, and what each place of a program knows of its*)
(* descriptors and its buffer.                                              *)

Phases(q) ==
  CASE q = "cat" -> {"getargs", "open", "read", "write", "ok", "failed"}
    [] q = "ls" -> {"open", "read", "write", "ok", "failed"}
    [] q = "grep" -> {"getargs", "open", "read", "openfile", "readfile", "line", "closefile",
                      "ok", "failed"}
    [] q = "syserr" -> {"choose", "run", "ok"}

BufSize == IF program = "ls" THEN MAX_NAME_LENGTH
           ELSE IF program = "cat" THEN BUFSIZE - 1 ELSE BUFSIZE

(* A descriptor that can be read.                                           *)
Good(f) ==
  /\ fds[p][f].flags = 1
  /\ \/ fds[p][f].file_op = "rtc"
     \/ fds[p][f].file_op = "dir" /\ fds[p][f].file_pos <= Len(dir_entries)
     \/ \E i \in K!Inode : HasText(f, i)

PlaceInv ==
  /\ program \in {"cat", "ls", "grep", "syserr"} /\ args \in Seq(CHAR)
  /\ content \in Contents /\ pc \in Phases(program)

FileName(name) == \E i \in DOMAIN dir_entries :
                    name = dir_entries[i].file_name /\ Head(name) # Head(Dot)

DescriptorInv ==
  /\ pc \in {"getargs", "open"} => UpTo(2)
  /\ pc \in {"read", "write", "openfile"} => UpTo(3)
  /\ pc \in {"readfile", "line", "closefile"} => UpTo(4) /\ file = 3
  /\ pc \in {"read", "write", "openfile", "readfile", "line", "closefile"} =>
       /\ fd = 2 /\ Good(2)
       /\ program # "cat" => fds[p][2].file_op = "dir"
  /\ pc \in {"readfile", "line"} => Good(3) /\ fds[p][3].file_op # "dir"
  /\ pc = "openfile" => FileName(fname)

DataInv ==
  /\ fd \in Int /\ file \in Int /\ fname \in Seq(CHAR)
  /\ buf \in [0 .. BufSize -> Character]
  /\ cnt \in -1 .. BUFSIZE /\ last \in 0 .. BUFSIZE /\ line_start \in 0 .. BUFSIZE
  /\ out \in Seq(Output)
  /\ pc = "write" => cnt \in 0 .. BufSize + 1 /\ \A i \in 0 .. cnt - 1 : buf[i] \in Sign
  /\ pc = "line" => line_start <= last

TestInv == test \in DOMAIN Test /\ bad \subseteq DOMAIN Test /\ call \in Nat \ {0}

TypeInv == KernelInv /\ PlaceInv /\ DescriptorInv /\ DataInv /\ TestInv

LEMMA Places ==
  ASSUME PlaceInv
  PROVE  /\ pc \in Status
         /\ pc = "getargs" => program \in {"cat", "grep"}
         /\ pc = "open" => program \in {"cat", "ls", "grep"}
         /\ pc = "read" => program \in {"cat", "ls", "grep"}
         /\ pc = "write" => program \in {"cat", "ls"}
         /\ pc \in {"openfile", "readfile", "line", "closefile"} => program = "grep"
         /\ pc \in {"choose", "run"} => program = "syserr"
         /\ program = "syserr" => pc \in {"choose", "run", "ok"}
  <1>1. PlaceInv => pc \in Phases(program) /\ program \in {"cat", "ls", "grep", "syserr"}
    BY DEF PlaceInv
  <1>2. CASE program = "cat"
    BY <1>1, <1>2 DEF Phases, Status
  <1>3. CASE program = "ls"
    BY <1>1, <1>3 DEF Phases, Status
  <1>4. CASE program = "grep"
    BY <1>1, <1>4 DEF Phases, Status
  <1>5. CASE program = "syserr"
    BY <1>1, <1>5 DEF Phases, Status
  <1> QED BY <1>1, <1>2, <1>3, <1>4, <1>5

LEMMA BufSizes == BufSize \in Nat /\ BufSize <= BUFSIZE /\ BUFSIZE > 0
  BY Sizes DEF BufSize

LEMMA Signs == /\ CHAR \subseteq Character /\ Sign \subseteq Character /\ CHAR \subseteq Sign
               /\ NL \in Sign /\ Nul \in Character /\ Junk \in Character
               /\ Nul \notin Sign /\ Junk \notin Sign
  BY TextAssumption DEF Sign, Character

LEMMA TestDomain == DOMAIN Test = 1 .. 8 /\ Len(Test) = 8
  BY DEF Test

LEMMA TypeInit == Init => TypeInv
  <1> SUFFICES ASSUME Init PROVE TypeInv
    OBVIOUS
  <1>1. KernelInv /\ UpTo(2)
    BY KernelInit
  <1>2. PICK l \in Launches : program = l.program /\ args = l.args
    BY DEF Init
  <1>3. program \in {"cat", "ls", "grep", "syserr"} /\ args \in Seq(CHAR) /\ content \in Contents
    BY <1>2, TextAssumption DEF Init
  <1>4. pc = CASE program = "syserr" -> "choose" [] program = "ls" -> "open" [] OTHER -> "getargs"
    BY DEF Init
  <1>5. PlaceInv /\ pc \in {"choose", "open", "getargs"}
    BY <1>3, <1>4 DEF PlaceInv, Phases
  <1>6. DescriptorInv
    BY <1>1, <1>5 DEF DescriptorInv
  <1>7. DataInv
    <2>1. buf \in [0 .. BufSize -> Character]
      BY Signs DEF Init, BufSize
    <2>2. out \in Seq(Output)
      BY DEF Init
    <2>3. fd = 0 /\ file = 0 /\ cnt = 0 /\ last = 0 /\ line_start = 0
      BY DEF Init
    <2>4. fname = <<>> /\ <<>> \in Seq(CHAR)
      BY DEF Init
    <2>5. 0 \in Int /\ 0 \in -1 .. BUFSIZE /\ 0 \in 0 .. BUFSIZE
      BY Sizes
    <2> QED BY <1>5, <2>1, <2>2, <2>3, <2>4, <2>5 DEF DataInv
  <1>8. TestInv
    BY TestDomain DEF Init, TestInv
  <1> QED BY <1>1, <1>5, <1>6, <1>7, <1>8 DEF TypeInv

LEMMA GetArgsType == TypeInv /\ GetArgs /\ UNCHANGED tests => TypeInv'
  <1> SUFFICES ASSUME TypeInv, GetArgs, UNCHANGED tests PROVE TypeInv'
    OBVIOUS
  <1>0. pc = "getargs" /\ pc' = "open" /\ UNCHANGED <<live, fds, reply, content, program, args>>
        /\ UNCHANGED <<fd, file, fname, cnt, last, line_start, out>>
    BY DEF GetArgs, kernel, launched
  <1>1. KernelInv' /\ UpTo(2)'
    BY <1>0 DEF TypeInv, KernelInv, Kept, DescriptorInv, UpTo
  <1>2. PlaceInv'
    BY <1>0, Places DEF TypeInv, PlaceInv, Phases
  <1>3. DescriptorInv'
    BY <1>0, <1>1 DEF DescriptorInv
  <1>4. BufSize \in Nat /\ BufSize' = BufSize
    BY <1>0, BufSizes DEF BufSize
  <1>5. buf' \in [0 .. BufSize -> Character]
    <2>1. DOMAIN buf = 0 .. BufSize /\ buf \in [0 .. BufSize -> Character]
      BY DEF TypeInv, DataInv
    <2>2. [i \in DOMAIN buf |-> Nul] \in [0 .. BufSize -> Character]
      BY <2>1, Signs
    <2>3. args \in Seq(Character)
      BY Signs DEF TypeInv, PlaceInv
    <2>4. Overlaid([i \in DOMAIN buf |-> Nul], 0, args) \in [0 .. BufSize -> Character]
      <3> DEFINE b == [i \in DOMAIN buf |-> Nul]
      <3>1. b \in [0 .. BufSize -> Character]
        BY <2>2
      <3> HIDE DEF b
      <3>2. Overlaid(b, 0, args) \in [0 .. BufSize -> Character]
        BY <1>4, <3>1, <2>3, OverlaidType
      <3> QED BY <3>2 DEF b
    <2> QED BY <2>1, <2>4 DEF GetArgs
  <1>6. DataInv'
    BY <1>0, <1>4, <1>5 DEF TypeInv, DataInv
  <1>7. TestInv'
    BY DEF TypeInv, TestInv, tests
  <1> QED BY <1>1, <1>2, <1>3, <1>6, <1>7 DEF TypeInv

LEMMA DotEntry ==
  ASSUME NEW d \in K!read_dentry_by_name(Dot)
  PROVE  d.file_type = K!DIRECTORY
  <1>1. PICK i \in DOMAIN dir_entries : d = dir_entries[i] /\ K!Capped(d.file_name) = K!Capped(Dot)
    BY DEF K!read_dentry_by_name, K!Matches
  <1>2. PICK c \in CHAR : Dot = <<c>>
    BY TextAssumption
  <1>3. /\ d.file_name \in Seq(CHAR) /\ Len(d.file_name) \in Nat /\ Len(d.file_name) > 0
        /\ Len(d.file_name) < MAX_NAME_LENGTH /\ MAX_NAME_LENGTH \in Nat
    BY <1>1, EntryName
  <1>4. K!Capped(d.file_name) = d.file_name
    BY <1>3 DEF K!Capped
  <1>5. Len(Dot) = 1
    BY <1>2
  <1>6. K!Capped(Dot) = Dot
    BY <1>3, <1>5 DEF K!Capped
  <1> QED BY <1>1, <1>4, <1>6, ImageAssumption

LEMMA FileEntry ==
  ASSUME NEW name, FileName(name), NEW d \in K!read_dentry_by_name(name)
  PROVE  d.file_name = name /\ d.file_type # K!DIRECTORY
  <1>1. PICK i \in DOMAIN dir_entries : d = dir_entries[i] /\ K!Capped(d.file_name) = K!Capped(name)
    BY DEF K!read_dentry_by_name, K!Matches
  <1>2. PICK j \in DOMAIN dir_entries : name = dir_entries[j].file_name /\ Head(name) # Head(Dot)
    BY DEF FileName
  <1>3. K!Capped(d.file_name) = d.file_name /\ K!Capped(name) = name
    <2>1. \A k \in DOMAIN dir_entries :
            K!Capped(dir_entries[k].file_name) = dir_entries[k].file_name
      <3> SUFFICES ASSUME NEW k \in DOMAIN dir_entries
                   PROVE  K!Capped(dir_entries[k].file_name) = dir_entries[k].file_name
        OBVIOUS
      <3> DEFINE nm == dir_entries[k].file_name
      <3>1. /\ nm \in Seq(CHAR) /\ Len(nm) \in Nat /\ Len(nm) > 0
            /\ Len(nm) < MAX_NAME_LENGTH /\ MAX_NAME_LENGTH \in Nat
        BY EntryName
      <3> HIDE DEF nm
      <3>2. K!Capped(nm) = nm
        BY <3>1 DEF K!Capped
      <3> QED BY <3>2 DEF nm
    <2> QED BY <1>1, <1>2, <2>1
  <1> QED BY <1>1, <1>2, <1>3, ImageAssumption

(* An entry that has just been opened can be read.                          *)
LEMMA OpenedGood ==
  ASSUME NEW name, NEW d \in K!read_dentry_by_name(name), NEW e \in K!Opened(d, K!Blank),
         NEW f, fds'[p][f] = e
  PROVE  /\ Good(f)'
         /\ d.file_type = K!DIRECTORY <=> fds'[p][f].file_op = "dir"
         /\ IsText(d) => HasText(f, d.inode_num)' /\ fds'[p][f].file_pos = 0
         /\ fds'[p][f].file_op = "dir" => fds'[p][f].file_pos = 0
  <1>1. /\ e \in K!Entry /\ e.flags = 1 /\ e.file_pos = 0 /\ e.file_op \in {"rtc", "dir", "file"}
        /\ e.file_op = "dir" <=> d.file_type = K!DIRECTORY
        /\ e.file_op = "file" <=> IsText(d)
        /\ e.file_op = "file" => e.inode_ptr = d.inode_num
    BY OpenedEntry
  <1>2. IsText(d) => HasText(f, d.inode_num)' /\ d.inode_num \in K!Inode
    <2> SUFFICES ASSUME IsText(d) PROVE HasText(f, d.inode_num)' /\ d.inode_num \in K!Inode
      OBVIOUS
    <2>1. d.inode_num \in K!Inode
      BY DEF IsText
    <2>2. index_nodes[d.inode_num].length \in Nat
      BY <2>1, Inodes
    <2>3. Readable(d.inode_num, 0)
      BY DEF Readable
    <2> QED BY <1>1, <2>1, <2>2, <2>3 DEF HasText, Readable
  <1>3. 0 <= Len(dir_entries)
    BY Directory
  <1>4. fds'[p][f].file_op = "file" => \E i \in K!Inode : HasText(f, i)'
    BY <1>1, <1>2
  <1> QED BY <1>1, <1>2, <1>3, <1>4 DEF Good

LEMMA OpenFirstType == TypeInv /\ OpenFirst /\ UNCHANGED tests => TypeInv'
  <1> SUFFICES ASSUME TypeInv, OpenFirst, UNCHANGED tests PROVE TypeInv'
    OBVIOUS
  <1> DEFINE name == IF program = "cat" THEN args ELSE Dot
  <1>0. /\ pc = "open" /\ fd' = reply'.ret /\ UNCHANGED <<content, program, args>>
        /\ UNCHANGED <<file, fname, buf, cnt, last, line_start, out>>
        /\ pc' = IF reply'.ret = K!FAIL THEN "failed" ELSE "read"
        /\ K!Open(p, name)
    BY DEF OpenFirst, buffer, launched
  <1>1. KernelInv /\ UpTo(2) /\ 2 \in 2 .. NFD - 1
    BY <1>0, Sizes DEF TypeInv, DescriptorInv
  <1>2. /\ KernelInv'
        /\ \/ /\ \E d \in K!read_dentry_by_name(name) : \E e \in K!Opened(d, K!Blank) :
                   fds' = [fds EXCEPT ![p][2] = e] /\ fds'[p][2] = e
              /\ reply'.ret = 2 /\ UpTo(2 + 1)'
           \/ reply'.ret = K!FAIL
    BY <1>0, <1>1, OpenReply
  <1>3. reply'.ret \in Int /\ program \in {"cat", "ls", "grep"} /\ 2 + 1 = 3
    BY <1>0, <1>2, Places DEF KernelInv, TypeInv
  <1>4. PlaceInv'
    BY <1>0, <1>3 DEF TypeInv, PlaceInv, Phases
  <1>5. DescriptorInv'
    <2>1. CASE \E d \in K!read_dentry_by_name(name) : \E e \in K!Opened(d, K!Blank) :
                   fds' = [fds EXCEPT ![p][2] = e] /\ fds'[p][2] = e
      <3>1. PICK d \in K!read_dentry_by_name(name) : \E e \in K!Opened(d, K!Blank) :
                   fds' = [fds EXCEPT ![p][2] = e] /\ fds'[p][2] = e
        BY <2>1
      <3>2. PICK e \in K!Opened(d, K!Blank) : fds'[p][2] = e
        BY <3>1
      <3>3. Good(2)' /\ (d.file_type = K!DIRECTORY <=> fds'[p][2].file_op = "dir")
        BY <3>2, OpenedGood
      <3>4. program # "cat" => d.file_type = K!DIRECTORY
        BY DotEntry
      <3>5. reply'.ret # K!FAIL => UpTo(3)' /\ fd' = 2
        BY <1>0, <1>2, <1>3
      <3> QED BY <1>0, <3>3, <3>4, <3>5 DEF DescriptorInv
    <2>2. CASE reply'.ret = K!FAIL
      BY <1>0, <2>2 DEF DescriptorInv
    <2> QED BY <1>2, <2>1, <2>2
  <1>6. DataInv'
    <2>1. BufSize' = BufSize
      BY <1>0 DEF BufSize
    <2> QED BY <1>0, <1>3, <2>1 DEF TypeInv, DataInv
  <1>7. TestInv'
    BY DEF TypeInv, TestInv, tests
  <1> QED BY <1>2, <1>4, <1>5, <1>6, <1>7 DEF TypeInv

LEMMA GoodKept ==
  ASSUME NEW f, Good(f), fds'[p][f] = fds[p][f]
  PROVE  Good(f)' /\ \A i : HasText(f, i) => HasText(f, i)'
  BY DEF Good, HasText, Readable

(* What a read leaves of the descriptors if it does not fail.               *)
LEMMA ReadKeeps ==
  ASSUME KernelInv, content \in Contents, NEW f \in K!Fd, Good(f), NEW n \in Nat,
         fds[p][f].file_op = "dir" => n >= MAX_NAME_LENGTH,
         K!Read(p, f, n), reply'.ret # K!FAIL
  PROVE  /\ Good(f)' /\ fds'[p][f].file_op = fds[p][f].file_op
         /\ \A g \in K!Fd : g # f => fds'[p][g] = fds[p][g]
  <1>1. CASE fds[p][f].file_op = "rtc"
    <2>1. fds' = fds
      BY <1>1, RtcReply DEF Good
    <2> QED BY <2>1, GoodKept
  <1>2. CASE fds[p][f].file_op = "dir" /\ fds[p][f].file_pos <= Len(dir_entries)
    <2>1. fds[p][f].flags = 1 /\ n >= MAX_NAME_LENGTH
      BY <1>2 DEF Good
    <2>2. \/ fds' = fds
          \/ fds[p][f].file_pos + 1 \in DOMAIN dir_entries /\ Moved(f, fds[p][f].file_pos + 1)
      BY <1>2, <2>1, DirReply
    <2>3. CASE fds' = fds
      BY <2>3, GoodKept
    <2>4. CASE fds[p][f].file_pos + 1 \in DOMAIN dir_entries /\ Moved(f, fds[p][f].file_pos + 1)
      <3>1. fds'[p][f] = [fds[p][f] EXCEPT !.file_pos = fds[p][f].file_pos + 1] /\ fds[p][f] \in K!Entry
            /\ \A g \in K!Fd : g # f => fds'[p][g] = fds[p][g]
        BY <2>4, Positions DEF Moved
      <3>2. /\ fds'[p][f].flags = 1 /\ fds'[p][f].file_op = "dir"
            /\ fds'[p][f].file_pos = fds[p][f].file_pos + 1
        BY <1>2, <2>1, <3>1 DEF K!Entry
      <3>3. fds[p][f].file_pos + 1 <= Len(dir_entries)
        BY <2>4, Directory
      <3> QED BY <1>2, <3>1, <3>2, <3>3 DEF Good
    <2> QED BY <2>2, <2>3, <2>4
  <1>3. CASE \E i \in K!Inode : HasText(f, i)
    <2>1. PICK i \in K!Inode : HasText(f, i)
      BY <1>3
    <2>2. \E pos \in 0 .. Len(Text(i)) : \E c \in 0 .. n : Moved(f, pos + c) /\ HasText(f, i)'
      BY <2>1, TextReply
    <2>3. PICK pos \in 0 .. Len(Text(i)) : \E c \in 0 .. n : Moved(f, pos + c) /\ HasText(f, i)'
      BY <2>2
    <2> QED BY <2>1, <2>3 DEF Good, HasText, Moved
  <1> QED BY <1>1, <1>2, <1>3 DEF Good

LEMMA PaddedType ==
  ASSUME NEW s \in Seq(CHAR), Len(s) < MAX_NAME_LENGTH
  PROVE  /\ Padded(s) \in Seq(Character) /\ Len(Padded(s)) = MAX_NAME_LENGTH
         /\ \A k \in 1 .. Len(s) : Padded(s)[k] = s[k]
         /\ \A k \in Len(s) + 1 .. MAX_NAME_LENGTH : Padded(s)[k] = Nul
  <1>1. MAX_NAME_LENGTH \in Nat /\ Len(s) \in Nat
    BY Sizes
  <1>2. \A k \in 1 .. MAX_NAME_LENGTH : (IF k <= Len(s) THEN s[k] ELSE Nul) \in Character
    <2> SUFFICES ASSUME NEW k \in 1 .. MAX_NAME_LENGTH
                 PROVE  (IF k <= Len(s) THEN s[k] ELSE Nul) \in Character
      OBVIOUS
    <2>1. k <= Len(s) => s[k] \in CHAR
      BY <1>1
    <2> QED BY <2>1, Signs
  <1>3. Padded(s) \in Seq(Character) /\ Len(Padded(s)) = MAX_NAME_LENGTH
    BY <1>1, <1>2 DEF Padded
  <1> QED BY <1>1, <1>3 DEF Padded

(* The buffer after a name, or a part of a text, has been read into it.     *)
LEMMA NameInBuffer ==
  ASSUME NEW m \in Nat, NEW b \in [0 .. m -> Character], NEW s \in Seq(CHAR),
         Len(s) < MAX_NAME_LENGTH, MAX_NAME_LENGTH <= m + 1
  PROVE  /\ Overlaid(b, 0, Padded(s)) \in [0 .. m -> Character]
         /\ \A i \in 0 .. Len(s) - 1 : Overlaid(b, 0, Padded(s))[i] = s[i + 1]
         /\ \A i \in Len(s) .. MAX_NAME_LENGTH - 1 : Overlaid(b, 0, Padded(s))[i] = Nul
         /\ \A i \in MAX_NAME_LENGTH .. m : Overlaid(b, 0, Padded(s))[i] = b[i]
  <1> DEFINE t == Padded(s)
             o == Overlaid(b, 0, t)
  <1>1. MAX_NAME_LENGTH \in Nat /\ Len(s) \in Nat
    BY Sizes
  <1>2. /\ t \in Seq(Character) /\ Len(t) = MAX_NAME_LENGTH
        /\ \A k \in 1 .. Len(s) : t[k] = s[k]
        /\ \A k \in Len(s) + 1 .. MAX_NAME_LENGTH : t[k] = Nul
    BY PaddedType
  <1> HIDE DEF t
  <1>3. /\ o \in [0 .. m -> Character]
        /\ \A i \in 0 .. m : /\ 0 + Len(t) <= i => o[i] = b[i]
                             /\ 0 <= i /\ i < 0 + Len(t) => o[i] = t[i - 0 + 1]
    BY <1>2, OverlaidType
  <1> HIDE DEF o
  <1>4. \A i \in 0 .. m : /\ MAX_NAME_LENGTH <= i => o[i] = b[i]
                          /\ i < MAX_NAME_LENGTH => o[i] = t[i + 1]
    <2> SUFFICES ASSUME NEW i \in 0 .. m
                 PROVE  /\ MAX_NAME_LENGTH <= i => o[i] = b[i]
                        /\ i < MAX_NAME_LENGTH => o[i] = t[i + 1]
      OBVIOUS
    <2>1. 0 + Len(t) = MAX_NAME_LENGTH /\ 0 <= i /\ i - 0 + 1 = i + 1
      BY <1>1, <1>2
    <2>2. /\ 0 + Len(t) <= i => o[i] = b[i]
          /\ 0 <= i /\ i < 0 + Len(t) => o[i] = t[i - 0 + 1]
      BY <1>3
    <2> QED BY <2>1, <2>2
  <1>5. ASSUME NEW i \in 0 .. Len(s) - 1 PROVE o[i] = s[i + 1]
    <2>1. i \in 0 .. m /\ i < MAX_NAME_LENGTH /\ i + 1 \in 1 .. Len(s)
      BY <1>1
    <2>2. o[i] = t[i + 1]
      BY <1>4, <2>1
    <2> QED BY <1>2, <2>1, <2>2
  <1>6. ASSUME NEW i \in Len(s) .. MAX_NAME_LENGTH - 1 PROVE o[i] = Nul
    <2>1. i \in 0 .. m /\ i < MAX_NAME_LENGTH /\ i + 1 \in Len(s) + 1 .. MAX_NAME_LENGTH
      BY <1>1
    <2>2. o[i] = t[i + 1]
      BY <1>4, <2>1
    <2> QED BY <1>2, <2>1, <2>2
  <1>7. \A i \in MAX_NAME_LENGTH .. m : o[i] = b[i]
    BY <1>1, <1>4
  <1> QED BY <1>3, <1>5, <1>6, <1>7 DEF o, t

LEMMA TextInBuffer ==
  ASSUME NEW m \in Nat, NEW b \in [0 .. m -> Character], NEW at \in Nat, NEW s \in Seq(Sign),
         at + Len(s) <= m + 1
  PROVE  /\ Overlaid(b, at, s) \in [0 .. m -> Character]
         /\ \A i \in 0 .. m : i < at \/ at + Len(s) <= i => Overlaid(b, at, s)[i] = b[i]
         /\ \A k \in 1 .. Len(s) : Overlaid(b, at, s)[at + k - 1] = s[k]
  <1> DEFINE o == Overlaid(b, at, s)
  <1>1. s \in Seq(Character) /\ Len(s) \in Nat
    BY Signs
  <1>2. /\ o \in [0 .. m -> Character]
        /\ \A i \in 0 .. m : /\ i < at => o[i] = b[i]
                             /\ at + Len(s) <= i => o[i] = b[i]
                             /\ at <= i /\ i < at + Len(s) => o[i] = s[i - at + 1]
    BY <1>1, OverlaidType
  <1> HIDE DEF o
  <1>3. \A k \in 1 .. Len(s) : o[at + k - 1] = s[k]
    <2> SUFFICES ASSUME NEW k \in 1 .. Len(s) PROVE o[at + k - 1] = s[k]
      OBVIOUS
    <2>1. /\ at + k - 1 \in 0 .. m /\ at <= at + k - 1 /\ at + k - 1 < at + Len(s)
          /\ (at + k - 1) - at + 1 = k
      BY <1>1
    <2>2. o[at + k - 1] = s[(at + k - 1) - at + 1]
      BY <1>2, <2>1
    <2> QED BY <2>1, <2>2
  <1> QED BY <1>2, <1>3 DEF o

LEMMA AfterCases ==
  ASSUME NEW r \in Int, NEW next
  PROVE  /\ r = 0 => After(r, next) = "ok"
         /\ r = K!FAIL => After(r, next) = "failed"
         /\ r # 0 /\ r # K!FAIL => After(r, next) = next
  BY DEF After, K!FAIL

LEMMA CatReadType == TypeInv /\ CatRead /\ UNCHANGED tests => TypeInv'
  <1> SUFFICES ASSUME TypeInv, CatRead, UNCHANGED tests PROVE TypeInv'
    OBVIOUS
  <1>0. /\ pc = "read" /\ program = "cat" /\ cnt' = reply'.ret
        /\ UNCHANGED <<content, program, args, fd, file, fname, last, line_start, out>>
        /\ pc' = After(reply'.ret, "write")
        /\ K!Read(p, fd, BUFSIZE)
    BY DEF CatRead, AfterCatRead, launched, Is
  <1>1. /\ KernelInv /\ UpTo(3) /\ fd = 2 /\ Good(2) /\ content \in Contents
        /\ BUFSIZE \in Nat /\ BUFSIZE >= MAX_NAME_LENGTH /\ 2 \in K!Fd /\ K!Read(p, 2, BUFSIZE)
    BY <1>0, Sizes, FdFacts DEF TypeInv, DescriptorInv, PlaceInv
  <1>2. KernelInv' /\ UpTo(3)' /\ reply'.ret \in Int
    BY <1>1, ReadKernel
  <1>3. reply'.ret # K!FAIL => Good(2)'
    BY <1>1, ReadKeeps
  <1>4. pc' \in {"ok", "failed", "write"} /\ (pc' = "write" => reply'.ret # K!FAIL /\ reply'.ret # 0)
    BY <1>0, <1>2, AfterCases
  <1>5. PlaceInv'
    BY <1>0, <1>4 DEF TypeInv, PlaceInv, Phases
  <1>6. DescriptorInv'
    BY <1>0, <1>1, <1>2, <1>3, <1>4 DEF DescriptorInv
  <1>7. BufSize = BUFSIZE - 1 /\ BufSize' = BufSize /\ BufSize \in Nat
        /\ buf \in [0 .. BufSize -> Character]
    BY <1>0, <1>1, BufSizes DEF BufSize, TypeInv, DataInv
  <1>8. /\ buf' \in [0 .. BufSize -> Character] /\ cnt' \in -1 .. BUFSIZE
        /\ reply'.ret # K!FAIL => \A i \in 0 .. cnt' - 1 : buf'[i] \in Sign
    <2>1. CASE fds[p][2].file_op = "rtc"
      <3>1. reply'.ret = 0 /\ DataOf(reply') = <<>>
        BY <1>1, <2>1, RtcReply DEF Good
      <3>2. buf' = Overlaid(buf, 0, <<>>)
        BY <1>1, <2>1, <3>1 DEF CatRead
      <3>3. <<>> \in Seq(Character)
        OBVIOUS
      <3>4. buf' \in [0 .. BufSize -> Character]
        BY <1>7, <3>2, <3>3, OverlaidType
      <3> QED BY <1>0, <1>1, <3>1, <3>4
    <2>2. CASE fds[p][2].file_op = "dir" /\ fds[p][2].file_pos <= Len(dir_entries)
      <3>0. fds[p][2].flags = 1
        BY <1>1 DEF Good
      <3>1. \/ reply'.ret = 0
            \/ /\ fds[p][2].file_pos + 1 \in DOMAIN dir_entries
               /\ NameOf(reply') = dir_entries[fds[p][2].file_pos + 1].file_name
               /\ reply'.ret = Len(dir_entries[fds[p][2].file_pos + 1].file_name)
        BY <1>1, <2>2, <3>0, DirReply
      <3>2. CASE reply'.ret = 0
        <4>1. buf' = buf
          BY <1>1, <2>2, <3>2 DEF CatRead
        <4> QED BY <1>0, <1>1, <1>7, <3>2, <4>1
      <3>3. CASE /\ fds[p][2].file_pos + 1 \in DOMAIN dir_entries
                 /\ NameOf(reply') = dir_entries[fds[p][2].file_pos + 1].file_name
                 /\ reply'.ret = Len(dir_entries[fds[p][2].file_pos + 1].file_name)
        <4> DEFINE s == NameOf(reply')
        <4>1. s \in Seq(CHAR) /\ Len(s) \in Nat /\ Len(s) > 0 /\ Len(s) < MAX_NAME_LENGTH
              /\ reply'.ret = Len(s) /\ MAX_NAME_LENGTH \in Nat
          BY <3>3, EntryName
        <4>2. buf' = Overlaid(buf, 0, Padded(s))
          BY <1>1, <2>2, <4>1 DEF CatRead
        <4> HIDE DEF s
        <4>3. MAX_NAME_LENGTH <= BufSize + 1
          BY <1>1, <1>7
        <4>4. /\ buf' \in [0 .. BufSize -> Character]
              /\ \A i \in 0 .. Len(s) - 1 : buf'[i] = s[i + 1]
          BY <1>7, <4>1, <4>2, <4>3, NameInBuffer, SMTT(30)
        <4>5. \A i \in 0 .. Len(s) - 1 : buf'[i] \in Sign
          BY <4>1, <4>4, Signs
        <4> QED BY <1>0, <1>1, <4>1, <4>4, <4>5
      <3> QED BY <3>1, <3>2, <3>3
    <2>3. CASE \E i \in K!Inode : HasText(2, i)
      <3>1. PICK i \in K!Inode : HasText(2, i)
        BY <2>3
      <3>2. buf' = Overlaid(buf, 0, DataOf(reply'))
        BY <1>1, <3>1 DEF CatRead, HasText
      <3>3. \/ reply'.ret = K!FAIL /\ DataOf(reply') = <<>>
            \/ \E c \in 0 .. BUFSIZE :
                 reply'.ret = c /\ DataOf(reply') \in Seq(Sign) /\ Len(DataOf(reply')) = c
        BY <1>1, <3>1, TextReply
      <3>4. CASE reply'.ret = K!FAIL /\ DataOf(reply') = <<>>
        <4>1. <<>> \in Seq(Character)
          OBVIOUS
        <4>2. buf' \in [0 .. BufSize -> Character]
          BY <1>7, <3>2, <3>4, <4>1, OverlaidType
        <4> QED BY <1>0, <1>1, <3>4, <4>2 DEF K!FAIL
      <3>5. CASE \E c \in 0 .. BUFSIZE :
                 reply'.ret = c /\ DataOf(reply') \in Seq(Sign) /\ Len(DataOf(reply')) = c
        <4> DEFINE s == DataOf(reply')
        <4>1. s \in Seq(Sign) /\ Len(s) \in 0 .. BUFSIZE /\ reply'.ret = Len(s)
          BY <3>5
        <4> HIDE DEF s
        <4>2. 0 + Len(s) <= BufSize + 1 /\ 0 \in Nat
          BY <1>1, <1>7, <4>1
        <4>3. /\ Overlaid(buf, 0, s) \in [0 .. BufSize -> Character]
              /\ \A k \in 1 .. Len(s) : Overlaid(buf, 0, s)[0 + k - 1] = s[k]
          BY <1>7, <4>1, <4>2, TextInBuffer
        <4>4. \A k \in 0 .. Len(s) - 1 : Overlaid(buf, 0, s)[k] \in Sign
          <5> SUFFICES ASSUME NEW k \in 0 .. Len(s) - 1 PROVE Overlaid(buf, 0, s)[k] \in Sign
            OBVIOUS
          <5>1. k + 1 \in 1 .. Len(s) /\ 0 + (k + 1) - 1 = k
            BY <4>1
          <5>2. s[k + 1] \in Sign
            BY <4>1, <5>1, ElementOfSeq
          <5> QED BY <4>3, <5>1, <5>2
        <4> QED BY <1>0, <1>1, <3>2, <4>1, <4>3, <4>4 DEF s
      <3> QED BY <3>3, <3>4, <3>5
    <2> QED BY <1>1, <2>1, <2>2, <2>3 DEF Good
  <1>9. DataInv'
    <2>1. pc' = "write" => cnt' \in 0 .. BufSize + 1
      BY <1>0, <1>4, <1>7, <1>8, <1>1 DEF K!FAIL
    <2>2. pc' # "line"
      BY <1>4
    <2> QED BY <1>0, <1>4, <1>7, <1>8, <2>1, <2>2 DEF TypeInv, DataInv
  <1>10. TestInv'
    BY DEF TypeInv, TestInv, tests
  <1> QED BY <1>2, <1>5, <1>6, <1>9, <1>10 DEF TypeInv

LEMMA AppendOutput ==
  ASSUME NEW o \in Output, out \in Seq(Output), out' = Append(out, o)
  PROVE  out' \in Seq(Output)
  OBVIOUS

LEMMA WriteBufferType == TypeInv /\ WriteBuffer /\ UNCHANGED tests => TypeInv'
  <1> SUFFICES ASSUME TypeInv, WriteBuffer, UNCHANGED tests PROVE TypeInv'
    OBVIOUS
  <1>0. /\ pc = "write" /\ pc' = "read" /\ K!Write(p, 1, cnt)
        /\ UNCHANGED <<content, program, args, fd, file, fname, buf, cnt, last, line_start>>
        /\ \E k \in StrLens(buf) : out' = Append(out, [asked |-> cnt, shown |-> Shown(buf, k)])
    BY DEF WriteBuffer, launched, buffer, Wrote
  <1>1. /\ KernelInv /\ UpTo(3) /\ fd = 2 /\ Good(2) /\ (program # "cat" => fds[p][2].file_op = "dir")
        /\ cnt \in Int /\ program \in {"cat", "ls"}
    BY <1>0, Places DEF TypeInv, DescriptorInv, DataInv
  <1>2. KernelInv' /\ fds' = fds
    BY <1>0, <1>1, WriteReply
  <1>3. PlaceInv'
    BY <1>0, <1>1 DEF TypeInv, PlaceInv, Phases
  <1>4. UpTo(3)' /\ Good(2)'
    BY <1>1, <1>2, GoodKept DEF UpTo
  <1>5. DescriptorInv'
    BY <1>0, <1>1, <1>2, <1>4 DEF DescriptorInv
  <1>6. BufSize \in Nat /\ BufSize' = BufSize /\ buf \in [0 .. BufSize -> Character]
    BY <1>0, BufSizes DEF BufSize, TypeInv, DataInv
  <1>7. out' \in Seq(Output)
    <2>1. cnt \in 0 .. BufSize + 1 /\ \A i \in 0 .. cnt - 1 : buf[i] \in Sign
      BY <1>0 DEF TypeInv, DataInv
    <2>2. PICK k \in StrLens(buf) : out' = Append(out, [asked |-> cnt, shown |-> Shown(buf, k)])
      BY <1>0
    <2>3. [asked |-> cnt, shown |-> Shown(buf, k)] \in Output
      <3> HIDE DEF BufSize
      <3> QED BY <1>6, <2>1, WrotePiece
    <2>4. out \in Seq(Output)
      BY DEF TypeInv, DataInv
    <2> QED BY <2>2, <2>3, <2>4, AppendOutput
  <1>8. DataInv'
    BY <1>0, <1>6, <1>7 DEF TypeInv, DataInv
  <1>9. TestInv'
    BY DEF TypeInv, TestInv, tests
  <1> QED BY <1>2, <1>3, <1>5, <1>8, <1>9 DEF TypeInv

LEMMA LsReadType == TypeInv /\ LsRead /\ UNCHANGED tests => TypeInv'
  <1> SUFFICES ASSUME TypeInv, LsRead, UNCHANGED tests PROVE TypeInv'
    OBVIOUS
  <1>0. /\ pc = "read" /\ program = "ls" /\ pc' = After(reply'.ret, "write")
        /\ UNCHANGED <<content, program, args, fd, file, fname, last, line_start, out>>
        /\ K!Read(p, fd, MAX_NAME_LENGTH)
    BY DEF LsRead, launched, Is
  <1>1. /\ KernelInv /\ UpTo(3) /\ fd = 2 /\ Good(2) /\ content \in Contents /\ MAX_NAME_LENGTH > 0
        /\ MAX_NAME_LENGTH \in Nat /\ MAX_NAME_LENGTH >= MAX_NAME_LENGTH /\ 2 \in K!Fd
        /\ K!Read(p, 2, MAX_NAME_LENGTH)
        /\ BUFSIZE \in Nat /\ BUFSIZE >= MAX_NAME_LENGTH /\ fds[p][2].file_op = "dir"
    BY <1>0, Sizes, FdFacts DEF TypeInv, DescriptorInv, PlaceInv
  <1>2. KernelInv' /\ UpTo(3)' /\ reply'.ret \in Int
    BY <1>1, ReadKernel
  <1>3. reply'.ret # K!FAIL => Good(2)' /\ fds'[p][2].file_op = "dir"
    BY <1>1, ReadKeeps
  <1>4. pc' \in {"ok", "failed", "write"} /\ (pc' = "write" => reply'.ret # K!FAIL /\ reply'.ret # 0)
    BY <1>0, <1>2, AfterCases
  <1>5. PlaceInv'
    BY <1>0, <1>4 DEF TypeInv, PlaceInv, Phases
  <1>6. DescriptorInv'
    BY <1>0, <1>1, <1>2, <1>3, <1>4 DEF DescriptorInv
  <1>7. BufSize = MAX_NAME_LENGTH /\ BufSize' = BufSize /\ BufSize \in Nat
        /\ buf \in [0 .. BufSize -> Character]
    BY <1>0, <1>1, BufSizes DEF BufSize, TypeInv, DataInv
  <1>8. /\ buf' \in [0 .. BufSize -> Character] /\ cnt' \in 0 .. MAX_NAME_LENGTH
        /\ pc' = "write" => \A i \in 0 .. cnt' - 1 : buf'[i] \in Sign
    <2>0. fds[p][2].flags = 1 /\ fds[p][2].file_pos <= Len(dir_entries)
      BY <1>1 DEF Good, HasText
    <2>1. \/ reply'.ret = 0
          \/ /\ fds[p][2].file_pos + 1 \in DOMAIN dir_entries
             /\ NameOf(reply') = dir_entries[fds[p][2].file_pos + 1].file_name
             /\ reply'.ret = Len(dir_entries[fds[p][2].file_pos + 1].file_name)
      BY <1>1, <2>0, DirReply
    <2>2. CASE reply'.ret = 0
      <3>1. cnt' = 0 /\ buf' = buf
        BY <2>2 DEF LsRead
      <3> QED BY <1>1, <1>7, <3>1
    <2>3. CASE /\ fds[p][2].file_pos + 1 \in DOMAIN dir_entries
               /\ NameOf(reply') = dir_entries[fds[p][2].file_pos + 1].file_name
               /\ reply'.ret = Len(dir_entries[fds[p][2].file_pos + 1].file_name)
      <3> DEFINE s == NameOf(reply')
                 o == Overlaid(buf, 0, Padded(s))
      <3>1. s \in Seq(CHAR) /\ Len(s) \in Nat /\ Len(s) > 0 /\ Len(s) < MAX_NAME_LENGTH
            /\ reply'.ret = Len(s)
        BY <2>3, EntryName
      <3>2. cnt' = Len(s) + 1 /\ buf' = [o EXCEPT ![Len(s)] = NL]
        BY <3>1 DEF LsRead
      <3> HIDE DEF s
      <3>3. MAX_NAME_LENGTH <= BufSize + 1
        BY <1>1, <1>7
      <3>4. /\ o \in [0 .. BufSize -> Character]
            /\ \A i \in 0 .. Len(s) - 1 : o[i] = s[i + 1]
        BY <1>7, <3>1, <3>3, NameInBuffer
      <3> HIDE DEF o
      <3>5. Len(s) \in 0 .. BufSize /\ NL \in Character
        BY <1>1, <1>7, <3>1, Signs
      <3>6. /\ buf' \in [0 .. BufSize -> Character] /\ buf'[Len(s)] = NL
            /\ \A i \in 0 .. Len(s) - 1 : buf'[i] = s[i + 1]
        BY <1>7, <3>1, <3>2, <3>4, <3>5
      <3>7. \A i \in 0 .. cnt' - 1 : buf'[i] \in Sign
        BY <3>1, <3>2, <3>6, Signs
      <3> QED BY <1>1, <3>1, <3>2, <3>6, <3>7
    <2> QED BY <2>1, <2>2, <2>3
  <1>9. DataInv'
    <2>1. cnt' \in 0 .. BufSize + 1 /\ cnt' \in -1 .. BUFSIZE
      BY <1>1, <1>7, <1>8
    <2>2. pc' # "line"
      BY <1>4
    <2> QED BY <1>0, <1>4, <1>7, <1>8, <2>1, <2>2 DEF TypeInv, DataInv
  <1>10. TestInv'
    BY DEF TypeInv, TestInv, tests
  <1> QED BY <1>2, <1>5, <1>6, <1>9, <1>10 DEF TypeInv

LEMMA GrepNameType == TypeInv /\ GrepName /\ UNCHANGED tests => TypeInv'
  <1> SUFFICES ASSUME TypeInv, GrepName, UNCHANGED tests PROVE TypeInv'
    OBVIOUS
  <1>0. /\ pc = "read" /\ program = "grep" /\ fname' = NameOf(reply')
        /\ pc' = After(reply'.ret, IF Head(NameOf(reply')) = Head(Dot) THEN "read" ELSE "openfile")
        /\ UNCHANGED <<content, program, args, fd, file, buf, cnt, last, line_start, out>>
        /\ K!Read(p, fd, MAX_NAME_LENGTH)
    BY DEF GrepName, launched, Is, buffer
  <1>1. /\ KernelInv /\ UpTo(3) /\ fd = 2 /\ Good(2) /\ content \in Contents
        /\ MAX_NAME_LENGTH \in Nat /\ MAX_NAME_LENGTH >= MAX_NAME_LENGTH /\ 2 \in K!Fd
        /\ K!Read(p, 2, MAX_NAME_LENGTH) /\ fds[p][2].file_op = "dir"
    BY <1>0, Sizes, FdFacts DEF TypeInv, DescriptorInv, PlaceInv
  <1>2. KernelInv' /\ UpTo(3)' /\ reply'.ret \in Int
    BY <1>1, ReadKernel
  <1>3. reply'.ret # K!FAIL => Good(2)' /\ fds'[p][2].file_op = "dir"
    BY <1>1, ReadKeeps
  <1>4. /\ pc' \in {"ok", "failed", "read", "openfile"}
        /\ pc' \in {"read", "openfile"} => reply'.ret # K!FAIL /\ reply'.ret # 0
        /\ pc' = "openfile" => Head(NameOf(reply')) # Head(Dot)
    BY <1>0, <1>2, AfterCases
  <1>5. fds[p][2].flags = 1 /\ fds[p][2].file_pos <= Len(dir_entries)
    BY <1>1 DEF Good, HasText
  <1>6. \/ reply'.ret = 0 /\ NameOf(reply') = <<>>
        \/ /\ fds[p][2].file_pos + 1 \in DOMAIN dir_entries
           /\ NameOf(reply') = dir_entries[fds[p][2].file_pos + 1].file_name
    BY <1>1, <1>5, DirReply
  <1>7. fname' \in Seq(CHAR) /\ (pc' = "openfile" => FileName(fname)')
    <2>1. CASE reply'.ret = 0 /\ NameOf(reply') = <<>>
      BY <1>0, <1>4, <2>1
    <2>2. CASE /\ fds[p][2].file_pos + 1 \in DOMAIN dir_entries
               /\ NameOf(reply') = dir_entries[fds[p][2].file_pos + 1].file_name
      BY <1>0, <1>4, <2>2, EntryName DEF FileName
    <2> QED BY <1>6, <2>1, <2>2
  <1>8. PlaceInv'
    BY <1>0, <1>4 DEF TypeInv, PlaceInv, Phases
  <1>9. DescriptorInv'
    BY <1>0, <1>1, <1>2, <1>3, <1>4, <1>7 DEF DescriptorInv
  <1>10. DataInv'
    <2>1. BufSize' = BufSize
      BY <1>0 DEF BufSize
    <2> QED BY <1>0, <1>4, <1>7, <2>1 DEF TypeInv, DataInv
  <1>11. TestInv'
    BY DEF TypeInv, TestInv, tests
  <1> QED BY <1>2, <1>8, <1>9, <1>10, <1>11 DEF TypeInv

LEMMA GrepOpenType == TypeInv /\ GrepOpen /\ UNCHANGED tests => TypeInv'
  <1> SUFFICES ASSUME TypeInv, GrepOpen, UNCHANGED tests PROVE TypeInv'
    OBVIOUS
  <1>0. /\ pc = "openfile" /\ file' = reply'.ret /\ UNCHANGED <<content, program, args>>
        /\ UNCHANGED <<fd, fname, cnt, line_start, out>> /\ last' = 0
        /\ buf' = [i \in DOMAIN buf |-> Junk]
        /\ pc' = IF reply'.ret = K!FAIL THEN "failed" ELSE "readfile"
        /\ K!Open(p, fname)
    BY DEF GrepOpen, launched
  <1>1. /\ KernelInv /\ UpTo(3) /\ 3 \in 2 .. NFD - 1 /\ fd = 2 /\ Good(2) /\ FileName(fname)
        /\ program # "cat" => fds[p][2].file_op = "dir"
    BY <1>0, Sizes DEF TypeInv, DescriptorInv
  <1>2. /\ KernelInv'
        /\ \/ /\ \E d \in K!read_dentry_by_name(fname) : \E e \in K!Opened(d, K!Blank) :
                   fds' = [fds EXCEPT ![p][3] = e] /\ fds'[p][3] = e
              /\ reply'.ret = 3 /\ UpTo(3 + 1)'
           \/ reply'.ret = K!FAIL
    BY <1>0, <1>1, OpenReply
  <1>3. reply'.ret \in Int /\ program = "grep" /\ 3 + 1 = 4
    BY <1>0, <1>2, Places DEF KernelInv, TypeInv
  <1>4. PlaceInv'
    BY <1>0, <1>3 DEF TypeInv, PlaceInv, Phases
  <1>5. DescriptorInv'
    <2>1. CASE reply'.ret # K!FAIL
      <3>1. PICK d \in K!read_dentry_by_name(fname) : \E e \in K!Opened(d, K!Blank) :
                   fds' = [fds EXCEPT ![p][3] = e] /\ fds'[p][3] = e
        BY <1>2, <2>1
      <3>2. PICK e \in K!Opened(d, K!Blank) : fds' = [fds EXCEPT ![p][3] = e] /\ fds'[p][3] = e
        BY <3>1
      <3>3. Good(3)' /\ (d.file_type = K!DIRECTORY <=> fds'[p][3].file_op = "dir")
        BY <3>2, OpenedGood
      <3>4. d.file_type # K!DIRECTORY
        BY <1>1, FileEntry
      <3>5. UpTo(4)' /\ file' = 3
        BY <1>0, <1>2, <1>3, <2>1
      <3>6. fds'[p][2] = fds[p][2]
        <4>1. fds[p] \in [K!Fd -> K!Entry] /\ 2 \in K!Fd /\ fds \in [Pid -> [K!Fd -> K!Entry]] /\ p \in Pid
          BY <1>1, ThePid, FdFacts DEF KernelInv
        <4> QED BY <3>2, <4>1
      <3>7. Good(2)'
        BY <1>1, <3>6, GoodKept
      <3> QED BY <1>0, <1>1, <3>3, <3>4, <3>5, <3>6, <3>7 DEF DescriptorInv
    <2>2. CASE reply'.ret = K!FAIL
      BY <1>0, <2>2 DEF DescriptorInv
    <2> QED BY <2>1, <2>2
  <1>6. DataInv'
    <2>1. BufSize' = BufSize
      BY <1>0 DEF BufSize
    <2>2. buf' \in [0 .. BufSize -> Character]
      BY <1>0, Signs DEF TypeInv, DataInv
    <2>3. last' \in 0 .. BUFSIZE /\ pc' # "write" /\ pc' # "line"
      BY <1>0, Sizes
    <2> QED BY <1>0, <1>3, <2>1, <2>2, <2>3 DEF TypeInv, DataInv
  <1>7. TestInv'
    BY DEF TypeInv, TestInv, tests
  <1> QED BY <1>2, <1>4, <1>5, <1>6, <1>7 DEF TypeInv

LEMMA GrepReadType == TypeInv /\ GrepRead /\ UNCHANGED tests => TypeInv'
  <1> SUFFICES ASSUME TypeInv, GrepRead, UNCHANGED tests PROVE TypeInv'
    OBVIOUS
  <1>0. /\ pc = "readfile" /\ cnt' = reply'.ret /\ line_start' = 0
        /\ buf' = Overlaid(buf, last, DataOf(reply'))
        /\ last' = IF reply'.ret = K!FAIL THEN last ELSE last + reply'.ret
        /\ pc' = IF reply'.ret = K!FAIL THEN "failed" ELSE "line"
        /\ UNCHANGED <<content, program, args, fd, file, fname, out>>
        /\ K!Read(p, file, BUFSIZE - last)
    BY DEF GrepRead, launched, RestOfBuffer
  <1>1. /\ KernelInv /\ UpTo(4) /\ file = 3 /\ Good(3) /\ fds[p][3].file_op # "dir"
        /\ fd = 2 /\ Good(2) /\ program = "grep" /\ fds[p][2].file_op = "dir"
        /\ content \in Contents
    BY <1>0, Places DEF TypeInv, DescriptorInv, PlaceInv
  <1>2. BUFSIZE \in Nat /\ last \in 0 .. BUFSIZE /\ BUFSIZE - last \in Nat /\ 3 \in K!Fd /\ 2 \in K!Fd
    BY Sizes, FdFacts DEF TypeInv, DataInv
  <1>3. K!Read(p, 3, BUFSIZE - last)
    BY <1>0, <1>1
  <1>4. KernelInv' /\ UpTo(4)' /\ reply'.ret \in Int
    BY <1>1, <1>2, <1>3, ReadKernel
  <1>5. reply'.ret # K!FAIL =>
          /\ Good(3)' /\ fds'[p][3].file_op # "dir"
          /\ \A g \in K!Fd : g # 3 => fds'[p][g] = fds[p][g]
    <2> DEFINE n == BUFSIZE - last
    <2>1. n \in Nat /\ K!Read(p, 3, n)
      BY <1>2, <1>3
    <2> HIDE DEF n
    <2> QED BY <1>1, <1>2, <2>1, ReadKeeps
  <1>6. reply'.ret # K!FAIL => Good(2)' /\ fds'[p][2].file_op = "dir"
    BY <1>1, <1>2, <1>5, GoodKept
  <1>7. PlaceInv'
    BY <1>0, <1>1 DEF TypeInv, PlaceInv, Phases
  <1>8. DescriptorInv'
    BY <1>0, <1>1, <1>4, <1>5, <1>6 DEF DescriptorInv
  <1>9. BufSize = BUFSIZE /\ BufSize' = BufSize /\ BufSize \in Nat /\ buf \in [0 .. BUFSIZE -> Character]
    BY <1>0, <1>1, BufSizes DEF BufSize, TypeInv, DataInv
  <1>10. /\ DataOf(reply') \in Seq(Sign)
         /\ \/ reply'.ret = K!FAIL /\ Len(DataOf(reply')) = 0
            \/ reply'.ret = Len(DataOf(reply')) /\ Len(DataOf(reply')) \in 0 .. BUFSIZE - last
    <2>1. CASE fds[p][3].file_op = "rtc"
      <3>1. reply'.ret = 0 /\ DataOf(reply') = <<>>
        BY <1>1, <1>2, <1>3, <2>1, RtcReply DEF Good
      <3> QED BY <1>2, <3>1
    <2>2. CASE \E i \in K!Inode : HasText(3, i)
      <3>1. PICK i \in K!Inode : HasText(3, i)
        BY <2>2
      <3> DEFINE n == BUFSIZE - last
      <3>2. n \in Nat /\ K!Read(p, 3, n)
        BY <1>2, <1>3
      <3> HIDE DEF n
      <3>3. \/ reply'.ret = K!FAIL /\ DataOf(reply') = <<>>
            \/ \E c \in 0 .. n :
                 reply'.ret = c /\ DataOf(reply') \in Seq(Sign) /\ Len(DataOf(reply')) = c
        BY <1>1, <1>2, <3>1, <3>2, TextReply
      <3>4. <<>> \in Seq(Sign) /\ Len(<<>>) = 0
        OBVIOUS
      <3>5. CASE reply'.ret = K!FAIL /\ DataOf(reply') = <<>>
        BY <3>4, <3>5
      <3>6. CASE \E c \in 0 .. n :
                 reply'.ret = c /\ DataOf(reply') \in Seq(Sign) /\ Len(DataOf(reply')) = c
        BY <3>6 DEF n
      <3> QED BY <3>3, <3>5, <3>6
    <2> QED BY <1>1, <2>1, <2>2 DEF Good
  <1>11. buf' \in [0 .. BUFSIZE -> Character]
    <2> DEFINE s == DataOf(reply')
    <2>1. s \in Seq(Sign) /\ last \in Nat /\ last + Len(s) <= BUFSIZE + 1 /\ buf' = Overlaid(buf, last, s)
      BY <1>0, <1>2, <1>10
    <2> HIDE DEF s
    <2> QED BY <1>2, <1>9, <2>1, TextInBuffer
  <1>12. cnt' \in -1 .. BUFSIZE /\ last' \in 0 .. BUFSIZE /\ line_start' \in 0 .. BUFSIZE
         /\ line_start' <= last'
    <2>1. reply'.ret = -1 \/ reply'.ret \in 0 .. BUFSIZE - last
      BY <1>10 DEF K!FAIL
    <2> QED BY <1>0, <1>2, <2>1 DEF K!FAIL
  <1>13. DataInv'
    BY <1>0, <1>9, <1>11, <1>12 DEF TypeInv, DataInv
  <1>14. TestInv'
    BY DEF TypeInv, TestInv, tests
  <1> QED BY <1>4, <1>7, <1>8, <1>13, <1>14 DEF TypeInv

LEMMA Least ==
  ASSUME NEW N, N \subseteq Nat, N # {}
  PROVE  \E m \in N : \A k \in N : m <= k
  <1>1. PICK m \in N : \A k \in N : ~(<<k, m>> \in OpToRel(<, Nat))
    BY NatLessThanWellFounded, WFMin, Zenon
  <1>2. \A k \in N : ~(k < m)
    BY <1>1 DEF OpToRel
  <1> QED BY <1>2

(* The end of the line that grep looks at.                                  *)
LEMMA LineEndFacts ==
  ASSUME line_start \in Nat, last \in Nat, line_start <= last
  PROVE  /\ LineEnd \in line_start .. last
         /\ LineEnd = last \/ buf[LineEnd] = NL
         /\ \A i \in line_start .. LineEnd - 1 : buf[i] # NL
  <1> DEFINE E == {e \in line_start .. last : e = last \/ buf[e] = NL}
  <1>1. E \subseteq Nat /\ last \in E
    OBVIOUS
  <1>2. PICK e \in E : \A k \in E : e <= k
    BY <1>1, Least
  <1>3. \A i \in line_start .. e - 1 : buf[i] # NL
    BY <1>2
  <1>4. e \in line_start .. last /\ (e = last \/ buf[e] = NL)
    BY <1>2
  <1>5. \E x \in line_start .. last :
          (x = last \/ buf[x] = NL) /\ \A i \in line_start .. x - 1 : buf[i] # NL
    BY <1>3, <1>4
  <1> QED BY <1>5 DEF LineEnd

LEMMA GrepLineType == TypeInv /\ GrepLine /\ UNCHANGED tests => TypeInv'
  <1> SUFFICES ASSUME TypeInv, GrepLine, UNCHANGED tests PROVE TypeInv'
    OBVIOUS
  <1>0. /\ pc = "line"
        /\ UNCHANGED <<live, fds, reply, content, program, args, fd, file, fname, cnt>>
        /\ \/ /\ line_start # 0
              /\ buf' = Overlaid([buf EXCEPT ![LineEnd] = Nul], 0, Append(Line, Nul))
              /\ last' = last - line_start /\ pc' = UnlessEnd /\ UNCHANGED <<line_start, out>>
           \/ /\ buf' = [buf EXCEPT ![LineEnd] = Nul]
              /\ out' = out \/ out' = Append(out, Said(<<fname, Line>>))
              /\ \/ last' = 0 /\ pc' = UnlessEnd /\ UNCHANGED line_start
                 \/ /\ LineEnd + 1 < last /\ line_start' = LineEnd + 1 /\ UNCHANGED <<last, pc>>
    <2>1. pc = "line" /\ UNCHANGED <<live, fds, reply, content, program, args, fd, file, fname, cnt>>
      BY DEF GrepLine, kernel, launched
    <2>2. LineEnd \in Int /\ last \in Int
      BY <2>1, LineEndFacts, Sizes DEF TypeInv, DataInv
    <2>3. PICK ended \in EndSeen :
       IF Carries(ended)
       THEN /\ buf' = Overlaid([buf EXCEPT ![LineEnd] = Nul], 0, Append(Line, Nul))
            /\ last' = last - line_start
            /\ pc' = UnlessEnd
            /\ UNCHANGED <<line_start, out>>
       ELSE /\ buf' = [buf EXCEPT ![LineEnd] = Nul]
            /\ out' = IF OccursIn(args, Line)
                      THEN Append(out, Said(<<fname, Line>>)) ELSE out
            /\ IF LineEnd + 1 >= last
               THEN last' = 0 /\ pc' = UnlessEnd /\ UNCHANGED line_start
               ELSE line_start' = LineEnd + 1 /\ UNCHANGED <<last, pc>>
      BY DEF GrepLine
    <2>4. Carries(ended) => line_start # 0
      BY DEF Carries
    <2>5. ~(LineEnd + 1 >= last) => LineEnd + 1 < last
      BY <2>2
    <2> QED BY <2>1, <2>3, <2>4, <2>5
  <1>1. /\ KernelInv /\ UpTo(4) /\ file = 3 /\ Good(3) /\ fds[p][3].file_op # "dir"
        /\ fd = 2 /\ Good(2) /\ program = "grep" /\ fds[p][2].file_op = "dir"
    BY <1>0, Places DEF TypeInv, DescriptorInv
  <1>2. /\ BUFSIZE \in Nat /\ last \in 0 .. BUFSIZE /\ line_start \in 0 .. BUFSIZE
        /\ line_start <= last /\ BufSize = BUFSIZE /\ BufSize' = BufSize
        /\ buf \in [0 .. BUFSIZE -> Character] /\ out \in Seq(Output) /\ fname \in Seq(CHAR)
    BY <1>0, <1>1, Sizes DEF TypeInv, DataInv, BufSize
  <1>3. LineEnd \in line_start .. last
    BY <1>2, LineEndFacts
  <1>4. Line \in Seq(Character) /\ Len(Line) = LineEnd - line_start
    <2>1. \A i \in 1 .. LineEnd - line_start : buf[line_start + i - 1] \in Character
      <3> SUFFICES ASSUME NEW i \in 1 .. LineEnd - line_start
                   PROVE  buf[line_start + i - 1] \in Character
        OBVIOUS
      <3>1. line_start + i - 1 \in 0 .. BUFSIZE
        BY <1>2, <1>3
      <3> QED BY <1>2, <3>1
    <2>2. LineEnd - line_start \in Nat
      BY <1>2, <1>3
    <2> QED BY <2>1, <2>2 DEF Line
  <1>5. pc' \in {"line", "readfile", "closefile"}
    BY <1>0 DEF UnlessEnd
  <1>6. KernelInv' /\ UpTo(4)' /\ Good(2)' /\ Good(3)'
    <2>1. KernelInv' /\ UpTo(4)'
      BY <1>0, <1>1 DEF KernelInv, Kept, UpTo
    <2> QED BY <1>0, <1>1, <2>1, GoodKept
  <1>7. PlaceInv'
    BY <1>0, <1>1, <1>5 DEF TypeInv, PlaceInv, Phases
  <1>8. DescriptorInv'
    BY <1>0, <1>1, <1>5, <1>6 DEF DescriptorInv
  <1>9. buf' \in [0 .. BUFSIZE -> Character]
    <2>1. [buf EXCEPT ![LineEnd] = Nul] \in [0 .. BUFSIZE -> Character]
      BY <1>2, Signs
    <2>2. Append(Line, Nul) \in Seq(Character)
      BY <1>4, Signs
    <2> DEFINE b == [buf EXCEPT ![LineEnd] = Nul]
               s == Append(Line, Nul)
    <2>3. b \in [0 .. BUFSIZE -> Character] /\ s \in Seq(Character)
      BY <2>1, <2>2
    <2> HIDE DEF b, s
    <2>4. Overlaid(b, 0, s) \in [0 .. BUFSIZE -> Character]
      BY <1>2, <2>3, OverlaidType
    <2> QED BY <1>0, <2>3, <2>4 DEF b, s
  <1>10. out' \in Seq(Output)
    <2> DEFINE l == Line
               o == Said(<<fname, l>>)
    <2>1. fname \in Seq(Character)
      BY <1>2, Signs
    <2>2. l \in Seq(Character)
      BY <1>4
    <2> HIDE DEF l
    <2>3. <<fname, l>> \in Seq(Character \cup Seq(Character)) /\ Len(<<fname, l>>) = 2
      BY <2>1, <2>2
    <2>4. o \in Output
      BY <2>3, SMTT(30) DEF Said, Output
    <2>5. out' = out \/ out' = Append(out, o)
      BY <1>0 DEF l
    <2> HIDE DEF o
    <2> QED BY <1>2, <2>4, <2>5, AppendOutput
  <1>11. /\ last' \in 0 .. BUFSIZE /\ line_start' \in 0 .. BUFSIZE
         /\ pc' = "line" => line_start' <= last'
    BY <1>0, <1>2, <1>3 DEF UnlessEnd
  <1>12. DataInv'
    BY <1>0, <1>2, <1>5, <1>9, <1>10, <1>11 DEF TypeInv, DataInv
  <1>13. TestInv'
    BY DEF TypeInv, TestInv, tests
  <1> QED BY <1>6, <1>7, <1>8, <1>12, <1>13 DEF TypeInv

LEMMA GrepCloseType == TypeInv /\ GrepClose /\ UNCHANGED tests => TypeInv'
  <1> SUFFICES ASSUME TypeInv, GrepClose, UNCHANGED tests PROVE TypeInv'
    OBVIOUS
  <1>0. /\ pc = "closefile" /\ K!Close(p, file)
        /\ UNCHANGED <<content, program, args, fd, file, fname, buf, cnt, last, line_start, out>>
        /\ pc' = IF reply'.ret = K!FAIL THEN "failed" ELSE "read"
    BY DEF GrepClose, launched, buffer, ToClose
  <1>1. /\ KernelInv /\ UpTo(4) /\ file = 3
        /\ fd = 2 /\ Good(2) /\ program = "grep" /\ fds[p][2].file_op = "dir"
    BY <1>0, Places DEF TypeInv, DescriptorInv
  <1>2. /\ KernelInv'
        /\ fds'[p][3] = [fds[p][3] EXCEPT !.flags = 0]
        /\ \A g \in K!Fd : g # 3 => fds'[p][g] = fds[p][g]
    <2>1. 3 \in K!Fd /\ 3 \in Int /\ fds[p][3].flags = 1
      BY <1>1, FdFacts DEF UpTo
    <2> QED BY <1>0, <1>1, <2>1, CloseReply
  <1>3. UpTo(3)'
    <2>1. fds'[p][3].flags = 0
      BY <1>1, <1>2, Positions, FdFacts DEF K!Entry
    <2>2. ASSUME NEW g \in K!Fd PROVE fds'[p][g].flags = IF g < 3 THEN 1 ELSE 0
      <3>1. CASE g = 3
        BY <2>1, <3>1
      <3>2. CASE g # 3
        <4>1. g < 4 <=> g < 3
          BY <3>2, Sizes DEF K!Fd
        <4>2. fds'[p][g] = fds[p][g] /\ fds[p][g].flags = IF g < 4 THEN 1 ELSE 0
          BY <1>1, <1>2, <3>2 DEF UpTo
        <4> QED BY <4>1, <4>2
      <3> QED BY <3>1, <3>2
    <2> QED BY <2>2 DEF UpTo
  <1>4. Good(2)' /\ fds'[p][2].file_op = "dir"
    BY <1>1, <1>2, FdFacts, GoodKept
  <1>5. PlaceInv'
    BY <1>0, <1>1 DEF TypeInv, PlaceInv, Phases
  <1>6. DescriptorInv'
    BY <1>0, <1>1, <1>3, <1>4 DEF DescriptorInv
  <1>7. DataInv'
    <2>1. BufSize' = BufSize
      BY <1>0 DEF BufSize
    <2> QED BY <1>0, <2>1 DEF TypeInv, DataInv
  <1>8. TestInv'
    BY DEF TypeInv, TestInv, tests
  <1> QED BY <1>2, <1>5, <1>6, <1>7, <1>8 DEF TypeInv

-----------------------------------------------------------------------------
(* syserr.                                                                  *)

LEMMA ChooseType == TypeInv /\ Choose => TypeInv'
  <1> SUFFICES ASSUME TypeInv, Choose PROVE TypeInv'
    OBVIOUS
  <1>0. /\ pc = "choose" /\ pc' = "run" /\ program = "syserr" /\ K!Read(p, 0, 127)
        /\ UNCHANGED <<content, program, args, fd, file, fname, buf, cnt, last, line_start, out>>
        /\ UNCHANGED <<call, bad>>
        /\ \E select \in 0 .. Len(Test) : test' = IF select = 0 THEN 1 ELSE select
    BY DEF Choose, launched, buffer, Is
  <1>1. KernelInv'
    <2>1. KernelInv /\ 0 \in Int /\ 127 \in Nat
      BY DEF TypeInv
    <2> QED BY <1>0, <2>1, ReadKernel
  <1>2. PlaceInv'
    BY <1>0 DEF TypeInv, PlaceInv, Phases
  <1>3. DescriptorInv'
    BY <1>0 DEF DescriptorInv
  <1>4. DataInv'
    <2>1. BufSize' = BufSize
      BY <1>0 DEF BufSize
    <2> QED BY <1>0, <2>1 DEF TypeInv, DataInv
  <1>5. TestInv'
    BY <1>0, TestDomain DEF TypeInv, TestInv
  <1> QED BY <1>1, <1>2, <1>3, <1>4, <1>5 DEF TypeInv

Ops == {"read", "write", "close", "open", "lots", "shut", "vidmap", "call"}
Calls == Seq([op : Ops, arg : Int])

LEMMA OneCall == ASSUME NEW op \in Ops, NEW arg \in Int PROVE One(op, arg) \in Calls
  BY DEF One, Calls

LEMMA EachCall ==
  ASSUME NEW op \in Ops, NEW from \in Int, NEW to \in Int, to - from + 1 \in Nat
  PROVE  Each(op, from, to) \in Calls
  <1> DEFINE n == to - from + 1
  <1>1. \A i \in 1 .. n : [op |-> op, arg |-> from + i - 1] \in [op : Ops, arg : Int]
    OBVIOUS
  <1>2. n \in Nat /\ Each(op, from, to) = [i \in 1 .. n |-> [op |-> op, arg |-> from + i - 1]]
    BY DEF Each
  <1> HIDE DEF n
  <1> QED BY <1>1, <1>2 DEF Calls

LEMMA Eighth ==
  ASSUME NEW E, NEW a \in E, NEW b \in E, NEW c \in E, NEW d \in E, NEW e \in E, NEW f \in E,
         NEW g \in E, NEW h \in E, NEW t \in 1 .. 8
  PROVE  <<a, b, c, d, e, f, g, h>>[t] \in E
  OBVIOUS

LEMMA BothCalls == ASSUME NEW s \in Calls, NEW t \in Calls PROVE s \o t \in Calls
  BY DEF Calls

LEMMA ThreeCalls ==
  ASSUME NEW s \in Calls, NEW t \in Calls, NEW u \in Calls PROVE s \o t \o u \in Calls
  BY BothCalls

LEMMA TestSeq ==
  ASSUME NEW t \in DOMAIN Test
  PROVE  Test[t] \in Calls
  <1>1. One("read", NEG) \o One("write", NEG) \o One("close", NEG) \in Calls
    <2>1. NEG \in Int
      BY DEF NEG
    <2>2. One("read", NEG) \in Calls /\ One("write", NEG) \in Calls /\ One("close", NEG) \in Calls
      BY <2>1, OneCall DEF Ops
    <2> QED BY <2>2, ThreeCalls
  <1>2. One("read", BIG) \o One("write", BIG) \o One("close", BIG) \in Calls
    <2>1. BIG \in Int
      BY DEF BIG
    <2>2. One("read", BIG) \in Calls /\ One("write", BIG) \in Calls /\ One("close", BIG) \in Calls
      BY <2>1, OneCall DEF Ops
    <2> QED BY <2>2, ThreeCalls
  <1>3. OpenLots \o CloseLots \in Calls
    <2>1. OpenLots \in Calls
      BY DEF OpenLots, Calls, Ops
    <2>2. CloseLots \in Calls
      BY DEF CloseLots, Calls, Ops
    <2> QED BY <2>1, <2>2, BothCalls
  <1>4. One("open", 1) \o One("open", 2) \o One("open", 3) \in Calls
    <2>1. One("open", 1) \in Calls /\ One("open", 2) \in Calls /\ One("open", 3) \in Calls
      BY OneCall DEF Ops
    <2> QED BY <2>1, ThreeCalls
  <1>5. Each("close", 0, NFD - 1) \o Each("read", 2, NFD - 1) \o Each("write", 2, NFD - 1) \in Calls
    <2>1. NFD - 1 \in Int /\ (NFD - 1) - 0 + 1 \in Nat /\ (NFD - 1) - 2 + 1 \in Nat
          /\ 0 \in Int /\ 2 \in Int
      BY Sizes
    <2>2. "close" \in Ops /\ "read" \in Ops /\ "write" \in Ops
      BY DEF Ops
    <2>3. Each("close", 0, NFD - 1) \in Calls
      BY <2>1, <2>2, EachCall
    <2>4. Each("read", 2, NFD - 1) \in Calls /\ Each("write", 2, NFD - 1) \in Calls
      BY <2>1, <2>2, EachCall
    <2> QED BY <2>3, <2>4, ThreeCalls
  <1>6. One("vidmap", 0) \o One("vidmap", 4) \in Calls
    <2>1. One("vidmap", 0) \in Calls /\ One("vidmap", 4) \in Calls
      BY OneCall DEF Ops
    <2> QED BY <2>1, BothCalls
  <1>7. One("write", 0) \o One("read", 1) \in Calls
    <2>1. One("write", 0) \in Calls /\ One("read", 1) \in Calls
      BY OneCall DEF Ops
    <2> QED BY <2>1, BothCalls
  <1>8. One("call", BIG) \o One("call", NEG) \o One("call", 0) \in Calls
    <2>1. BIG \in Int /\ NEG \in Int
      BY DEF BIG, NEG
    <2>2. One("call", BIG) \in Calls /\ One("call", NEG) \in Calls /\ One("call", 0) \in Calls
      BY <2>1, OneCall DEF Ops
    <2> QED BY <2>2, ThreeCalls
  <1> HIDE DEF Calls
  <1>9. t \in 1 .. 8
    BY TestDomain
  <1> QED BY <1>1, <1>2, <1>3, <1>4, <1>5, <1>6, <1>7, <1>8, <1>9, Eighth DEF Test

LEMMA ArgType ==
  ASSUME TestInv, call <= Len(Test[test])
  PROVE  Arg \in Int
  <1>1. Test[test] \in Calls
    BY TestSeq DEF TestInv
  <1>2. call \in 1 .. Len(Test[test])
    BY <1>1 DEF TestInv, Calls
  <1>3. Test[test][call] \in [op : Ops, arg : Int]
    BY <1>1, <1>2, ElementOfSeq DEF Calls
  <1> QED BY <1>3 DEF Arg

(* A call of a test changes the kernel's state at most.                     *)
LEMMA SyscallType ==
  ASSUME TypeInv, pc = "run", pc' = pc, KernelInv',
         UNCHANGED <<launched, fd, file, fname, buffer, out>>,
         call' = call + 1, UNCHANGED <<test, bad>>
  PROVE  TypeInv'
  <1>1. PlaceInv' /\ DescriptorInv'
    BY DEF TypeInv, PlaceInv, DescriptorInv, launched
  <1>2. DataInv'
    <2>1. BufSize' = BufSize
      BY DEF BufSize, launched
    <2> QED BY <2>1 DEF TypeInv, DataInv, buffer
  <1>3. TestInv'
    BY DEF TypeInv, TestInv
  <1> QED BY <1>1, <1>2, <1>3 DEF TypeInv

TestStep == TestRead \/ TestWrite \/ TestClose \/ TestOpen \/ TestLots \/ TestShut \/ TestVidmap \/ TestCall

LEMMA TestStepType == TypeInv /\ TestStep => TypeInv'
  <1> SUFFICES ASSUME TypeInv, TestStep PROVE TypeInv'
    OBVIOUS
  <1>1. /\ pc = "run" /\ pc' = pc /\ UNCHANGED <<launched, fd, file, fname, buffer, out>>
        /\ call' = call + 1 /\ UNCHANGED <<test, bad>> /\ call <= Len(Test[test])
    BY DEF TestStep, TestRead, TestWrite, TestClose, TestOpen, TestLots, TestShut, TestVidmap,
           TestCall, Syscall, NextCall, Is
  <1>2. Arg \in Int /\ KernelInv /\ 31 \in Nat /\ 31 \in Int
    BY <1>1, ArgType DEF TypeInv
  <1>3. KernelInv'
    <2>1. CASE TestRead
      BY <1>2, <2>1, ReadKernel DEF TestRead
    <2>2. CASE TestWrite
      BY <1>2, <2>2, WriteReply DEF TestWrite
    <2>3. CASE TestClose \/ TestShut
      BY <1>2, <2>3, CloseReply DEF TestClose, TestShut
    <2>4. CASE TestOpen
      BY <1>2, <2>4, OpenKernel DEF TestOpen
    <2>5. CASE TestLots
      BY <1>2, <2>5, OpenKernel DEF TestLots
    <2>6. CASE TestVidmap \/ TestCall
      BY <1>2, <2>6 DEF TestVidmap, TestCall, kernel, KernelInv, Kept
    <2> QED BY <2>1, <2>2, <2>3, <2>4, <2>5, <2>6 DEF TestStep
  <1> QED BY <1>1, <1>3, SyscallType

LEMMA TestDoneType == TypeInv /\ TestDone => TypeInv'
  <1> SUFFICES ASSUME TypeInv, TestDone PROVE TypeInv'
    OBVIOUS
  <1>0. /\ pc = "run" /\ program = "syserr"
        /\ UNCHANGED <<live, fds, reply, content, program, args>>
        /\ UNCHANGED <<fd, file, fname, buf, cnt, last, line_start, out>>
        /\ bad' = bad \/ bad' = bad \cup {test}
        /\ call' = 1
        /\ \/ test < Len(Test) /\ test' = test + 1 /\ pc' = pc
           \/ test' = test /\ pc' = "ok"
    BY DEF TestDone, Is, launched, buffer, kernel
  <1>1. KernelInv'
    BY <1>0 DEF TypeInv, KernelInv, Kept
  <1>2. PlaceInv' /\ DescriptorInv'
    BY <1>0 DEF TypeInv, PlaceInv, Phases, DescriptorInv
  <1>3. DataInv'
    <2>1. BufSize' = BufSize
      BY <1>0 DEF BufSize
    <2> QED BY <1>0, <2>1 DEF TypeInv, DataInv
  <1>4. TestInv'
    BY <1>0, TestDomain DEF TypeInv, TestInv
  <1> QED BY <1>1, <1>2, <1>3, <1>4 DEF TypeInv

-----------------------------------------------------------------------------
LEMMA TypeStep == TypeInv /\ [Next]_vars => TypeInv'
  <1> SUFFICES ASSUME TypeInv, [Next]_vars PROVE TypeInv'
    OBVIOUS
  <1>1. CASE (CatOrLs \/ Grep) /\ UNCHANGED tests
    BY <1>1, OpenFirstType, CatReadType, LsReadType, WriteBufferType, GetArgsType, GrepNameType,
       GrepOpenType, GrepReadType, GrepLineType, GrepCloseType DEF CatOrLs, Grep
  <1>2. CASE Syserr
    BY <1>2, ChooseType, TestStepType, TestDoneType DEF Syserr, TestStep
  <1>3. CASE UNCHANGED vars
    <2>1. /\ UNCHANGED <<live, fds, reply, content, program, args, pc, fd, file, fname>>
          /\ UNCHANGED <<buf, cnt, last, line_start, out, test, call, bad>>
      BY <1>3 DEF vars, kernel, launched, buffer, tests
    <2>2. KernelInv' /\ PlaceInv' /\ TestInv'
      BY <2>1 DEF TypeInv, KernelInv, Kept, PlaceInv, TestInv
    <2>3. DescriptorInv'
      BY <2>1, GoodKept DEF TypeInv, DescriptorInv, UpTo, FileName
    <2>4. DataInv'
      BY <2>1 DEF TypeInv, DataInv, BufSize
    <2> QED BY <2>2, <2>3, <2>4 DEF TypeInv
  <1> QED BY <1>1, <1>2, <1>3 DEF Next

LEMMA TypeInvariant == Spec => []TypeInv
  BY TypeInit, TypeStep, PTL DEF Spec

(* Every variable keeps its type, for every image, argument, program and    *)
(* size of the buffers.                                                      *)
THEOREM TypeCorrect == Spec => []TypeOK
  <1>1. TypeInv => TypeOK
    <2> SUFFICES ASSUME TypeInv PROVE TypeOK
      OBVIOUS
    <2>1. K!TypeOK
      BY ThePid DEF TypeInv, KernelInv, K!TypeOK
    <2>2. pc \in Status
      BY Places DEF TypeInv
    <2>3. DOMAIN buf \subseteq 0 .. BUFSIZE + MAX_NAME_LENGTH /\ \A i \in DOMAIN buf : buf[i] \in Character
      BY BufSizes, Sizes DEF TypeInv, DataInv
    <2>4. \A i \in DOMAIN out : out[i].asked <= Len(out[i].shown)
      <3> SUFFICES ASSUME NEW i \in DOMAIN out PROVE out[i].asked <= Len(out[i].shown)
        OBVIOUS
      <3>1. out \in Seq(Output) /\ i \in 1 .. Len(out)
        BY DEF TypeInv, DataInv
      <3>2. out[i] \in Output
        BY <3>1, ElementOfSeq
      <3> QED BY <3>2 DEF Output
    <2>5. /\ fd \in Int /\ file \in Int /\ fname \in Seq(CHAR)
          /\ cnt \in -1 .. BUFSIZE /\ last \in 0 .. BUFSIZE /\ line_start \in 0 .. BUFSIZE
      BY DEF TypeInv, DataInv
    <2>6. test \in DOMAIN Test /\ bad \subseteq DOMAIN Test
      BY DEF TypeInv, TestInv
    <2> QED BY <2>1, <2>2, <2>3, <2>4, <2>5, <2>6 DEF TypeOK
  <1> QED BY <1>1, TypeInvariant, PTL

-----------------------------------------------------------------------------
(* ls.                                                                      *)

(* A zero behind the bytes that were asked for ends what is shown.          *)
LEMMA ExactPiece ==
  ASSUME NEW m \in Nat, buf \in [0 .. m -> Character], NEW n \in 0 .. m,
         \A i \in 0 .. n - 1 : buf[i] \in Sign, buf[n] = Nul, NEW k \in StrLens(buf)
  PROVE  k = n /\ Shown(buf, k) = [i \in 1 .. n |-> buf[i - 1]]
  <1>0. n \in 0 .. m + 1
    OBVIOUS
  <1>1. k \in Nat /\ n <= k
    BY <1>0, WrotePiece
  <1>2. DOMAIN buf = 0 .. m
    OBVIOUS
  <1>3. k \in DOMAIN buf /\ \A i \in 0 .. k - 1 : buf[i] # Nul
    BY <1>2 DEF StrLens
  <1>4. k = n
    BY <1>1, <1>3
  <1> QED BY <1>2, <1>4 DEF Shown

LEMMA LaunchedKept == [Next]_vars => UNCHANGED <<content, program, args>>
  <1> SUFFICES ASSUME [Next]_vars PROVE UNCHANGED launched
    BY DEF launched
  <1>1. CASE CatOrLs
    BY <1>1 DEF CatOrLs, OpenFirst, CatRead, LsRead, WriteBuffer
  <1>2. CASE Grep
    BY <1>2 DEF Grep, GetArgs, GrepName, GrepOpen, GrepRead, GrepLine, GrepClose
  <1>3. CASE Choose \/ TestDone
    BY <1>3 DEF Choose, TestDone
  <1>4. CASE TestStep
    BY <1>4 DEF TestStep, TestRead, TestWrite, TestClose, TestOpen, TestLots, TestShut, TestVidmap,
                TestCall, Syscall
  <1>5. CASE UNCHANGED vars
    BY <1>5 DEF vars
  <1> QED BY <1>1, <1>2, <1>3, <1>4, <1>5 DEF Next, Syserr, TestStep

LineOut(i) == Append(dir_entries[i].file_name, NL)

(* Every piece written is the line of its entry.                            *)
LinesOut ==
  \A i \in 1 .. Len(out) :
    /\ i \in DOMAIN dir_entries /\ AskedFor(out[i]) = LineOut(i)
    /\ out[i].asked < MAX_NAME_LENGTH => out[i].shown = AskedFor(out[i])

LsBuffer(n) ==
  LET s == dir_entries[n].file_name
  IN /\ n \in DOMAIN dir_entries
     /\ cnt = Len(s) + 1
     /\ \A i \in 0 .. Len(s) - 1 : buf[i] = s[i + 1]
     /\ buf[Len(s)] = NL
     /\ Len(s) + 1 < MAX_NAME_LENGTH => buf[Len(s) + 1] = Nul

LsInv ==
  program = "ls" =>
    /\ LinesOut
    /\ pc = "open" => out = <<>>
    /\ pc = "read" => Len(out) = fds[p][2].file_pos
    /\ pc = "write" => Len(out) + 1 = fds[p][2].file_pos /\ LsBuffer(Len(out) + 1)
    /\ pc = "ok" => Len(out) = Len(dir_entries)

LEMMA LsInit == Init => LsInv
  BY DEF Init, LsInv, LinesOut

LEMMA LsOpenStep == TypeInv /\ LsInv /\ OpenFirst => LsInv'
  <1> SUFFICES ASSUME TypeInv, LsInv, OpenFirst, program = "ls" PROVE LsInv'
    BY DEF OpenFirst, launched, LsInv
  <1>0. /\ pc = "open" /\ out' = out /\ K!Open(p, Dot)
        /\ pc' = IF reply'.ret = K!FAIL THEN "failed" ELSE "read"
    BY DEF OpenFirst
  <1>1. KernelInv /\ UpTo(2) /\ 2 \in 2 .. NFD - 1
    BY <1>0, Sizes DEF TypeInv, DescriptorInv
  <1>2. \/ \E d \in K!read_dentry_by_name(Dot) : \E e \in K!Opened(d, K!Blank) : fds'[p][2] = e
        \/ reply'.ret = K!FAIL
    BY <1>0, <1>1, OpenReply
  <1>3. reply'.ret # K!FAIL => fds'[p][2].file_pos = 0
    BY <1>2, OpenedEntry
  <1>4. out' = <<>> /\ LinesOut'
    BY <1>0 DEF LsInv, LinesOut
  <1> QED BY <1>0, <1>3, <1>4 DEF LsInv

LEMMA LsReadStep == TypeInv /\ LsInv /\ LsRead => LsInv'
  <1> SUFFICES ASSUME TypeInv, LsInv, LsRead PROVE LsInv'
    OBVIOUS
  <1>0. /\ pc = "read" /\ program = "ls" /\ pc' = After(reply'.ret, "write") /\ UNCHANGED <<program, out>>
        /\ K!Read(p, fd, MAX_NAME_LENGTH)
    BY DEF LsRead, launched, Is
  <1>1. /\ KernelInv /\ fd = 2 /\ Good(2) /\ fds[p][2].file_op = "dir" /\ MAX_NAME_LENGTH > 0
        /\ MAX_NAME_LENGTH \in Nat /\ MAX_NAME_LENGTH >= MAX_NAME_LENGTH /\ 2 \in K!Fd
        /\ K!Read(p, 2, MAX_NAME_LENGTH)
    BY <1>0, Sizes, FdFacts DEF TypeInv, DescriptorInv
  <1>2. /\ LinesOut /\ LinesOut' /\ Len(out) = fds[p][2].file_pos /\ Len(out) \in Nat
    BY <1>0, <1>1, Positions DEF LsInv, LinesOut, TypeInv, DataInv
  <1>3. fds[p][2].flags = 1 /\ fds[p][2].file_pos <= Len(dir_entries)
    BY <1>1 DEF Good, HasText
  <1>4. \/ fds[p][2].file_pos = Len(dir_entries) /\ reply'.ret = 0
        \/ /\ fds[p][2].file_pos + 1 \in DOMAIN dir_entries
           /\ Moved(2, fds[p][2].file_pos + 1)
           /\ NameOf(reply') = dir_entries[fds[p][2].file_pos + 1].file_name
           /\ reply'.ret = Len(dir_entries[fds[p][2].file_pos + 1].file_name)
    BY <1>1, <1>3, DirReply
  <1>5. CASE fds[p][2].file_pos = Len(dir_entries) /\ reply'.ret = 0
    BY <1>0, <1>2, <1>5 DEF LsInv, After
  <1>6. CASE /\ fds[p][2].file_pos + 1 \in DOMAIN dir_entries
             /\ Moved(2, fds[p][2].file_pos + 1)
             /\ NameOf(reply') = dir_entries[fds[p][2].file_pos + 1].file_name
             /\ reply'.ret = Len(dir_entries[fds[p][2].file_pos + 1].file_name)
    <2> DEFINE n == Len(out) + 1
               s == dir_entries[n].file_name
               o == Overlaid(buf, 0, Padded(s))
               m == MAX_NAME_LENGTH
    <2>1. n \in DOMAIN dir_entries /\ NameOf(reply') = s /\ reply'.ret = Len(s)
      BY <1>2, <1>6
    <2>2. /\ s \in Seq(CHAR) /\ Len(s) \in Nat /\ Len(s) > 0 /\ Len(s) < m
          /\ m \in Nat
      BY <2>1, EntryName
    <2>3. fds'[p][2].file_pos = n
      <3>1. fds'[p][2] = [fds[p][2] EXCEPT !.file_pos = fds[p][2].file_pos + 1] /\ fds[p][2] \in K!Entry
        BY <1>1, <1>6, Positions DEF Moved
      <3> QED BY <1>2, <3>1 DEF K!Entry
    <2>4. pc' = "write"
      <3> HIDE DEF s
      <3> QED BY <1>0, <2>1, <2>2 DEF After, K!FAIL
    <2>5. cnt' = Len(s) + 1 /\ buf' = [o EXCEPT ![Len(s)] = NL]
      BY <2>1, <2>2 DEF LsRead
    <2>6. buf \in [0 .. m -> Character]
      BY <1>0 DEF TypeInv, DataInv, BufSize
    <2> HIDE DEF s, m
    <2>7. /\ o \in [0 .. m -> Character]
          /\ \A i \in 0 .. Len(s) - 1 : o[i] = s[i + 1]
          /\ \A i \in Len(s) .. m - 1 : o[i] = Nul
      BY <2>2, <2>6, NameInBuffer DEF m
    <2> HIDE DEF o
    <2>8. Len(s) \in 0 .. m
      BY <2>2
    <2>9. buf'[Len(s)] = NL /\ \A i \in 0 .. m : i # Len(s) => buf'[i] = o[i]
      BY <2>5, <2>7, <2>8
    <2>10. /\ \A i \in 0 .. Len(s) - 1 : buf'[i] = s[i + 1]
           /\ Len(s) + 1 < m => buf'[Len(s) + 1] = Nul
      BY <2>2, <2>7, <2>9
    <2>11. LsBuffer(n)'
      BY <1>0, <2>1, <2>5, <2>9, <2>10 DEF LsBuffer, s, m
    <2> QED BY <1>0, <1>2, <2>3, <2>4, <2>11 DEF LsInv
  <1> QED BY <1>4, <1>5, <1>6

LEMMA LsWriteStep == TypeInv /\ LsInv /\ WriteBuffer => LsInv'
  <1> SUFFICES ASSUME TypeInv, LsInv, WriteBuffer, program = "ls" PROVE LsInv'
    BY DEF WriteBuffer, launched, LsInv
  <1> DEFINE n == Len(out) + 1
             s == dir_entries[n].file_name
             m == MAX_NAME_LENGTH
  <1>0. /\ pc = "write" /\ pc' = "read" /\ K!Write(p, 1, cnt) /\ UNCHANGED <<program, buf, cnt>>
        /\ \E k \in StrLens(buf) : out' = Append(out, [asked |-> cnt, shown |-> Shown(buf, k)])
    BY DEF WriteBuffer, launched, buffer, Wrote
  <1>1. /\ KernelInv /\ cnt \in 0 .. m + 1 /\ buf \in [0 .. m -> Character]
        /\ \A i \in 0 .. cnt - 1 : buf[i] \in Sign
        /\ out \in Seq(Output) /\ cnt \in Int
    BY <1>0 DEF TypeInv, DataInv, BufSize
  <1>2. fds' = fds
    BY <1>0, <1>1, WriteReply
  <1>3. LinesOut /\ n = fds[p][2].file_pos /\ LsBuffer(n)
    BY <1>0 DEF LsInv
  <1>4. /\ n \in DOMAIN dir_entries /\ cnt = Len(s) + 1 /\ buf[Len(s)] = NL
        /\ \A i \in 0 .. Len(s) - 1 : buf[i] = s[i + 1]
        /\ Len(s) + 1 < m => buf[Len(s) + 1] = Nul
    BY <1>3 DEF LsBuffer
  <1>5. s \in Seq(CHAR) /\ Len(s) \in Nat /\ Len(s) > 0 /\ Len(s) < m /\ m \in Nat
    BY <1>4, EntryName
  <1>6. PICK k \in StrLens(buf) : out' = Append(out, [asked |-> cnt, shown |-> Shown(buf, k)])
    BY <1>0
  <1> DEFINE o == [asked |-> cnt, shown |-> Shown(buf, k)]
  <1> HIDE DEF s, m
  <1>7. o \in Output /\ AskedFor(o) = [i \in 1 .. cnt |-> buf[i - 1]]
    BY <1>1, <1>5, WrotePiece
  <1>8. AskedFor(o) = LineOut(n)
    <2>1. \A i \in 1 .. Len(s) + 1 : buf[i - 1] = IF i <= Len(s) THEN s[i] ELSE NL
      BY <1>4, <1>5
    <2>2. LineOut(n) = [i \in 1 .. Len(s) + 1 |-> IF i <= Len(s) THEN s[i] ELSE NL]
      BY <1>5 DEF LineOut, s
    <2> QED BY <1>4, <1>7, <2>1, <2>2
  <1>9. o.asked < m => o.shown = AskedFor(o)
    <2> SUFFICES ASSUME cnt < m PROVE Shown(buf, k) = AskedFor(o)
      OBVIOUS
    <2>1. cnt \in 0 .. m /\ buf[cnt] = Nul
      BY <1>4, <1>5
    <2>2. Shown(buf, k) = [i \in 1 .. cnt |-> buf[i - 1]]
      BY <1>1, <1>5, <2>1, ExactPiece
    <2> QED BY <1>7, <2>2
  <1>10. /\ Len(out) \in Nat /\ Len(out') = n /\ out'[n] = o
         /\ \A i \in 1 .. Len(out) : out'[i] = out[i]
    <2> HIDE DEF o
    <2>1. out' = Append(out, o)
      BY <1>6 DEF o
    <2> QED BY <1>1, <1>7, <2>1
  <1>11. LinesOut'
    <2> SUFFICES ASSUME NEW i \in 1 .. Len(out')
                 PROVE  /\ i \in DOMAIN dir_entries /\ AskedFor(out'[i]) = LineOut(i)
                        /\ out'[i].asked < MAX_NAME_LENGTH => out'[i].shown = AskedFor(out'[i])
      BY DEF LinesOut, LineOut, AskedFor
    <2>1. CASE i = n
      <3> HIDE DEF o, n
      <3> QED BY <1>4, <1>8, <1>9, <1>10, <2>1 DEF m
    <2>2. CASE i \in 1 .. Len(out)
      BY <1>3, <1>10, <2>2 DEF LinesOut
    <2> QED BY <1>10, <2>1, <2>2
  <1> QED BY <1>0, <1>2, <1>3, <1>10, <1>11 DEF LsInv

LEMMA LsStep == TypeInv /\ LsInv /\ [Next]_vars => LsInv'
  <1> SUFFICES ASSUME TypeInv, LsInv, [Next]_vars, program = "ls" PROVE LsInv'
    BY LaunchedKept DEF LsInv
  <1>1. pc \in {"open", "read", "write", "ok", "failed"}
    BY DEF TypeInv, PlaceInv, Phases
  <1>2. CASE OpenFirst \/ LsRead \/ WriteBuffer
    BY <1>2, LsOpenStep, LsReadStep, LsWriteStep
  <1>3. CASE UNCHANGED vars
    <2>1. UNCHANGED <<program, pc, fds, out, cnt, buf>>
      BY <1>3 DEF vars, kernel, launched, buffer
    <2> QED BY <2>1 DEF LsInv, LinesOut, LsBuffer, LineOut, AskedFor
  <1>4. ~CatRead /\ ~Grep /\ ~Syserr
    BY <1>1 DEF CatRead, Grep, Syserr, Is, GetArgs, GrepName, GrepOpen, GrepRead, GrepLine, GrepClose,
                Choose, TestDone, TestRead, TestWrite, TestClose, TestOpen, TestLots, TestShut,
                TestVidmap, TestCall, Syscall
  <1> QED BY <1>2, <1>3, <1>4 DEF Next, CatOrLs

(* ls writes every name of the directory, in its order, on a line of its    *)
(* own; only behind the longest names a stray byte may follow.               *)
THEOREM LsCorrect == Spec => []LsPrintsNames
  <1>1. TypeInv /\ LsInv => LsPrintsNames
    <2> SUFFICES ASSUME TypeInv, LsInv, program = "ls", pc = "ok" PROVE LsPrintsNames
      BY DEF LsPrintsNames, Is
    <2>1. LinesOut /\ Len(out) = Len(dir_entries) /\ out \in Seq(Output)
      BY DEF LsInv, TypeInv, DataInv
    <2>2. DOMAIN out = DOMAIN dir_entries /\ DOMAIN out = 1 .. Len(out)
      BY <2>1, Directory
    <2>3. [i \in DOMAIN out |-> AskedFor(out[i])]
            = [i \in DOMAIN dir_entries |-> Append(dir_entries[i].file_name, NL)]
      BY <2>1, <2>2 DEF LinesOut, LineOut
    <2> QED BY <2>1, <2>2, <2>3 DEF LsPrintsNames, Written, LinesOut
  <1> QED BY <1>1, TypeInvariant, LsInit, LsStep, TypeStep, PTL DEF Spec

-----------------------------------------------------------------------------
(* syserr.                                                                  *)

(* A call that fails while only the terminal's two descriptors are open.    *)
Refusable ==
  {c \in [op : Ops, arg : Int] :
     /\ c.op = "read" => c.arg # 0
     /\ c.op = "write" => c.arg # 1
     /\ c.op = "open" => c.arg \in 1 .. 3
     /\ c.op = "vidmap" => vidmapFails(c.arg)
     /\ c.op = "call" => CallFails(c.arg)
     /\ c.op # "lots" /\ c.op # "shut"}

LEMMA FunctionSeq ==
  ASSUME NEW E, NEW n \in Nat, NEW f \in [1 .. n -> E]
  PROVE  f \in Seq(E) /\ Len(f) = n
  OBVIOUS

LEMMA SevenAndSix ==
  ASSUME NEW E, NEW s \in Seq(E), NEW t \in Seq(E), Len(s) = 7, Len(t) = 6
  PROVE  /\ Len(s \o t) = 13
         /\ \A i \in 1 .. 7 : (s \o t)[i] = s[i]
         /\ \A i \in 8 .. 13 : (s \o t)[i] = t[i - 7]
  <1>1. Len(s \o t) = Len(s) + Len(t)
    BY ConcatProperties
  <1>2. \A i \in 1 .. Len(s) + Len(t) :
          (s \o t)[i] = IF i <= Len(s) THEN s[i] ELSE t[i - Len(s)]
    BY ConcatProperties
  <1>3. \A i \in 1 .. 13 : (s \o t)[i] = IF i <= 7 THEN s[i] ELSE t[i - 7]
    <2> SUFFICES ASSUME NEW i \in 1 .. 13 PROVE (s \o t)[i] = IF i <= 7 THEN s[i] ELSE t[i - 7]
      OBVIOUS
    <2>1. i \in 1 .. Len(s) + Len(t)
      OBVIOUS
    <2>2. (s \o t)[i] = IF i <= Len(s) THEN s[i] ELSE t[i - Len(s)]
      BY <1>2, <2>1, Zenon
    <2> QED BY <2>2, Zenon
  <1>4. \A i \in 1 .. 7 : i \in 1 .. 13 /\ i <= 7
    OBVIOUS
  <1>5. \A i \in 8 .. 13 : i \in 1 .. 13 /\ ~(i <= 7)
    OBVIOUS
  <1>6. \A i \in 1 .. 7 : (s \o t)[i] = s[i]
    BY <1>3, <1>4, Zenon
  <1>7. \A i \in 8 .. 13 : (s \o t)[i] = t[i - 7]
    BY <1>3, <1>5, Zenon
  <1> QED BY <1>1, <1>6, <1>7, SMTT(30)

LEMMA OneRefusable ==
  ASSUME NEW op, NEW arg, [op |-> op, arg |-> arg] \in Refusable
  PROVE  One(op, arg) \in Seq(Refusable)
  BY DEF One

LEMMA EachRefusable ==
  ASSUME NEW op, NEW from \in Int, NEW to \in Int, to - from + 1 \in Nat,
         \A a \in from .. to : [op |-> op, arg |-> a] \in Refusable
  PROVE  Each(op, from, to) \in Seq(Refusable)
  <1> DEFINE n == to - from + 1
  <1>1. \A i \in 1 .. n : [op |-> op, arg |-> from + i - 1] \in Refusable
    <2> SUFFICES ASSUME NEW i \in 1 .. n PROVE [op |-> op, arg |-> from + i - 1] \in Refusable
      OBVIOUS
    <2>1. from + i - 1 \in from .. to
      OBVIOUS
    <2> HIDE DEF Refusable
    <2> QED BY <2>1
  <1>2. n \in Nat /\ Each(op, from, to) = [i \in 1 .. n |-> [op |-> op, arg |-> from + i - 1]]
    BY DEF Each
  <1> HIDE DEF n, Refusable
  <1>3. Each(op, from, to) \in [1 .. n -> Refusable]
    BY <1>1, <1>2
  <1> QED BY <1>2, <1>3, FunctionSeq

LEMMA ThreeRefusable ==
  ASSUME NEW s \in Seq(Refusable), NEW t \in Seq(Refusable), NEW u \in Seq(Refusable)
  PROVE  s \o t \in Seq(Refusable) /\ s \o t \o u \in Seq(Refusable)
  <1>1. s \o t \in Seq(Refusable)
    BY ConcatProperties
  <1> QED BY <1>1, ConcatProperties

LEMMA RefusedTests ==
  ASSUME NEW t \in DOMAIN Test, t # OPEN_LOTS
  PROVE  Test[t] \in Seq(Refusable)
  <1> DEFINE E == Seq(Refusable)
  <1>1. One("read", NEG) \o One("write", NEG) \o One("close", NEG) \in E
    <2>1. /\ [op |-> "read", arg |-> NEG] \in Refusable /\ [op |-> "write", arg |-> NEG] \in Refusable
          /\ [op |-> "close", arg |-> NEG] \in Refusable
      BY DEF Refusable, NEG, Ops
    <2> QED BY <2>1, OneRefusable, ThreeRefusable
  <1>2. One("read", BIG) \o One("write", BIG) \o One("close", BIG) \in E
    <2>1. /\ [op |-> "read", arg |-> BIG] \in Refusable /\ [op |-> "write", arg |-> BIG] \in Refusable
          /\ [op |-> "close", arg |-> BIG] \in Refusable
      BY DEF Refusable, BIG, Ops
    <2> QED BY <2>1, OneRefusable, ThreeRefusable
  <1>4. One("open", 1) \o One("open", 2) \o One("open", 3) \in E
    <2>1. /\ [op |-> "open", arg |-> 1] \in Refusable /\ [op |-> "open", arg |-> 2] \in Refusable
          /\ [op |-> "open", arg |-> 3] \in Refusable
      BY DEF Refusable, Ops
    <2> QED BY <2>1, OneRefusable, ThreeRefusable
  <1>5. Each("close", 0, NFD - 1) \o Each("read", 2, NFD - 1) \o Each("write", 2, NFD - 1) \in E
    <2>1. NFD - 1 \in Int /\ (NFD - 1) - 0 + 1 \in Nat /\ (NFD - 1) - 2 + 1 \in Nat
          /\ 0 \in Int /\ 2 \in Int
      BY Sizes
    <2>2. \A a \in 0 .. NFD - 1 : [op |-> "close", arg |-> a] \in Refusable
      BY <2>1 DEF Refusable, Ops
    <2>3. \A a \in 2 .. NFD - 1 : [op |-> "read", arg |-> a] \in Refusable
      BY <2>1 DEF Refusable, Ops
    <2>4. \A a \in 2 .. NFD - 1 : [op |-> "write", arg |-> a] \in Refusable
      BY <2>1 DEF Refusable, Ops
    <2>5. Each("close", 0, NFD - 1) \in E
      BY <2>1, <2>2, EachRefusable
    <2>6. Each("read", 2, NFD - 1) \in E /\ Each("write", 2, NFD - 1) \in E
      BY <2>1, <2>3, <2>4, EachRefusable
    <2> QED BY <2>5, <2>6, ThreeRefusable
  <1>6. One("vidmap", 0) \o One("vidmap", 4) \in E
    <2>1. [op |-> "vidmap", arg |-> 0] \in Refusable /\ [op |-> "vidmap", arg |-> 4] \in Refusable
      BY DEF Refusable, Ops, vidmapFails
    <2> QED BY <2>1, OneRefusable, ThreeRefusable
  <1>7. One("write", 0) \o One("read", 1) \in E
    <2>1. [op |-> "write", arg |-> 0] \in Refusable /\ [op |-> "read", arg |-> 1] \in Refusable
      BY DEF Refusable, Ops
    <2> QED BY <2>1, OneRefusable, ThreeRefusable
  <1>8. One("call", BIG) \o One("call", NEG) \o One("call", 0) \in E
    <2>1. /\ [op |-> "call", arg |-> BIG] \in Refusable /\ [op |-> "call", arg |-> NEG] \in Refusable
          /\ [op |-> "call", arg |-> 0] \in Refusable
      BY DEF Refusable, BIG, NEG, Ops, CallFails
    <2> QED BY <2>1, OneRefusable, ThreeRefusable
  <1>9. t \in 1 .. 8
    BY TestDomain
  <1> HIDE DEF E
  <1>10. CASE t = 1
    BY <1>1, <1>10 DEF Test, E
  <1>11. CASE t = 2
    BY <1>2, <1>11 DEF Test, E
  <1>12. CASE t = 4
    BY <1>4, <1>12 DEF Test, E
  <1>13. CASE t = 5
    BY <1>5, <1>13 DEF Test, E
  <1>14. CASE t = 6
    BY <1>6, <1>14 DEF Test, E
  <1>15. CASE t = 7
    BY <1>7, <1>15 DEF Test, E
  <1>16. CASE t = 8
    BY <1>8, <1>16 DEF Test, E
  <1> QED BY <1>9, <1>10, <1>11, <1>12, <1>13, <1>14, <1>15, <1>16 DEF OPEN_LOTS

LEMMA LotsOfOpens ==
  /\ Len(Test[OPEN_LOTS]) = 13
  /\ \A i \in 1 .. 7 : Test[OPEN_LOTS][i].op = "lots"
  /\ \A i \in 8 .. 13 : Test[OPEN_LOTS][i].op = "shut" /\ Test[OPEN_LOTS][i].arg = i - 6
  <1>1. Test[OPEN_LOTS] = OpenLots \o CloseLots
    BY DEF Test, OPEN_LOTS
  <1>2. OpenLots \in Seq([op : Ops, arg : Int]) /\ Len(OpenLots) = 7
    BY DEF OpenLots, Ops
  <1>3. CloseLots \in Seq([op : Ops, arg : Int]) /\ Len(CloseLots) = 6
    BY DEF CloseLots, Ops
  <1>4. /\ Len(OpenLots \o CloseLots) = 13
        /\ \A i \in 1 .. 7 : (OpenLots \o CloseLots)[i] = OpenLots[i]
        /\ \A i \in 8 .. 13 : (OpenLots \o CloseLots)[i] = CloseLots[i - 7]
    <2> DEFINE E == [op : Ops, arg : Int]
               a == OpenLots
               b == CloseLots
    <2>1. a \in Seq(E) /\ b \in Seq(E) /\ Len(a) = 7 /\ Len(b) = 6
      BY <1>2, <1>3
    <2> HIDE DEF E, a, b
    <2>2. /\ Len(a \o b) = 13
          /\ \A i \in 1 .. 7 : (a \o b)[i] = a[i]
          /\ \A i \in 8 .. 13 : (a \o b)[i] = b[i - 7]
      BY <2>1, SevenAndSix, SMTT(30)
    <2>3. a = OpenLots /\ b = CloseLots
      BY DEF a, b
    <2> QED BY <2>2, <2>3
  <1>5. \A i \in 1 .. 7 : OpenLots[i].op = "lots"
    BY DEF OpenLots
  <1>6. \A i \in 8 .. 13 : CloseLots[i - 7].op = "shut" /\ CloseLots[i - 7].arg = i - 6
    BY DEF CloseLots
  <1> QED BY <1>1, <1>4, <1>5, <1>6, SMTT(30)

(* The descriptors from 2 to k are closed, the others open.                 *)
ClosedTo(k) == \A f \in K!Fd : fds[p][f].flags = IF f < 2 \/ f > k THEN 1 ELSE 0

SyserrInv ==
  /\ bad = {}
  /\ program = "syserr" =>
    /\ \E l \in Launches : l.program = "syserr"
    /\ pc = "choose" => call = 1 /\ refused = 0 /\ UpTo(2)
    /\ pc = "run" =>
         /\ call <= Len(Test[test]) + 1
         /\ test # OPEN_LOTS => UpTo(2) /\ refused = call - 1
         /\ test = OPEN_LOTS /\ call <= 6 => UpTo(call + 1) /\ refused = 0
         /\ test = OPEN_LOTS /\ call = 7 => UpTo(8) /\ refused = 0
         /\ test = OPEN_LOTS /\ call = 8 => UpTo(8) /\ refused = 1
         /\ test = OPEN_LOTS /\ call > 8 => ClosedTo(call - 7) /\ refused = 1

LEMMA SyserrInit == Init => SyserrInv
  <1> SUFFICES ASSUME Init PROVE SyserrInv
    OBVIOUS
  <1>1. UpTo(2) /\ bad = {} /\ call = 1 /\ refused = 0
    BY KernelInit DEF Init
  <1>2. \E l \in Launches : program = l.program
    BY DEF Init
  <1>3. pc # "run"
    BY DEF Init
  <1> QED BY <1>1, <1>2, <1>3 DEF SyserrInv

LEMMA SyserrImage ==
  ASSUME SyserrInv, program = "syserr"
  PROVE  /\ NFD = 8 /\ \E d \in K!read_dentry_by_name(Dot) : TRUE
         /\ \A i \in 1 .. 3 : K!read_dentry_by_name(NearMiss(i)) = {}
  BY SyserrAssumption DEF SyserrInv

LEMMA TestLength == ASSUME TestInv PROVE Len(Test[test]) \in Nat /\ call \in Nat /\ call > 0
  <1>1. Test[test] \in Calls
    BY TestSeq DEF TestInv
  <1> QED BY <1>1 DEF Calls, TestInv

LEMMA SyserrChoose == TypeInv /\ SyserrInv /\ Choose => SyserrInv'
  <1> SUFFICES ASSUME TypeInv, SyserrInv, Choose PROVE SyserrInv'
    OBVIOUS
  <1>0. /\ pc = "choose" /\ pc' = "run" /\ program = "syserr" /\ K!Read(p, 0, 127)
        /\ UNCHANGED <<program, call, refused, bad>>
        /\ \E select \in 0 .. Len(Test) : test' = IF select = 0 THEN 1 ELSE select
    BY DEF Choose, launched, Is
  <1>1. KernelInv /\ 0 \in Int /\ 127 \in Nat /\ 2 \in Nat
    BY DEF TypeInv
  <1>2. call = 1 /\ refused = 0 /\ bad = {} /\ UpTo(2) /\ \E l \in Launches : l.program = "syserr"
    BY <1>0 DEF SyserrInv
  <1>3. UpTo(2)'
    BY <1>0, <1>1, <1>2, ReadKernel
  <1>4. test' \in DOMAIN Test
    BY <1>0, TestDomain
  <1>5. Len(Test[test']) \in Nat
    BY <1>4, TestSeq DEF Calls
  <1>6. UpTo(call + 1)'
    BY <1>0, <1>2, <1>3 DEF UpTo
  <1> QED BY <1>0, <1>2, <1>3, <1>5, <1>6 DEF SyserrInv

LEMMA SyserrDone == TypeInv /\ SyserrInv /\ TestDone => SyserrInv'
  <1> SUFFICES ASSUME TypeInv, SyserrInv, TestDone PROVE SyserrInv'
    OBVIOUS
  <1>0. /\ pc = "run" /\ program = "syserr" /\ call > Len(Test[test])
        /\ UNCHANGED <<fds, program>>
        /\ bad' = IF Passes THEN bad ELSE bad \cup {test}
        /\ call' = 1 /\ refused' = 0
        /\ \/ test < Len(Test) /\ test' = test + 1 /\ pc' = pc
           \/ test' = test /\ pc' = "ok"
    BY DEF TestDone, Is, launched, kernel
  <1>1. /\ bad = {} /\ \E l \in Launches : l.program = "syserr"
        /\ call <= Len(Test[test]) + 1
        /\ test # OPEN_LOTS => UpTo(2) /\ refused = call - 1
        /\ test = OPEN_LOTS /\ call > 8 => ClosedTo(call - 7) /\ refused = 1
    BY <1>0 DEF SyserrInv
  <1>2. call = Len(Test[test]) + 1 /\ Len(Test[test]) \in Nat /\ call \in Nat
    BY <1>0, <1>1, TestLength DEF TypeInv
  <1>3. test = OPEN_LOTS => call = 14
    <2> DEFINE n == Len(Test[test])
    <2>1. test = OPEN_LOTS => n = 13
      BY LotsOfOpens, Zenon
    <2>2. call = n + 1
      BY <1>2
    <2> HIDE DEF n
    <2> QED BY <2>1, <2>2
  <1>4. Passes
    BY <1>1, <1>2, <1>3 DEF Passes
  <1>5. UpTo(2)
    <2>1. CASE test # OPEN_LOTS
      BY <1>1, <2>1
    <2>2. CASE test = OPEN_LOTS
      <3>1. ClosedTo(14 - 7)
        BY <1>1, <1>3, <2>2
      <3>2. \A f \in K!Fd : (f < 2 \/ f > 14 - 7) <=> f < 2
        BY <1>0, SyserrImage DEF K!Fd
      <3>3. ASSUME NEW f \in K!Fd PROVE fds[p][f].flags = IF f < 2 THEN 1 ELSE 0
        BY <3>1, <3>2 DEF ClosedTo
      <3> QED BY <3>3 DEF UpTo
    <2> QED BY <2>1, <2>2
  <1>6. UpTo(2)' /\ UpTo(call + 1)'
    BY <1>0, <1>5 DEF UpTo
  <1>7. bad' = {}
    BY <1>0, <1>1, <1>4
  <1>8. pc' = "run" => Len(Test[test']) \in Nat
    <2>1. pc' = "run" => test' \in DOMAIN Test
      BY <1>0, TestDomain DEF TypeInv, TestInv
    <2> QED BY <2>1, TestSeq DEF Calls
  <1>9. (call <= Len(Test[test]) + 1)' \/ pc' # "run"
    BY <1>0, <1>8
  <1>10. bad' = {} /\ \E l \in Launches : l.program = "syserr"
    BY <1>1, <1>7
  <1>11. (refused = call - 1)' /\ ~(call = 7)' /\ ~(call = 8)' /\ ~(call > 8)' /\ (call <= 6)'
    BY <1>0
  <1>12. pc' # "choose"
    BY <1>0
  <1> QED BY <1>0, <1>6, <1>9, <1>10, <1>11, <1>12 DEF SyserrInv

(* A call of the other tests is refused and leaves the descriptors alone.   *)
LEMMA SyserrRefused ==
  ASSUME TypeInv, SyserrInv, TestStep, test # OPEN_LOTS
  PROVE  refused' = refused + 1 /\ (UpTo(2) => UpTo(2)')
  <1>0. /\ pc = "run" /\ program = "syserr" /\ call <= Len(Test[test])
    BY DEF TestStep, TestRead, TestWrite, TestClose, TestOpen, TestLots, TestShut, TestVidmap,
           TestCall, Syscall, Is
  <1>1. Test[test][call] \in Refusable /\ Arg = Test[test][call].arg
    <2>1. Test[test] \in Seq(Refusable) /\ call \in 1 .. Len(Test[test])
      BY <1>0, RefusedTests, TestLength DEF TypeInv, TestInv
    <2>2. Test[test][call] \in Refusable
      <3> HIDE DEF Refusable
      <3> QED BY <2>1, ElementOfSeq
    <2> QED BY <2>2 DEF Arg
  <1>2. Arg \in Int /\ KernelInv /\ UpTo(2) /\ 31 \in Nat /\ 31 \in Int /\ 2 \in Nat
    BY <1>0, <1>1 DEF TypeInv, Refusable, SyserrInv
  <1>3. CASE TestRead
    <2>1. Test[test][call].op = "read" /\ K!Read(p, Arg, 31) /\ NextCall(reply'.ret = K!FAIL)
      BY <1>3 DEF TestRead, Syscall
    <2>2. Arg # 0
      BY <1>1, <2>1 DEF Refusable
    <2>3. ~K!Valid(p, Arg, 31, K!HasRead)
      <3>1. CASE Arg = 1
        BY <1>2, <3>1 DEF K!Valid, K!HasRead, KernelInv, Kept
      <3>2. CASE Arg # 1
        <4>1. Arg \in K!Fd => fds[p][Arg].flags = 0
          BY <1>2, <2>2, <3>2, Sizes DEF UpTo, K!Fd
        <4> QED BY <4>1 DEF K!Valid
      <3> QED BY <3>1, <3>2
    <2>4. reply'.ret = K!FAIL /\ UpTo(2)'
      BY <1>2, <2>1, <2>3, ReadKernel
    <2> QED BY <2>1, <2>4 DEF NextCall
  <1>4. CASE TestWrite
    <2>1. Test[test][call].op = "write" /\ K!Write(p, Arg, 31) /\ NextCall(reply'.ret = K!FAIL)
      BY <1>4 DEF TestWrite, Syscall
    <2>2. Arg # 1
      BY <1>1, <2>1 DEF Refusable
    <2>3. ~K!Valid(p, Arg, 31, {"rtc", "stdout"})
      <3>1. CASE Arg = 0
        BY <1>2, <3>1 DEF K!Valid, KernelInv, Kept
      <3>2. CASE Arg # 0
        <4>1. Arg \in K!Fd => fds[p][Arg].flags = 0
          BY <1>2, <2>2, <3>2, Sizes DEF UpTo, K!Fd
        <4> QED BY <4>1 DEF K!Valid
      <3> QED BY <3>1, <3>2
    <2>4. reply'.ret = K!FAIL /\ fds' = fds
      BY <1>2, <2>1, <2>3, WriteReply
    <2> QED BY <1>2, <2>1, <2>4 DEF NextCall, UpTo
  <1>5. CASE TestClose
    <2>1. K!Close(p, Arg) /\ NextCall(reply'.ret = K!FAIL)
      BY <1>5 DEF TestClose
    <2>2. Arg >= 2 /\ Arg \in K!Fd => fds[p][Arg].flags = 0
      BY <1>2, Sizes DEF UpTo, K!Fd
    <2>3. \/ fds' = fds /\ reply'.ret = K!FAIL
          \/ Arg \in K!Fd /\ Arg >= 2 /\ fds[p][Arg].flags = 1
      BY <1>2, <2>1, CloseReply
    <2>4. reply'.ret = K!FAIL /\ fds' = fds
      BY <2>2, <2>3
    <2> QED BY <1>2, <2>1, <2>4 DEF NextCall, UpTo
  <1>6. CASE TestOpen
    <2>1. Test[test][call].op = "open" /\ K!Open(p, NearMiss(Arg)) /\ NextCall(reply'.ret = K!FAIL)
      BY <1>6 DEF TestOpen, Syscall
    <2>2. K!read_dentry_by_name(NearMiss(Arg)) = {}
      BY <1>0, <1>1, <2>1, SyserrImage DEF Refusable
    <2>3. 2 \in 2 .. NFD - 1
      BY Sizes
    <2>4. reply'.ret = K!FAIL /\ fds' = fds
      BY <1>2, <2>1, <2>2, <2>3, OpenReply
    <2> QED BY <1>2, <2>1, <2>4 DEF NextCall, UpTo
  <1>7. CASE TestVidmap
    <2>1. Test[test][call].op = "vidmap" /\ fds' = fds /\ NextCall(vidmapFails(Arg))
      BY <1>7 DEF TestVidmap, Syscall, kernel
    <2>2. vidmapFails(Arg)
      BY <1>1, <2>1 DEF Refusable
    <2> QED BY <1>2, <2>1, <2>2 DEF NextCall, UpTo
  <1>8. CASE TestCall
    <2>1. Test[test][call].op = "call" /\ fds' = fds /\ NextCall(CallFails(Arg))
      BY <1>8 DEF TestCall, Syscall, kernel
    <2>2. CallFails(Arg)
      BY <1>1, <2>1 DEF Refusable
    <2> QED BY <1>2, <2>1, <2>2 DEF NextCall, UpTo
  <1>9. ~TestLots /\ ~TestShut
    BY <1>1 DEF TestLots, TestShut, Syscall, Refusable
  <1> QED BY <1>3, <1>4, <1>5, <1>6, <1>7, <1>8, <1>9 DEF TestStep

(* The opens in a row: six of them take a descriptor, the seventh finds     *)
(* none; then the six are closed from the lowest.                           *)
LEMMA SyserrLots ==
  ASSUME TypeInv, SyserrInv, TestStep, test = OPEN_LOTS
  PROVE  /\ call' <= 6 => UpTo(call + 1)' /\ refused' = 0
         /\ call' = 7 => UpTo(8)' /\ refused' = 0
         /\ call' = 8 => UpTo(8)' /\ refused' = 1
         /\ call' > 8 => ClosedTo(call - 7)' /\ refused' = 1
  <1>0. /\ pc = "run" /\ program = "syserr" /\ call <= Len(Test[test])
    BY DEF TestStep, TestRead, TestWrite, TestClose, TestOpen, TestLots, TestShut, TestVidmap,
           TestCall, Syscall, Is
  <1>1. call \in 1 .. 13 /\ KernelInv /\ NFD = 8
    <2> DEFINE n == Len(Test[test])
    <2>1. n = 13
      BY LotsOfOpens
    <2>2. call <= n /\ call \in Nat /\ call > 0
      BY <1>0, TestLength DEF TypeInv
    <2> HIDE DEF n
    <2>3. call \in 1 .. 13
      BY <2>1, <2>2
    <2> QED BY <1>0, <2>3, SyserrImage DEF TypeInv
  <1>2. /\ call <= 6 => UpTo(call + 1) /\ refused = 0
        /\ call = 7 => UpTo(8) /\ refused = 0
        /\ call = 8 => UpTo(8) /\ refused = 1
        /\ call > 8 => ClosedTo(call - 7) /\ refused = 1
    BY <1>0 DEF SyserrInv
  <1>3. CASE call <= 7
    <2>0. Test[test][call].op = "lots"
      BY <1>1, <1>3, LotsOfOpens
    <2>1. K!Open(p, Dot) /\ NextCall(reply'.ret = K!FAIL)
      BY <2>0 DEF TestStep, TestRead, TestWrite, TestClose, TestOpen, TestLots, TestShut,
                  TestVidmap, TestCall, Syscall
    <2>2. CASE call = 7
      <3>1. fds' = fds /\ reply'.ret = K!FAIL
        BY <1>1, <1>2, <2>1, <2>2, OpenFull
      <3>2. call' = 8 /\ refused' = 1
        BY <1>2, <2>1, <2>2, <3>1 DEF NextCall
      <3>3. UpTo(8)'
        BY <1>2, <2>2, <3>1 DEF UpTo
      <3> QED BY <3>2, <3>3
    <2>3. CASE call < 7
      <3>1. PICK n \in 2 .. 7 : n = call + 1
        BY <1>1, <2>3
      <3>2. UpTo(n) /\ refused = 0 /\ n \in 2 .. NFD - 1
        <4>1. call <= 6 /\ n = call + 1 /\ NFD = 8 /\ n \in 2 .. 7
          BY <1>1, <2>3, <3>1
        <4> QED BY <1>2, <4>1
      <3>3. PICK d \in K!read_dentry_by_name(Dot) : TRUE
        BY <1>0, SyserrImage
      <3>4. K!Opened(d, K!Blank) # {}
        BY DotEntry DEF K!Opened
      <3>5. reply'.ret = n /\ UpTo(n + 1)'
        BY <1>1, <2>1, <3>2, <3>4, OpenReply
      <3>6. refused' = 0 /\ call' = n
        BY <2>1, <3>1, <3>2, <3>5 DEF NextCall, K!FAIL
      <3>7. UpTo(call + 1)' /\ (call' = 7 => UpTo(8)')
        BY <3>5, <3>6 DEF UpTo
      <3> QED BY <3>1, <3>6, <3>7
    <2> QED BY <1>1, <1>3, <2>2, <2>3
  <1>4. CASE call > 7
    <2>20. PICK k \in 2 .. 7 : k = call - 6
      BY <1>1, <1>4
    <2>0. Test[test][call].op = "shut" /\ Test[test][call].arg = k
      BY <1>1, <1>4, <2>20, LotsOfOpens
    <2>1. K!Close(p, k) /\ NextCall(FALSE)
      BY <2>0 DEF TestStep, TestRead, TestWrite, TestClose, TestOpen, TestLots, TestShut,
                  TestVidmap, TestCall, Syscall, Arg
    <2>2. k \in Int /\ k \in K!Fd
      BY <1>1 DEF K!Fd
    <2>3. ASSUME NEW f \in K!Fd
          PROVE  fds[p][f].flags = IF f < 2 \/ f >= k THEN 1 ELSE 0
      <3>1. f \in 0 .. 7
        BY <1>1 DEF K!Fd
      <3>2. CASE call = 8
        BY <1>2, <2>20, <3>1, <3>2 DEF UpTo
      <3>3. CASE call > 8
        <4>1. fds[p][f].flags = IF f < 2 \/ f > call - 7 THEN 1 ELSE 0
          BY <1>2, <3>3 DEF ClosedTo
        <4> QED BY <2>20, <3>1, <3>3, <4>1
      <3> QED BY <1>1, <1>4, <3>2, <3>3
    <2>4. fds[p][k].flags = 1
      BY <2>2, <2>3
    <2>5. \/ k < 2 \/ k \notin K!Fd \/ fds[p][k].flags = 0
          \/ /\ fds'[p][k] = [fds[p][k] EXCEPT !.flags = 0]
             /\ \A g \in K!Fd : g # k => fds'[p][g] = fds[p][g]
      BY <1>1, <2>1, <2>2, CloseReply
    <2>6. /\ fds'[p][k] = [fds[p][k] EXCEPT !.flags = 0]
          /\ \A g \in K!Fd : g # k => fds'[p][g] = fds[p][g]
      BY <2>2, <2>4, <2>5
    <2>7. ASSUME NEW f \in K!Fd
          PROVE  fds'[p][f].flags = IF f < 2 \/ f > k THEN 1 ELSE 0
      <3>1. f \in 0 .. 7
        BY <1>1 DEF K!Fd
      <3>2. CASE f = k
        <4>1. fds[p][k] \in K!Entry
          BY <1>1, <2>2, ThePid DEF KernelInv
        <4>2. [fds[p][k] EXCEPT !.flags = 0].flags = 0
          BY <4>1 DEF K!Entry
        <4>3. fds'[p][f].flags = 0
          BY <2>6, <3>2, <4>2, Zenon
        <4>4. ~(f < 2 \/ f > k)
          BY <2>20, <3>2
        <4> QED BY <4>3, <4>4, Zenon
      <3>3. CASE f # k
        BY <2>2, <2>3, <2>6, <3>1, <3>3
      <3> QED BY <3>2, <3>3
    <2>8. ClosedTo(k)'
      BY <2>7 DEF ClosedTo
    <2>9. refused' = 1 /\ call' = call + 1
      BY <1>1, <1>2, <1>4, <2>1 DEF NextCall
    <2>10. call' - 7 = k /\ call' > 8
      BY <1>1, <1>4, <2>9, <2>20
    <2>11. ClosedTo(call - 7)'
      BY <2>8, <2>10 DEF ClosedTo
    <2> QED BY <2>9, <2>10, <2>11
  <1> QED BY <1>1, <1>3, <1>4

LEMMA SyserrTest == TypeInv /\ SyserrInv /\ TestStep => SyserrInv'
  <1> SUFFICES ASSUME TypeInv, SyserrInv, TestStep PROVE SyserrInv'
    OBVIOUS
  <1>0. /\ pc = "run" /\ program = "syserr" /\ call <= Len(Test[test])
        /\ UNCHANGED <<program, pc, test, bad>> /\ call' = call + 1
    BY DEF TestStep, TestRead, TestWrite, TestClose, TestOpen, TestLots, TestShut, TestVidmap,
           TestCall, Syscall, NextCall, launched, Is
  <1>1. /\ bad = {} /\ \E l \in Launches : l.program = "syserr"
        /\ test # OPEN_LOTS => UpTo(2) /\ refused = call - 1
    BY <1>0 DEF SyserrInv
  <1>2. call' <= Len(Test[test']) + 1 /\ call' \in Nat
    BY <1>0, TestLength DEF TypeInv
  <1>3. test # OPEN_LOTS => UpTo(2)' /\ refused' = call' - 1
    <2>1. test # OPEN_LOTS => UpTo(2)' /\ refused' = refused + 1
      BY <1>1, SyserrRefused
    <2> QED BY <1>0, <1>1, <2>1, TestLength DEF TypeInv
  <1>4. test = OPEN_LOTS =>
         /\ call' <= 6 => UpTo(call + 1)' /\ refused' = 0
         /\ call' = 7 => UpTo(8)' /\ refused' = 0
         /\ call' = 8 => UpTo(8)' /\ refused' = 1
         /\ call' > 8 => ClosedTo(call - 7)' /\ refused' = 1
    BY SyserrLots
  <1> QED BY <1>0, <1>1, <1>2, <1>3, <1>4 DEF SyserrInv

LEMMA SyserrStep == TypeInv /\ SyserrInv /\ [Next]_vars => SyserrInv'
  <1> SUFFICES ASSUME TypeInv, SyserrInv, [Next]_vars PROVE SyserrInv'
    OBVIOUS
  <1>1. program' = program
    BY LaunchedKept
  <1>2. CASE program # "syserr"
    <2>1. ~Syserr
      BY <1>2 DEF Syserr, Choose, TestDone, TestRead, TestWrite, TestClose, TestOpen, TestLots,
                  TestShut, TestVidmap, TestCall, Syscall, Is
    <2>2. bad' = bad
      BY <2>1 DEF Next, tests, vars
    <2> QED BY <1>1, <1>2, <2>2 DEF SyserrInv
  <1>3. CASE program = "syserr"
    <2>1. ~CatRead /\ ~LsRead /\ ~GrepName
      BY <1>3 DEF CatRead, LsRead, GrepName, Is
    <2>2. pc \in {"choose", "run", "ok"}
      BY <1>3 DEF TypeInv, PlaceInv, Phases
    <2>3. ~OpenFirst /\ ~WriteBuffer /\ ~Grep
      BY <2>1, <2>2 DEF OpenFirst, WriteBuffer, Grep, GetArgs, GrepOpen, GrepRead, GrepLine,
                        GrepClose
    <2>4. CASE Choose
      BY <2>4, SyserrChoose
    <2>5. CASE TestDone
      BY <2>5, SyserrDone
    <2>6. CASE TestStep
      BY <2>6, SyserrTest
    <2>7. CASE UNCHANGED vars
      BY <2>7 DEF vars, kernel, launched, buffer, tests, SyserrInv, UpTo, ClosedTo
    <2> QED BY <2>1, <2>3, <2>4, <2>5, <2>6, <2>7 DEF Next, CatOrLs, Syserr, TestStep
  <1> QED BY <1>2, <1>3

(* The tests of syserr.c pass: every call of a test but the opens in a row  *)
(* is refused, of those only the last one, and each test leaves the          *)
(* descriptors as it found them.                                             *)
THEOREM SyserrCorrect == Spec => []SyserrPasses
  <1>1. Spec => []TypeInv
    BY TypeInvariant
  <1>2. Init => SyserrInv
    BY SyserrInit
  <1>3. TypeInv /\ SyserrInv /\ [Next]_vars => SyserrInv'
    BY SyserrStep
  <1>4. SyserrInv /\ TypeInv => SyserrPasses
    BY DEF SyserrInv, TypeInv, SyserrPasses
  <1> QED BY <1>1, <1>2, <1>3, <1>4, PTL DEF Spec

-----------------------------------------------------------------------------
(* What the pieces of output make, one behind the other.                    *)

Joins(g, ss, n) ==
  g = [i \in 1 .. n |-> IF i = 1 THEN ss[i] ELSE g[i - 1] \o ss[i]]

LEMMA JoinsExist == ASSUME NEW ss, NEW n \in Nat PROVE \E g : Joins(g, ss, n)
  <1> DEFINE M == {m \in Nat : ~\E g : Joins(g, ss, m)}
  <1> SUFFICES ASSUME n \in M PROVE FALSE
    OBVIOUS
  <1>1. PICK m \in M : \A k \in M : m <= k
    <2>1. M \subseteq Nat /\ M # {}
      OBVIOUS
    <2> HIDE DEF M
    <2> QED BY <2>1, Least
  <1>2. m # 0
    <2>1. Joins([i \in 1 .. 0 |-> i], ss, 0)
      BY DEF Joins
    <2> QED BY <1>1, <2>1
  <1>3. m - 1 \in Nat /\ m - 1 \notin M
    BY <1>1, <1>2
  <1>4. PICK g : Joins(g, ss, m - 1)
    BY <1>3
  <1> DEFINE h == [i \in 1 .. m |-> IF i = m THEN IF m = 1 THEN ss[m] ELSE g[m - 1] \o ss[m]
                                    ELSE g[i]]
  <1>5. ASSUME NEW i \in 1 .. m
        PROVE  h[i] = IF i = 1 THEN ss[i] ELSE h[i - 1] \o ss[i]
    <2>1. CASE i = m
      <3>1. i # 1 => i - 1 \in 1 .. m /\ i - 1 # m
        BY <1>1, <2>1
      <3>2. i # 1 => h[i - 1] = g[m - 1]
        BY <2>1, <3>1
      <3> QED BY <2>1, <3>2
    <2>2. CASE i # m
      <3>1. i \in 1 .. m - 1 /\ (i # 1 => i - 1 \in 1 .. m /\ i - 1 # m)
        BY <1>1, <2>2
      <3>2. g[i] = IF i = 1 THEN ss[i] ELSE g[i - 1] \o ss[i]
        BY <1>4, <3>1 DEF Joins
      <3> QED BY <2>2, <3>1, <3>2
    <2> QED BY <2>1, <2>2
  <1>6. h = [i \in 1 .. m |-> h[i]]
    OBVIOUS
  <1>7. Joins(h, ss, m)
    <2> HIDE DEF h
    <2> QED BY <1>5, <1>6 DEF Joins
  <1> QED BY <1>1, <1>7

LEMMA JoinsOne ==
  ASSUME NEW ss, NEW n \in Nat, NEW g, Joins(g, ss, n), NEW h, Joins(h, ss, n), NEW i \in 1 .. n
  PROVE  g[i] = h[i]
  <1> DEFINE M == {k \in 1 .. n : g[k] # h[k]}
  <1> SUFFICES ASSUME i \in M PROVE FALSE
    OBVIOUS
  <1>1. PICK m \in M : \A k \in M : m <= k
    <2>1. M \subseteq Nat /\ M # {}
      OBVIOUS
    <2> HIDE DEF M
    <2> QED BY <2>1, Least
  <1>2. /\ g[m] = IF m = 1 THEN ss[m] ELSE g[m - 1] \o ss[m]
        /\ h[m] = IF m = 1 THEN ss[m] ELSE h[m - 1] \o ss[m]
    BY DEF Joins
  <1>3. m # 1 => m - 1 \in 1 .. n /\ m - 1 < m
    OBVIOUS
  <1>4. m # 1 => g[m - 1] = h[m - 1]
    BY <1>1, <1>3
  <1> QED BY <1>2, <1>4

LEMMA ConcatJoins ==
  ASSUME NEW T, NEW ss \in Seq(T), ss # <<>>
  PROVE  \E g : Joins(g, ss, Len(ss)) /\ Concat(ss) = g[Len(ss)]
  <1>1. Len(ss) \in Nat /\ Len(ss) # 0
    BY EmptySeq
  <1> DEFINE g == CHOOSE f : f = [i \in 1 .. Len(ss) |-> IF i = 1 THEN ss[i] ELSE f[i - 1] \o ss[i]]
  <1>2. Concat(ss) = g[Len(ss)]
    BY <1>1 DEF Concat, S!FlattenSeq
  <1>3. \E f : f = [i \in 1 .. Len(ss) |-> IF i = 1 THEN ss[i] ELSE f[i - 1] \o ss[i]]
    BY <1>1, JoinsExist DEF Joins
  <1>4. g = [i \in 1 .. Len(ss) |-> IF i = 1 THEN ss[i] ELSE g[i - 1] \o ss[i]]
    BY <1>3
  <1>5. Joins(g, ss, Len(ss))
    <2> HIDE DEF g
    <2> QED BY <1>4 DEF Joins
  <1> QED BY <1>2, <1>5

LEMMA ConcatAppend ==
  ASSUME NEW T, NEW ss \in Seq(T), NEW x \in T
  PROVE  /\ Concat(<<>>) = <<>>
         /\ Concat(Append(ss, x)) = IF ss = <<>> THEN x ELSE Concat(ss) \o x
  <1> DEFINE tt == Append(ss, x)
             n == Len(ss)
  <1>1. /\ n \in Nat /\ tt \in Seq(T) /\ Len(tt) = n + 1 /\ tt # <<>> /\ tt[n + 1] = x
        /\ \A i \in 1 .. n : tt[i] = ss[i]
    OBVIOUS
  <1>2. ss = <<>> <=> n = 0
    BY EmptySeq
  <1>3. Concat(<<>>) = <<>>
    BY DEF Concat, S!FlattenSeq
  <1> HIDE DEF tt
  <1>4. PICK g : Joins(g, tt, n + 1) /\ Concat(tt) = g[n + 1]
    BY <1>1, ConcatJoins
  <1>5. g[n + 1] = IF n + 1 = 1 THEN tt[n + 1] ELSE g[(n + 1) - 1] \o tt[n + 1]
    <2>1. n + 1 \in 1 .. n + 1
      BY <1>1
    <2> DEFINE m == n + 1
    <2>2. Joins(g, tt, m) /\ m \in 1 .. m
      BY <1>4, <2>1
    <2> HIDE DEF m
    <2>3. g[m] = IF m = 1 THEN tt[m] ELSE g[m - 1] \o tt[m]
      BY <2>2 DEF Joins
    <2> QED BY <2>3 DEF m
  <1>6. CASE n = 0
    BY <1>1, <1>2, <1>3, <1>4, <1>5, <1>6 DEF tt
  <1>7. CASE n # 0
    <2>1. PICK h : Joins(h, ss, n) /\ Concat(ss) = h[n]
      BY <1>2, <1>7, ConcatJoins
    <2> DEFINE f == [i \in 1 .. n |-> g[i]]
    <2>2. ASSUME NEW i \in 1 .. n
          PROVE  f[i] = IF i = 1 THEN ss[i] ELSE f[i - 1] \o ss[i]
      <3>1. i \in 1 .. n + 1 /\ (i # 1 => i - 1 \in 1 .. n)
        BY <1>1
      <3>2. g[i] = IF i = 1 THEN tt[i] ELSE g[i - 1] \o tt[i]
        BY <1>4, <3>1 DEF Joins
      <3>3. tt[i] = ss[i] /\ f[i] = g[i] /\ (i # 1 => f[i - 1] = g[i - 1])
        BY <1>1, <3>1
      <3> QED BY <3>2, <3>3
    <2>3. f = [i \in 1 .. n |-> f[i]]
      OBVIOUS
    <2>4. Joins(f, ss, n)
      <3> HIDE DEF f
      <3> QED BY <2>2, <2>3 DEF Joins
    <2>5. n \in 1 .. n /\ (n + 1) - 1 = n /\ n + 1 # 1
      BY <1>1, <1>7
    <2>6. f[n] = h[n]
      <3> HIDE DEF f, n
      <3> QED BY <1>1, <2>1, <2>4, <2>5, JoinsOne
    <2>7. Concat(tt) = h[n] \o x
      <3>1. g[n] = h[n]
        BY <2>5, <2>6
      <3> HIDE DEF n
      <3> QED BY <1>1, <1>4, <1>5, <2>5, <3>1
    <2> QED BY <1>2, <1>3, <1>7, <2>1, <2>7 DEF tt
  <1> QED BY <1>6, <1>7

-----------------------------------------------------------------------------
(* cat.                                                                     *)

LEMMA PartAny ==
  ASSUME NEW t, NEW a \in Nat, NEW b \in Nat, a <= b
  PROVE  /\ Part(t, a, b) \in Seq({t[k] : k \in Nat}) /\ Len(Part(t, a, b)) = b - a
         /\ \A k \in 1 .. b - a : Part(t, a, b)[k] = t[a + k]
  <1>1. b - a \in Nat
    OBVIOUS
  <1>2. \A k \in 1 .. b - a : t[a + k] \in {t[j] : j \in Nat}
    OBVIOUS
  <1>3. Part(t, a, b) = [k \in 1 .. b - a |-> t[a + k]]
    BY DEF Part
  <1>4. Part(t, a, b) \in Seq({t[k] : k \in Nat})
    BY <1>1, <1>2, <1>3, SMTT(30)
  <1> QED BY <1>1, <1>3, <1>4, SMTT(30)

LEMMA PartJoin ==
  ASSUME NEW t, NEW a \in Nat, NEW b \in Nat, NEW c \in Nat, a <= b, b <= c
  PROVE  Part(t, a, b) \o Part(t, b, c) = Part(t, a, c)
  <1> DEFINE E == {t[k] : k \in Nat}
             q == Part(t, a, b)
             r == Part(t, b, c)
             s == Part(t, a, c)
  <1>1. /\ q \in Seq(E) /\ Len(q) = b - a /\ \A k \in 1 .. b - a : q[k] = t[a + k]
        /\ r \in Seq(E) /\ Len(r) = c - b /\ \A k \in 1 .. c - b : r[k] = t[b + k]
        /\ s \in Seq(E) /\ Len(s) = c - a /\ \A k \in 1 .. c - a : s[k] = t[a + k]
    <2>1. q \in Seq(E) /\ Len(q) = b - a /\ \A k \in 1 .. b - a : q[k] = t[a + k]
      BY PartAny
    <2>2. r \in Seq(E) /\ Len(r) = c - b /\ \A k \in 1 .. c - b : r[k] = t[b + k]
      BY PartAny
    <2>3. a <= c
      OBVIOUS
    <2>4. s \in Seq(E) /\ Len(s) = c - a /\ \A k \in 1 .. c - a : s[k] = t[a + k]
      BY <2>3, PartAny
    <2> QED BY <2>1, <2>2, <2>4
  <1> HIDE DEF E, q, r, s
  <1>2. /\ q \o r \in Seq(E) /\ Len(q \o r) = c - a
        /\ \A k \in 1 .. b - a : (q \o r)[k] = q[k]
        /\ \A k \in (b - a) + 1 .. c - a : (q \o r)[k] = r[k - (b - a)]
    <2>1. /\ q \o r \in Seq(E) /\ Len(q \o r) = Len(q) + Len(r)
          /\ \A k \in 1 .. Len(q) + Len(r) : (q \o r)[k] = IF k <= Len(q) THEN q[k] ELSE r[k - Len(q)]
      BY <1>1, ConcatProperties
    <2>2. (b - a) + (c - b) = c - a /\ b - a \in Nat /\ c - b \in Nat
      OBVIOUS
    <2>3. ASSUME NEW k \in 1 .. c - a
          PROVE  (q \o r)[k] = IF k <= b - a THEN q[k] ELSE r[k - (b - a)]
      BY <1>1, <2>1, <2>2
    <2>4. ASSUME NEW k \in 1 .. b - a PROVE (q \o r)[k] = q[k]
      <3>1. k \in 1 .. c - a /\ k <= b - a
        OBVIOUS
      <3> QED BY <2>3, <3>1
    <2>5. ASSUME NEW k \in (b - a) + 1 .. c - a PROVE (q \o r)[k] = r[k - (b - a)]
      <3>1. k \in 1 .. c - a /\ ~(k <= b - a)
        OBVIOUS
      <3> QED BY <2>3, <3>1
    <2> QED BY <1>1, <2>1, <2>2, <2>4, <2>5
  <1>3. ASSUME NEW k \in 1 .. c - a PROVE (q \o r)[k] = s[k]
    <2>1. CASE k <= b - a
      BY <1>1, <1>2, <2>1
    <2>2. CASE k > b - a
      <3>1. /\ k \in (b - a) + 1 .. c - a /\ k - (b - a) \in 1 .. c - b
            /\ b + (k - (b - a)) = a + k
        BY <2>2
      <3> QED BY <1>1, <1>2, <3>1
    <2>3. k <= b - a \/ k > b - a
      OBVIOUS
    <2> QED BY <2>1, <2>2, <2>3
  <1>4. q \o r = s
    BY <1>1, <1>2, <1>3, SeqEqual
  <1> QED BY <1>4 DEF q, r, s

LEMMA WrittenMore ==
  ASSUME out \in Seq(Output), NEW o \in Output, out' = Append(out, o)
  PROVE  Written' = IF out = <<>> THEN AskedFor(o) ELSE Written \o AskedFor(o)
  <1> DEFINE T == {AskedFor(w) : w \in Output}
             ss == [i \in DOMAIN out |-> AskedFor(out[i])]
             n == Len(out)
             tt == [i \in DOMAIN out' |-> AskedFor(out'[i])]
  <1>1. n \in Nat /\ DOMAIN out = 1 .. n /\ DOMAIN out' = 1 .. n + 1
        /\ out'[n + 1] = o /\ \A i \in 1 .. n : out'[i] = out[i] /\ out[i] \in Output
    BY ElementOfSeq
  <1>2. ss \in Seq(T) /\ Len(ss) = n
    BY <1>1
  <1>3. AskedFor(o) \in T
    OBVIOUS
  <1>4. /\ Append(ss, AskedFor(o)) = [i \in 1 .. n + 1 |-> IF i = n + 1 THEN AskedFor(o) ELSE ss[i]]
    <2> DEFINE x == AskedFor(o)
    <2> HIDE DEF ss, T, n, x
    <2>1. /\ Append(ss, x) \in Seq(T) /\ Len(Append(ss, x)) = n + 1
          /\ \A i \in 1 .. n : Append(ss, x)[i] = ss[i] /\ Append(ss, x)[n + 1] = x
      BY <1>1, <1>2, <1>3, AppendProperties DEF x
    <2>2. \A i \in 1 .. n + 1 : Append(ss, x)[i] = IF i = n + 1 THEN x ELSE ss[i]
      BY <1>1, <1>2, <1>3, AppendProperties DEF x
    <2>3. Append(ss, x) = [i \in 1 .. n + 1 |-> Append(ss, x)[i]]
      <3> DEFINE y == Append(ss, x)
      <3>1. y \in Seq(T) /\ Len(y) = n + 1
        BY <2>1
      <3> HIDE DEF y
      <3>2. y = [i \in 1 .. n + 1 |-> y[i]]
        BY <3>1
      <3> QED BY <3>2 DEF y
    <2> QED BY <2>2, <2>3 DEF x
  <1>5. ASSUME NEW i \in 1 .. n + 1
        PROVE  AskedFor(out'[i]) = IF i = n + 1 THEN AskedFor(o) ELSE ss[i]
    <2>1. CASE i = n + 1
      BY <1>1, <2>1
    <2>2. CASE i # n + 1
      <3>1. i \in 1 .. n
        BY <1>1, <2>2
      <3> QED BY <1>1, <2>2, <3>1
    <2> QED BY <2>1, <2>2
  <1>6. tt = Append(ss, AskedFor(o))
    BY <1>1, <1>4, <1>5
  <1>7. ss = <<>> <=> out = <<>>
    BY <1>1, <1>2, EmptySeq
  <1>8. Written' = Concat(tt) /\ Written = Concat(ss)
    BY DEF Written, AskedFor
  <1> HIDE DEF ss, tt, T, n
  <1>9. Concat(Append(ss, AskedFor(o))) = IF ss = <<>> THEN AskedFor(o) ELSE Concat(ss) \o AskedFor(o)
    BY <1>2, <1>3, ConcatAppend
  <1> QED BY <1>6, <1>7, <1>8, <1>9

LEMMA WrittenNone == out = <<>> => Written = <<>>
  <1> SUFFICES ASSUME out = <<>> PROVE Written = <<>>
    OBVIOUS
  <1>1. [i \in DOMAIN out |-> AskedFor(out[i])] = <<>>
    OBVIOUS
  <1>2. Concat(<<>>) = <<>>
    BY DEF Concat, S!FlattenSeq
  <1> QED BY <1>1, <1>2 DEF Written

CatAt(t, pos) ==
  /\ pc \in {"read", "ok"} => Written = Part(t, 0, pos)
  /\ pc = "ok" => pos = Len(t)
  /\ pc = "write" =>
       /\ cnt \in 1 .. pos /\ Written = Part(t, 0, pos - cnt)
       /\ \A i \in 0 .. cnt - 1 : buf[i] = t[(pos - cnt) + i + 1]
  /\ Len(args) <= Len(t) /\ Len(t) < BUFSIZE =>
       /\ \A i \in Len(t) .. BUFSIZE - 1 : buf[i] = Nul
       /\ \A j \in 1 .. Len(out) : out[j].shown = AskedFor(out[j])
       /\ pc = "write" => cnt = Len(t)
       /\ pc \in {"read", "write"} => pos \in {0, Len(t)}

CatInv ==
  program = "cat" =>
    /\ pc \in {"getargs", "open"} => out = <<>>
    /\ pc = "open" => \A i \in Len(args) .. BUFSIZE - 1 : buf[i] = Nul
    /\ pc \in {"read", "write", "ok"} =>
         \A d \in K!read_dentry_by_name(args) : IsText(d) =>
           HasText(2, d.inode_num) /\ CatAt(Text(d.inode_num), fds[p][2].file_pos)

LEMMA CatInit == Init => CatInv
  BY DEF Init, CatInv

LEMMA CatGetArgs == TypeInv /\ CatInv /\ GetArgs => CatInv'
  <1> SUFFICES ASSUME TypeInv, CatInv, GetArgs, program = "cat" PROVE CatInv'
    BY DEF GetArgs, launched, CatInv
  <1>0. /\ pc = "getargs" /\ pc' = "open" /\ UNCHANGED <<program, args, out>>
        /\ buf' = Overlaid([i \in DOMAIN buf |-> Nul], 0, args)
    BY DEF GetArgs, launched
  <1>1. out = <<>>
    BY <1>0 DEF CatInv
  <1> DEFINE m == BUFSIZE - 1
             b == [i \in DOMAIN buf |-> Nul]
  <1>2. m \in Nat /\ buf \in [0 .. m -> Character] /\ args \in Seq(Character)
    BY BufSizes, Signs DEF TypeInv, PlaceInv, DataInv, BufSize
  <1>3. b \in [0 .. m -> Character] /\ \A i \in 0 .. m : b[i] = Nul
    BY <1>2, Signs
  <1> HIDE DEF b, m
  <1>4. \A i \in 0 .. m : 0 + Len(args) <= i => Overlaid(b, 0, args)[i] = b[i]
    BY <1>2, <1>3, OverlaidType
  <1>5. \A i \in Len(args) .. m : i \in 0 .. m /\ 0 + Len(args) <= i
    BY <1>2
  <1>6. \A i \in Len(args) .. m : buf'[i] = Nul
    BY <1>0, <1>3, <1>4, <1>5 DEF b
  <1> QED BY <1>0, <1>1, <1>6 DEF CatInv, m

LEMMA CatOpen == TypeInv /\ CatInv /\ OpenFirst => CatInv'
  <1> SUFFICES ASSUME TypeInv, CatInv, OpenFirst, program = "cat" PROVE CatInv'
    BY DEF OpenFirst, launched, CatInv
  <1>0. /\ pc = "open" /\ out' = out /\ buf' = buf /\ K!Open(p, args)
        /\ UNCHANGED <<content, program, args>>
        /\ pc' = IF reply'.ret = K!FAIL THEN "failed" ELSE "read"
    BY DEF OpenFirst, launched, buffer
  <1>1. KernelInv /\ UpTo(2) /\ 2 \in 2 .. NFD - 1
    BY <1>0, Sizes DEF TypeInv, DescriptorInv
  <1>2. out = <<>> /\ \A i \in Len(args) .. BUFSIZE - 1 : buf[i] = Nul
    BY <1>0 DEF CatInv
  <1>3. Written' = <<>>
    <2>1. Written = <<>>
      BY <1>2, WrittenNone
    <2> QED BY <1>0, <2>1 DEF Written, AskedFor
  <1>4. CASE reply'.ret = K!FAIL
    BY <1>0, <1>4 DEF CatInv
  <1>5. CASE \E d \in K!read_dentry_by_name(args) : \E e \in K!Opened(d, K!Blank) : fds'[p][2] = e
    <2>1. PICK d \in K!read_dentry_by_name(args) : \E e \in K!Opened(d, K!Blank) : fds'[p][2] = e
      BY <1>5
    <2>2. PICK e \in K!Opened(d, K!Blank) : fds'[p][2] = e
      BY <2>1
    <2>3. IsText(d) => HasText(2, d.inode_num)' /\ fds'[p][2].file_pos = 0
      BY <2>2, OpenedGood
    <2>4. ASSUME IsText(d) PROVE CatAt(Text(d.inode_num), fds[p][2].file_pos)'
      <3> DEFINE t == Text(d.inode_num)
      <3>1. Len(args) \in Nat /\ Len(t) \in Nat /\ t' = t
        BY <1>0, <2>4, Inodes DEF TypeInv, PlaceInv, IsText, Text
      <3>2. Written' = Part(t, 0, 0)
        BY <1>3 DEF Part
      <3> HIDE DEF t
      <3>3. Len(args) <= Len(t) => \A i \in Len(t) .. BUFSIZE - 1 : buf[i] = Nul
        BY <1>2, <3>1, Sizes
      <3>4. pc' # "ok" /\ pc' # "write" /\ fds'[p][2].file_pos = 0
        BY <1>0, <2>3, <2>4
      <3>5. \A j \in 1 .. Len(out) : FALSE
        BY <1>2
      <3>6. CatAt(t, fds[p][2].file_pos)'
        BY <1>0, <3>1, <3>2, <3>3, <3>4, <3>5 DEF CatAt
      <3> QED BY <3>6 DEF t
    <2>5. \A x \in K!read_dentry_by_name(args) : x = d
      BY OneDentry
    <2>6. \A x \in K!read_dentry_by_name(args) : IsText(x) =>
            HasText(2, x.inode_num)' /\ CatAt(Text(x.inode_num), fds[p][2].file_pos)'
      BY <2>3, <2>4, <2>5
    <2>7. pc' \notin {"getargs", "open"}
      BY <1>0
    <2> QED BY <1>0, <2>6, <2>7 DEF CatInv
  <1> QED BY <1>0, <1>1, <1>4, <1>5, OpenReply

LEMMA CatReadStep == TypeInv /\ CatInv /\ CatRead => CatInv'
  <1> SUFFICES ASSUME TypeInv, CatInv, CatRead PROVE CatInv'
    OBVIOUS
  <1>0. /\ pc = "read" /\ program = "cat" /\ cnt' = reply'.ret
        /\ UNCHANGED <<content, program, args, out>>
        /\ pc' = After(reply'.ret, "write")
        /\ K!Read(p, fd, BUFSIZE)
    BY DEF CatRead, AfterCatRead, launched, Is
  <1>1. /\ KernelInv /\ fd = 2 /\ content \in Contents
        /\ BUFSIZE \in Nat /\ BUFSIZE > 0 /\ 2 \in K!Fd /\ K!Read(p, 2, BUFSIZE)
    BY <1>0, Sizes, FdFacts, BufSizes DEF TypeInv, DescriptorInv, PlaceInv
  <1>2. reply'.ret \in Int
    BY <1>1, ReadKernel
  <1>3. pc' \in {"ok", "failed", "write"}
    BY <1>0, <1>2, AfterCases
  <1>4. ASSUME NEW d \in K!read_dentry_by_name(args), IsText(d), pc' # "failed"
        PROVE  HasText(2, d.inode_num)' /\ CatAt(Text(d.inode_num), fds[p][2].file_pos)'
    <2> DEFINE m == BUFSIZE - 1
    <2>1. HasText(2, d.inode_num) /\ CatAt(Text(d.inode_num), fds[p][2].file_pos)
      BY <1>0, <1>4 DEF CatInv
    <2>2. PICK t : t = Text(d.inode_num)
      OBVIOUS
    <2>3. Text(d.inode_num)' = t /\ Len(t) \in Nat /\ Len(args) \in Nat
      BY <1>0, <1>4, <2>2, Inodes DEF Text, IsText, TypeInv, PlaceInv
    <2>4. reply'.ret # K!FAIL
      BY <1>0, <1>4 DEF After, K!FAIL
    <2>5. PICK pos \in 0 .. Len(t) : \E c \in 0 .. BUFSIZE :
              /\ fds[p][2].file_pos = pos /\ c = Left(d.inode_num, pos, BUFSIZE)
              /\ pos + c <= Len(t) /\ reply'.ret = c
              /\ Moved(2, pos + c) /\ HasText(2, d.inode_num)'
              /\ DataOf(reply') \in Seq(Sign) /\ Len(DataOf(reply')) = c
              /\ \A k \in 1 .. c : DataOf(reply')[k] = t[pos + k]
      BY <1>1, <2>1, <2>2, <2>4, TextReply
    <2>6. PICK c \in 0 .. BUFSIZE :
              /\ fds[p][2].file_pos = pos /\ c = Left(d.inode_num, pos, BUFSIZE)
              /\ pos + c <= Len(t) /\ reply'.ret = c
              /\ Moved(2, pos + c) /\ HasText(2, d.inode_num)'
              /\ DataOf(reply') \in Seq(Sign) /\ Len(DataOf(reply')) = c
              /\ \A k \in 1 .. c : DataOf(reply')[k] = t[pos + k]
      BY <2>5
    <2>7. fds'[p][2].file_pos = pos + c
      <3>1. fds'[p][2] = [fds[p][2] EXCEPT !.file_pos = pos + c] /\ fds[p][2] \in K!Entry
        BY <1>1, <2>6, Positions DEF Moved
      <3> QED BY <3>1 DEF K!Entry
    <2>8. c = IF pos + BUFSIZE > Len(t) THEN Len(t) - pos ELSE BUFSIZE
      BY <2>2, <2>6 DEF Left
    <2>9. c = 0 => pos = Len(t)
      BY <1>1, <2>3, <2>8
    <2>10. pc' = IF c = 0 THEN "ok" ELSE "write"
      BY <1>0, <1>2, <2>4, <2>6, AfterCases
    <2> DEFINE s == DataOf(reply')
    <2>11. /\ buf' = Overlaid(buf, 0, s) /\ s \in Seq(Sign) /\ Len(s) = c
           /\ \A k \in 1 .. c : s[k] = t[pos + k]
      BY <1>1, <2>1, <2>6 DEF CatRead, HasText
    <2>12. m \in Nat /\ buf \in [0 .. m -> Character] /\ 0 + Len(s) <= m + 1
      BY <1>0, <1>1, <2>11 DEF TypeInv, DataInv, BufSize
    <2> HIDE DEF s, m
    <2>13. /\ \A i \in 0 .. m : i < 0 \/ 0 + Len(s) <= i => buf'[i] = buf[i]
           /\ \A k \in 1 .. Len(s) : buf'[0 + k - 1] = s[k]
      <3> DEFINE o == Overlaid(buf, 0, s)
      <3>1. buf' = o
        BY <2>11
      <3>2. 0 \in Nat /\ s \in Seq(Sign)
        BY <2>11
      <3>3. /\ \A i \in 0 .. m : i < 0 \/ 0 + Len(s) <= i => o[i] = buf[i]
            /\ \A k \in 1 .. Len(s) : o[0 + k - 1] = s[k]
        BY <2>12, <3>2, TextInBuffer
      <3> HIDE DEF o
      <3> QED BY <3>1, <3>3
    <2>14. ASSUME NEW i \in 0 .. c - 1 PROVE buf'[i] = t[pos + i + 1]
      <3>1. i + 1 \in 1 .. Len(s) /\ i + 1 \in 1 .. c /\ 0 + (i + 1) - 1 = i /\ pos + (i + 1) = pos + i + 1
        BY <2>11
      <3>2. buf'[0 + (i + 1) - 1] = s[i + 1]
        BY <2>13, <3>1
      <3>3. s[i + 1] = t[pos + (i + 1)]
        BY <2>11, <3>1
      <3> QED BY <3>1, <3>2, <3>3
    <2>15. Written' = Part(t, 0, pos)
      <3>1. CatAt(t, pos) /\ pc = "read" /\ out' = out
        BY <1>0, <2>1, <2>2, <2>6
      <3>2. Written = Part(t, 0, pos)
        BY <3>1 DEF CatAt
      <3>3. Written' = Written
        BY <3>1 DEF Written, AskedFor
      <3> QED BY <3>2, <3>3
    <2>16. (pos + c) - c = pos /\ (c # 0 => c \in 1 .. pos + c)
      OBVIOUS
    <2>17. ASSUME Len(args) <= Len(t), Len(t) < BUFSIZE
           PROVE  /\ \A i \in Len(t) .. BUFSIZE - 1 : buf'[i] = Nul
                  /\ \A j \in 1 .. Len(out) : out[j].shown = AskedFor(out[j])
                  /\ c # 0 => c = Len(t) /\ pos + c = Len(t)
      <3>1. /\ \A i \in Len(t) .. BUFSIZE - 1 : buf[i] = Nul
            /\ \A j \in 1 .. Len(out) : out[j].shown = AskedFor(out[j])
            /\ pos \in {0, Len(t)}
        BY <1>0, <2>1, <2>2, <2>6, <2>17 DEF CatAt
      <3>2. \A i \in Len(t) .. BUFSIZE - 1 : i \in 0 .. m /\ 0 + Len(s) <= i
        BY <1>1, <2>3, <2>6, <2>11 DEF m
      <3>3. \A i \in Len(t) .. BUFSIZE - 1 : buf'[i] = Nul
        BY <2>13, <3>1, <3>2
      <3>4. c # 0 => c = Len(t) /\ pos + c = Len(t)
        BY <2>3, <2>8, <2>17, <3>1
      <3> QED BY <3>1, <3>3, <3>4
    <2>18. CASE c = 0
      <3>1. pc' = "ok" /\ pos + c = pos /\ pos = Len(t)
        BY <2>9, <2>10, <2>18
      <3>2. CatAt(t, fds[p][2].file_pos)'
        BY <1>0, <2>7, <2>15, <2>17, <3>1 DEF CatAt, AskedFor
      <3> QED BY <2>3, <2>6, <3>2 DEF CatAt
    <2>19. CASE c # 0
      <3>1. pc' = "write" /\ cnt' = c
        BY <1>0, <2>6, <2>10, <2>19
      <3>2. CatAt(t, fds[p][2].file_pos)'
        BY <1>0, <2>7, <2>14, <2>15, <2>16, <2>17, <2>19, <3>1 DEF CatAt, AskedFor
      <3> QED BY <2>3, <2>6, <3>2 DEF CatAt
    <2> QED BY <2>18, <2>19
  <1>5. CASE pc' = "failed"
    BY <1>5 DEF CatInv
  <1>6. CASE pc' # "failed"
    BY <1>0, <1>3, <1>4, <1>6 DEF CatInv
  <1> QED BY <1>5, <1>6

LEMMA CatWriteStep == TypeInv /\ CatInv /\ WriteBuffer => CatInv'
  <1> SUFFICES ASSUME TypeInv, CatInv, WriteBuffer, program = "cat" PROVE CatInv'
    BY DEF WriteBuffer, launched, CatInv
  <1> DEFINE m == BUFSIZE - 1
  <1>0. /\ pc = "write" /\ pc' = "read" /\ K!Write(p, 1, cnt) /\ UNCHANGED <<program, args, content, buf, cnt>>
        /\ \E k \in StrLens(buf) : out' = Append(out, [asked |-> cnt, shown |-> Shown(buf, k)])
    BY DEF WriteBuffer, launched, buffer, Wrote
  <1>1. /\ KernelInv /\ cnt \in 0 .. m + 1 /\ buf \in [0 .. m -> Character] /\ m \in Nat
        /\ \A i \in 0 .. cnt - 1 : buf[i] \in Sign
        /\ out \in Seq(Output) /\ cnt \in Int /\ cnt \in Nat
    BY <1>0, BufSizes DEF TypeInv, DataInv, BufSize
  <1>2. fds' = fds
    BY <1>0, <1>1, WriteReply
  <1>3. PICK k \in StrLens(buf) : out' = Append(out, [asked |-> cnt, shown |-> Shown(buf, k)])
    BY <1>0
  <1>4. PICK o : o = [asked |-> cnt, shown |-> Shown(buf, k)]
    OBVIOUS
  <1> HIDE DEF m
  <1>5. o \in Output /\ AskedFor(o) = [i \in 1 .. cnt |-> buf[i - 1]]
    BY <1>1, <1>4, WrotePiece
  <1>6. Written' = IF out = <<>> THEN AskedFor(o) ELSE Written \o AskedFor(o)
    BY <1>1, <1>3, <1>4, <1>5, WrittenMore
  <1>7. /\ Len(out) \in Nat /\ Len(out') = Len(out) + 1 /\ out'[Len(out) + 1] = o
        /\ \A i \in 1 .. Len(out) : out'[i] = out[i]
    BY <1>1, <1>3, <1>4, <1>5
  <1>8. ASSUME NEW d \in K!read_dentry_by_name(args), IsText(d)
        PROVE  HasText(2, d.inode_num)' /\ CatAt(Text(d.inode_num), fds[p][2].file_pos)'
    <2>1. HasText(2, d.inode_num) /\ CatAt(Text(d.inode_num), fds[p][2].file_pos)
      BY <1>0, <1>8 DEF CatInv
    <2>2. PICK t : t = Text(d.inode_num)
      OBVIOUS
    <2>3. Text(d.inode_num)' = t /\ Len(t) \in Nat /\ Len(args) \in Nat
      BY <1>0, <1>8, <2>2, Inodes DEF Text, IsText, TypeInv, PlaceInv
    <2>4. PICK pos : pos = fds[p][2].file_pos
      OBVIOUS
    <2>5. PICK c : c = cnt
      OBVIOUS
    <2>6. /\ pos \in Nat /\ c \in Nat /\ c <= pos /\ c > 0
          /\ Written = Part(t, 0, pos - c)
          /\ \A i \in 0 .. c - 1 : buf[i] = t[(pos - c) + i + 1]
      <3>1. pos \in Nat
        BY <1>1, <2>4, Positions, FdFacts
      <3>2. /\ cnt \in 1 .. pos /\ Written = Part(t, 0, pos - cnt)
            /\ \A i \in 0 .. cnt - 1 : buf[i] = t[(pos - cnt) + i + 1]
        BY <1>0, <2>1, <2>2, <2>4 DEF CatAt
      <3> QED BY <3>1, <3>2, <2>5
    <2>7. AskedFor(o) = Part(t, pos - c, pos)
      <3>1. pos - (pos - c) = c
        BY <2>6
      <3>2. ASSUME NEW i \in 1 .. c PROVE buf[i - 1] = t[(pos - c) + i]
        <4>1. i - 1 \in 0 .. c - 1 /\ (pos - c) + (i - 1) + 1 = (pos - c) + i
          BY <2>6
        <4> QED BY <2>6, <4>1
      <3> QED BY <1>5, <2>5, <3>1, <3>2 DEF Part
    <2>8. Written' = Part(t, 0, pos)
      <3>1. 0 \in Nat /\ pos - c \in Nat /\ 0 <= pos - c /\ pos - c <= pos
        BY <2>6
      <3>2. Part(t, 0, pos - c) \o Part(t, pos - c, pos) = Part(t, 0, pos)
        BY <2>6, <3>1, PartJoin
      <3>3. out = <<>> => pos - c = 0
        <4>1. Len(Part(t, 0, pos - c)) = (pos - c) - 0
          BY <3>1, PartAny
        <4>2. out = <<>> => Part(t, 0, pos - c) = <<>>
          BY <2>6, WrittenNone
        <4> QED BY <3>1, <4>1, <4>2
      <3> QED BY <1>6, <2>6, <2>7, <3>2, <3>3
    <2>9. ASSUME Len(args) <= Len(t), Len(t) < BUFSIZE
          PROVE  /\ \A i \in Len(t) .. BUFSIZE - 1 : buf[i] = Nul
                 /\ \A j \in 1 .. Len(out') : out'[j].shown = AskedFor(out'[j])
                 /\ pos \in {0, Len(t)}
      <3>1. /\ \A i \in Len(t) .. BUFSIZE - 1 : buf[i] = Nul
            /\ \A j \in 1 .. Len(out) : out[j].shown = AskedFor(out[j])
            /\ pos \in {0, Len(t)} /\ cnt = Len(t)
        BY <1>0, <2>1, <2>2, <2>4, <2>9 DEF CatAt
      <3>2. cnt \in 0 .. m /\ buf[cnt] = Nul
        BY <2>3, <2>9, <3>1, Sizes DEF m
      <3>3. Shown(buf, k) = [i \in 1 .. cnt |-> buf[i - 1]]
        BY <1>1, <3>2, ExactPiece
      <3>4. o.shown = AskedFor(o)
        BY <1>4, <1>5, <3>3
      <3>5. ASSUME NEW j \in 1 .. Len(out') PROVE out'[j].shown = AskedFor(out'[j])
        <4>1. j = Len(out) + 1 \/ j \in 1 .. Len(out)
          BY <1>7
        <4> QED BY <1>7, <3>1, <3>4, <4>1
      <3> QED BY <3>1, <3>5
    <2>10. CatAt(t, fds[p][2].file_pos)'
      BY <1>0, <1>2, <2>3, <2>4, <2>8, <2>9 DEF CatAt, AskedFor
    <2>11. HasText(2, d.inode_num)'
      BY <1>2, <2>1 DEF HasText
    <2> QED BY <2>3, <2>10, <2>11 DEF CatAt
  <1> QED BY <1>0, <1>8 DEF CatInv

LEMMA CatStep == TypeInv /\ CatInv /\ [Next]_vars => CatInv'
  <1> SUFFICES ASSUME TypeInv, CatInv, [Next]_vars, program = "cat" PROVE CatInv'
    BY LaunchedKept DEF CatInv
  <1>1. pc \in {"getargs", "open", "read", "write", "ok", "failed"}
    BY DEF TypeInv, PlaceInv, Phases
  <1>2. CASE GetArgs \/ OpenFirst \/ CatRead \/ WriteBuffer
    BY <1>2, CatGetArgs, CatOpen, CatReadStep, CatWriteStep
  <1>3. CASE UNCHANGED vars
    <2>1. UNCHANGED <<program, pc, fds, out, cnt, buf, content, args>>
      BY <1>3 DEF vars, kernel, launched, buffer
    <2>2. Written' = Written
      BY <2>1 DEF Written, AskedFor
    <2>3. ASSUME NEW d \in K!read_dentry_by_name(args), IsText(d), pc \in {"read", "write", "ok"}
          PROVE  (HasText(2, d.inode_num) /\ CatAt(Text(d.inode_num), fds[p][2].file_pos))'
      <3>1. HasText(2, d.inode_num) /\ CatAt(Text(d.inode_num), fds[p][2].file_pos)
        BY <2>3 DEF CatInv
      <3>2. HasText(2, d.inode_num)'
        BY <2>1, <3>1 DEF HasText
      <3>3. PICK t : t = Text(d.inode_num)
        OBVIOUS
      <3>4. Text(d.inode_num)' = t
        BY <2>1, <3>3 DEF Text
      <3>5. CatAt(t, fds[p][2].file_pos)
        BY <3>1, <3>3
      <3>6. CatAt(t, fds[p][2].file_pos)'
        BY <2>1, <2>2, <3>5 DEF CatAt, AskedFor
      <3>7. CatAt(Text(d.inode_num), fds[p][2].file_pos)'
        BY <3>4, <3>6 DEF CatAt
      <3> QED BY <3>2, <3>7
    <2> QED BY <2>1, <2>3 DEF CatInv
  <1>4. ~LsRead /\ ~GrepName /\ ~Syserr
    BY <1>1 DEF GrepName, LsRead, Syserr, Is, Choose, TestDone, TestRead, TestWrite, TestClose,
                TestOpen, TestLots, TestShut, TestVidmap, TestCall, Syscall
  <1>5. ~GrepOpen /\ ~GrepRead /\ ~GrepLine /\ ~GrepClose
    BY <1>1 DEF GrepOpen, GrepRead, GrepLine, GrepClose
  <1> QED BY <1>2, <1>3, <1>4, <1>5 DEF Next, CatOrLs, Grep

(* cat writes every byte of the file once and in order, and nothing behind  *)
(* it if the file is shorter than the buffer and not than its name.          *)
THEOREM CatCorrect == Spec => []CatPrintsFile
  <1>1. TypeInv /\ CatInv => CatPrintsFile
    <2> SUFFICES ASSUME TypeInv, CatInv, program = "cat", pc = "ok",
                        NEW d \in K!read_dentry_by_name(args), IsText(d)
                 PROVE  /\ Written = TextOf(d)
                        /\ Len(args) <= Len(Written) /\ Len(Written) < BUFSIZE =>
                             \A i \in DOMAIN out : out[i].shown = AskedFor(out[i])
      BY DEF CatPrintsFile, Is
    <2> DEFINE t == Text(d.inode_num)
    <2>1. CatAt(t, fds[p][2].file_pos)
      BY DEF CatInv
    <2>2. Written = Part(t, 0, Len(t))
      BY <2>1 DEF CatAt
    <2>3. Len(t) \in Nat
      BY Inodes DEF IsText
    <2>4. Part(t, 0, Len(t)) = t
      <3>1. t = [x \in 1 .. index_nodes[d.inode_num].length |-> t[x]]
        BY DEF Text
      <3>2. index_nodes[d.inode_num].length = Len(t)
        BY Inodes DEF IsText
      <3> HIDE DEF t
      <3>3. \A x \in 1 .. Len(t) : 0 + x = x /\ Len(t) - 0 = Len(t)
        BY <2>3
      <3>4. Len(t) - 0 = Len(t)
        BY <2>3
      <3>5. Part(t, 0, Len(t)) = [x \in 1 .. Len(t) |-> t[x]]
        BY <3>3, <3>4 DEF Part
      <3> QED BY <3>1, <3>2, <3>5
    <2>5. Written = t /\ t = TextOf(d)
      BY <2>2, <2>4 DEF TextOf
    <2>6. DOMAIN out = 1 .. Len(out)
      BY DEF TypeInv, DataInv
    <2> HIDE DEF t
    <2> QED BY <2>1, <2>5, <2>6 DEF CatAt
  <1> QED BY <1>1, TypeInvariant, CatInit, CatStep, TypeStep, PTL DEF Spec

-----------------------------------------------------------------------------
(* grep.                                                                    *)

LEMMA ConcatType ==
  ASSUME NEW E, NEW ss \in Seq(Seq(E))
  PROVE  Concat(ss) \in Seq(E)
  <1>1. CASE ss = <<>>
    BY <1>1 DEF Concat, S!FlattenSeq
  <1>2. CASE ss # <<>>
    <2> DEFINE n == Len(ss)
    <2>1. PICK g : Joins(g, ss, n) /\ Concat(ss) = g[n]
      BY <1>2, ConcatJoins
    <2>2. n \in Nat /\ n # 0
      BY <1>2, EmptySeq
    <2> DEFINE M == {i \in 1 .. n : g[i] \notin Seq(E)}
    <2>3. ASSUME M # {} PROVE FALSE
      <3>1. PICK m \in M : \A k \in M : m <= k
        <4>1. M \subseteq Nat
          OBVIOUS
        <4> HIDE DEF M
        <4> QED BY <2>3, <4>1, Least
      <3>2. m # 1 => m - 1 \in 1 .. n /\ m - 1 < m
        BY <2>2
      <3>3. m # 1 => g[m - 1] \in Seq(E)
        BY <3>1, <3>2
      <3>4. ss[m] \in Seq(E)
        BY <3>1, ElementOfSeq
      <3>5. g[m] = IF m = 1 THEN ss[m] ELSE g[m - 1] \o ss[m]
        <4> HIDE DEF n
        <4> QED BY <2>1, <3>1 DEF Joins
      <3>6. g[m] \in Seq(E)
        BY <3>3, <3>4, <3>5
      <3> QED BY <3>1, <3>6
    <2>4. n \in 1 .. n
      BY <2>2
    <2> QED BY <2>1, <2>3, <2>4
  <1> QED BY <1>1, <1>2

(* The first n members of a sequence.                                       *)
First(ss, n) == [k \in 1 .. n |-> ss[k]]

LEMMA FirstSeq ==
  ASSUME NEW E, NEW ss \in Seq(Seq(E)), NEW n \in 0 .. Len(ss)
  PROVE  First(ss, n) \in Seq(Seq(E)) /\ Len(First(ss, n)) = n /\ Concat(First(ss, n)) \in Seq(E)
  <1>1. n \in Nat /\ \A k \in 1 .. n : ss[k] \in Seq(E)
    <2>1. \A k \in 1 .. n : k \in 1 .. Len(ss)
      OBVIOUS
    <2> QED BY <2>1, ElementOfSeq
  <1>2. First(ss, n) \in Seq(Seq(E)) /\ Len(First(ss, n)) = n
    BY <1>1 DEF First
  <1> QED BY <1>2, ConcatType

LEMMA FirstMore ==
  ASSUME NEW E, NEW ss \in Seq(Seq(E)), NEW n \in 0 .. Len(ss) - 1
  PROVE  Concat(First(ss, n + 1)) = Concat(First(ss, n)) \o ss[n + 1]
  <1> DEFINE f == First(ss, n)
  <1>1. /\ n \in 0 .. Len(ss) /\ n + 1 \in 1 .. Len(ss) /\ n \in Nat /\ n + 1 \in 0 .. Len(ss)
    OBVIOUS
  <1>2. f \in Seq(Seq(E)) /\ Len(f) = n /\ ss[n + 1] \in Seq(E)
    BY <1>1, FirstSeq, ElementOfSeq
  <1>3. First(ss, n + 1) = Append(f, ss[n + 1])
    <2> DEFINE x == ss[n + 1]
               y == Append(f, x)
    <2>1. /\ y \in Seq(Seq(E)) /\ Len(y) = n + 1
          /\ \A i \in 1 .. n : y[i] = f[i] /\ y[n + 1] = x
      BY <1>2, AppendProperties
    <2>2. y[n + 1] = x
      BY <1>2, AppendProperties
    <2>3. \A i \in 1 .. n : f[i] = ss[i]
      BY DEF First
    <2> HIDE DEF y, f
    <2>4. y = [i \in 1 .. n + 1 |-> y[i]]
      BY <1>1, <2>1
    <2>5. \A i \in 1 .. n + 1 : y[i] = ss[i]
      <3> SUFFICES ASSUME NEW i \in 1 .. n + 1 PROVE y[i] = ss[i]
        OBVIOUS
      <3>1. i = n + 1 \/ i \in 1 .. n
        BY <1>1
      <3> QED BY <2>1, <2>2, <2>3, <3>1
    <2> QED BY <2>4, <2>5 DEF First, y
  <1> HIDE DEF f
  <1>4. Concat(<<>>) = <<>> /\ Concat(Append(f, ss[n + 1])) = IF f = <<>> THEN ss[n + 1]
                                                            ELSE Concat(f) \o ss[n + 1]
    BY <1>2, ConcatAppend
  <1>5. <<>> \o ss[n + 1] = ss[n + 1]
    BY <1>2, ConcatEmptySeq
  <1>6. Concat(Append(f, ss[n + 1])) = Concat(f) \o ss[n + 1]
    BY <1>4, <1>5
  <1> QED BY <1>3, <1>6 DEF f

LEMMA FirstNone == \A ss : Concat(First(ss, 0)) = <<>>
  <1> SUFFICES ASSUME NEW ss PROVE Concat(First(ss, 0)) = <<>>
    OBVIOUS
  <1>1. First(ss, 0) = <<>>
    BY DEF First
  <1> QED BY <1>1 DEF Concat, S!FlattenSeq

LEMMA FirstAll ==
  ASSUME NEW E, NEW ss \in Seq(Seq(E)) PROVE First(ss, Len(ss)) = ss
  BY DEF First

(* Empty members add nothing.                                               *)
LEMMA FirstSame ==
  ASSUME NEW E, NEW ss \in Seq(Seq(E)), NEW n \in 0 .. Len(ss), NEW m \in n .. Len(ss),
         \A k \in n + 1 .. m : ss[k] = <<>>
  PROVE  Concat(First(ss, m)) = Concat(First(ss, n))
  <1> DEFINE C(k) == Concat(First(ss, k))
             M == {k \in n .. m : C(k) # C(n)}
  <1> HIDE DEF C
  <1>1. ASSUME M # {} PROVE FALSE
    <2>1. PICK k \in M : \A j \in M : k <= j
      <3>1. M \subseteq Nat
        OBVIOUS
      <3> HIDE DEF M
      <3> QED BY <1>1, <3>1, Least
    <2>2. k # n /\ k \in n .. m /\ C(k) # C(n)
      BY <2>1
    <2>3. /\ k - 1 \in n .. m /\ k - 1 < k /\ k - 1 \in 0 .. Len(ss) - 1 /\ (k - 1) + 1 = k
          /\ k \in n + 1 .. m /\ k - 1 \in 0 .. Len(ss)
      BY <2>2
    <2>4. C(k - 1) = C(n)
      BY <2>1, <2>3
    <2>5. C(k) = C(k - 1) \o ss[k]
      <3>1. Concat(First(ss, (k - 1) + 1)) = Concat(First(ss, k - 1)) \o ss[(k - 1) + 1]
        BY <2>3, FirstMore
      <3> QED BY <2>3, <3>1 DEF C
    <2>6. C(k - 1) \in Seq(E)
      BY <2>3, FirstSeq DEF C
    <2>7. C(k - 1) \o <<>> = C(k - 1)
      BY <2>6, ConcatEmptySeq
    <2> QED BY <2>2, <2>3, <2>4, <2>5, <2>7
  <1>2. m \in n .. m
    OBVIOUS
  <1> QED BY <1>1, <1>2 DEF C

(* One sequence behind another, and the report of a line.                   *)
Join(s, t) == s \o t
Report(name, l) == Said(<<name, l>>)

(* What grep may report of these texts.                                     *)
Reports(tx) == {Report(dir_entries[k].file_name, LineAt(tx[k], i)) :
                  k \in DOMAIN dir_entries, i \in Nat}

LEMMA ReportsHas ==
  ASSUME NEW tx, NEW k \in DOMAIN dir_entries, NEW i \in Nat
  PROVE  Report(dir_entries[k].file_name, LineAt(tx[k], i)) \in Reports(tx)
  BY DEF Reports

LEMMA HitsSeq ==
  ASSUME NEW pattern, NEW tx, NEW k \in DOMAIN dir_entries, Len(tx[k]) \in Nat
  PROVE  /\ Hits(pattern, dir_entries[k].file_name, tx[k]) \in Seq(Seq(Reports(tx)))
         /\ Len(Hits(pattern, dir_entries[k].file_name, tx[k])) = Len(tx[k])
  <1> DEFINE t == tx[k]
             name == dir_entries[k].file_name
             E == Reports(tx)
             At(i) == IF (i = 1 \/ t[i - 1] = NL) /\ OccursIn(pattern, LineAt(t, i))
                      THEN <<Said(<<name, LineAt(t, i)>>)>> ELSE <<>>
  <1>1. ASSUME NEW i \in 1 .. Len(t) PROVE At(i) \in Seq(E)
    <2> DEFINE o == Said(<<name, LineAt(t, i)>>)
    <2>1. o \in E
      <3>1. i \in Nat
        OBVIOUS
      <3>2. Report(name, LineAt(t, i)) \in E
        BY <3>1, ReportsHas
      <3> QED BY <3>2 DEF Report
    <2> HIDE DEF o, E
    <2>2. <<o>> \in Seq(E) /\ <<>> \in Seq(E)
      BY <2>1
    <2> QED BY <2>2 DEF o
  <1>2. Hits(pattern, name, t) = [i \in 1 .. Len(t) |-> At(i)]
    BY DEF Hits
  <1> HIDE DEF At, E, t, name
  <1>3. [i \in 1 .. Len(t) |-> At(i)] \in Seq(Seq(E)) /\ Len([i \in 1 .. Len(t) |-> At(i)]) = Len(t)
    <2>1. Len(t) \in Nat
      BY DEF t
    <2> QED BY <1>1, <2>1
  <1> QED BY <1>2, <1>3 DEF t, name, E

LEMMA FindsSeq ==
  ASSUME NEW pattern, NEW tx, \A k \in DOMAIN dir_entries : Len(tx[k]) \in Nat
  PROVE  Finds(pattern, tx) \in Seq(Seq(Reports(tx))) /\ Len(Finds(pattern, tx)) = Len(dir_entries)
  <1> DEFINE E == Reports(tx)
             At(k) == IF Searched(dir_entries[k])
                      THEN Concat(Hits(pattern, dir_entries[k].file_name, tx[k])) ELSE <<>>
  <1>1. ASSUME NEW k \in DOMAIN dir_entries PROVE At(k) \in Seq(E)
    <2>1. Concat(Hits(pattern, dir_entries[k].file_name, tx[k])) \in Seq(E)
      BY HitsSeq, ConcatType
    <2> HIDE DEF E
    <2>2. <<>> \in Seq(E)
      OBVIOUS
    <2> QED BY <2>1, <2>2
  <1>2. Finds(pattern, tx) = [k \in 1 .. Len(dir_entries) |-> At(k)]
    BY Directory DEF Finds
  <1>3. Len(dir_entries) \in Nat /\ DOMAIN dir_entries = 1 .. Len(dir_entries)
    BY Directory
  <1> HIDE DEF At, E
  <1>4. [k \in 1 .. Len(dir_entries) |-> At(k)] \in Seq(Seq(E))
        /\ Len([k \in 1 .. Len(dir_entries) |-> At(k)]) = Len(dir_entries)
    BY <1>1, <1>3
  <1> QED BY <1>2, <1>4 DEF E

(* The line that begins behind done ends once, and is there if done is not  *)
(* the end of the text.                                                      *)
LEMMA LineUnique ==
  ASSUME NEW t, Len(t) \in Nat, NEW i \in 1 .. Len(t), NEW e \in i - 1 .. Len(t), LineOf(t, i, e),
         NEW j \in i - 1 .. Len(t), LineOf(t, i, j)
  PROVE  e = j
  <1>1. ~(e < j)
    <2> SUFFICES ASSUME e < j PROVE FALSE
      OBVIOUS
    <2>1. e + 1 \in i .. j /\ e # Len(t)
      OBVIOUS
    <2> QED BY <2>1 DEF LineOf
  <1>2. ~(j < e)
    <2> SUFFICES ASSUME j < e PROVE FALSE
      OBVIOUS
    <2>1. j + 1 \in i .. e /\ j # Len(t)
      OBVIOUS
    <2> QED BY <2>1 DEF LineOf
  <1> QED BY <1>1, <1>2

LEMMA LineExists ==
  ASSUME NEW t, Len(t) \in Nat, NEW i \in 1 .. Len(t), i = 1 \/ t[i - 1] = NL
  PROVE  \E j \in i - 1 .. Len(t) : LineOf(t, i, j)
  <1> DEFINE M == {j \in i - 1 .. Len(t) : j = Len(t) \/ t[j + 1] = NL}
  <1>1. M \subseteq Nat /\ Len(t) \in M
    OBVIOUS
  <1>2. PICK j \in M : \A k \in M : j <= k
    <2> HIDE DEF M
    <2> QED BY <1>1, Least
  <1>3. j \in i - 1 .. Len(t) /\ (j = Len(t) \/ t[j + 1] = NL)
    BY <1>2
  <1>4. ASSUME NEW k \in i .. j PROVE t[k] # NL
    <2>1. k - 1 \in i - 1 .. Len(t) /\ k - 1 < j /\ (k - 1) + 1 = k
      BY <1>3
    <2>2. k - 1 \notin M
      <3> SUFFICES ASSUME k - 1 \in M PROVE FALSE
        OBVIOUS
      <3>1. j <= k - 1 /\ j \in Int /\ k - 1 \in Int
        <4> HIDE DEF M
        <4> QED BY <1>1, <1>2, <2>1
      <3> QED BY <2>1, <3>1
    <2> QED BY <2>1, <2>2
  <1>5. i <= j + 1
    BY <1>3
  <1>6. LineOf(t, i, j)
    BY <1>3, <1>4, <1>5 DEF LineOf
  <1> QED BY <1>3, <1>6

LEMMA LineAtIs ==
  ASSUME NEW t, Len(t) \in Nat, NEW i \in 1 .. Len(t), NEW e \in i - 1 .. Len(t), LineOf(t, i, e)
  PROVE  LineAt(t, i) = SubSeq(t, i, e)
  <1> DEFINE j == CHOOSE x \in i - 1 .. Len(t) : LineOf(t, i, x)
  <1>1. j \in i - 1 .. Len(t) /\ LineOf(t, i, j)
    OBVIOUS
  <1>2. LineAt(t, i) = SubSeq(t, i, j)
    BY DEF LineAt
  <1> HIDE DEF j
  <1>3. j = e
    BY <1>1, LineUnique
  <1> QED BY <1>2, <1>3

(* What the next line adds to what has been reported.                       *)
Found(pattern, name, l) == IF OccursIn(pattern, l) THEN <<Said(<<name, l>>)>> ELSE <<>>

LEMMA NextHit ==
  ASSUME NEW pattern, NEW name, NEW t, Len(t) \in Nat, NEW E, Hits(pattern, name, t) \in Seq(Seq(E)),
         Len(Hits(pattern, name, t)) = Len(t),
         NEW done \in 0 .. Len(t) - 1, NEW e \in done .. Len(t), LineOf(t, done + 1, e),
         NEW next \in done + 1 .. e + 1, next <= Len(t)
  PROVE  Concat(First(Hits(pattern, name, t), next))
           = Join(Concat(First(Hits(pattern, name, t), done)), Found(pattern, name, SubSeq(t, done + 1, e)))
  <1> DEFINE h == Hits(pattern, name, t)
             i == done + 1
  <1>1. /\ i \in 1 .. Len(t) /\ e \in i - 1 .. Len(t) /\ next \in i .. Len(t) /\ LineOf(t, i, e)
        /\ i - 1 = done
    OBVIOUS
  <1>2. i = 1 \/ t[i - 1] = NL
    <2> HIDE DEF i
    <2> QED BY <1>1 DEF LineOf
  <1>3. LineAt(t, i) = SubSeq(t, i, e)
    <2> HIDE DEF i
    <2> QED BY <1>1, LineAtIs
  <1>4. h[i] = Found(pattern, name, SubSeq(t, i, e))
    <2> HIDE DEF i
    <2>1. h[i] = IF (i = 1 \/ t[i - 1] = NL) /\ OccursIn(pattern, LineAt(t, i))
                 THEN <<Said(<<name, LineAt(t, i)>>)>> ELSE <<>>
      BY <1>1 DEF Hits
    <2> QED BY <1>2, <1>3, <2>1 DEF Found
  <1>5. ASSUME NEW k \in i + 1 .. next PROVE h[k] = <<>>
    <2>1. /\ k \in 1 .. Len(t) /\ k # 1 /\ k - 1 \in i .. e
      BY <1>1
    <2>2. t[k - 1] # NL
      <3> HIDE DEF i
      <3> QED BY <1>1, <2>1 DEF LineOf
    <2> HIDE DEF i
    <2>3. h[k] = IF (k = 1 \/ t[k - 1] = NL) /\ OccursIn(pattern, LineAt(t, k))
                 THEN <<Said(<<name, LineAt(t, k)>>)>> ELSE <<>>
      BY <2>1 DEF Hits
    <2> QED BY <2>1, <2>2, <2>3
  <1> HIDE DEF h
  <1>6. h \in Seq(Seq(E)) /\ Len(h) = Len(t)
    BY DEF h
  <1>7. Concat(First(h, i)) = Concat(First(h, done)) \o h[i]
    <2>1. done \in 0 .. Len(h) - 1
      BY <1>6
    <2> QED BY <1>6, <2>1, FirstMore
  <1>8. Concat(First(h, next)) = Concat(First(h, i))
    <2>1. i \in 0 .. Len(h) /\ next \in i .. Len(h)
      BY <1>1, <1>6
    <2> HIDE DEF i
    <2> QED BY <1>5, <1>6, <2>1, FirstSame
  <1> QED BY <1>4, <1>7, <1>8 DEF h, Join

(* What grep does to what it has written.                                   *)
Added(o, name, l) == IF OccursIn(args, l) THEN Append(o, Said(<<name, l>>)) ELSE o

LEMMA FoundOut ==
  ASSUME NEW E, NEW o \in Seq(E), NEW name, NEW l, Report(name, l) \in E
  PROVE  Added(o, name, l) = Join(o, Found(args, name, l))
  <1> DEFINE x == Said(<<name, l>>)
  <1>0. x \in E
    BY DEF Report
  <1> HIDE DEF x
  <1>1. o \o <<>> = o
    BY ConcatEmptySeq
  <1>2. Append(o, x) = o \o <<x>>
    <2>1. <<x>> \in Seq(E) /\ Len(<<x>>) = 1 /\ <<x>>[1] = x
      BY <1>0
    <2>2. /\ Len(o) \in Nat
          /\ o \o <<x>> \in Seq(E) /\ Len(o \o <<x>>) = Len(o) + 1
          /\ \A k \in 1 .. Len(o) + 1 : (o \o <<x>>)[k] = IF k <= Len(o) THEN o[k] ELSE <<x>>[k - Len(o)]
      BY <2>1, ConcatProperties
    <2>3. /\ Append(o, x) \in Seq(E) /\ Len(Append(o, x)) = Len(o) + 1
          /\ \A k \in 1 .. Len(o) : Append(o, x)[k] = o[k]
          /\ Append(o, x)[Len(o) + 1] = x
      BY <1>0, AppendProperties
    <2> DEFINE y == Append(o, x)
               z == o \o <<x>>
               n == Len(o)
    <2> HIDE DEF y, z, n
    <2>4. ASSUME NEW k \in 1 .. n + 1 PROVE y[k] = z[k]
      <3>1. CASE k = n + 1
        <4>1. z[k] = <<x>>[k - n] /\ k - n = 1 /\ n \in Nat
          BY <2>2, <3>1 DEF z, n
        <4> QED BY <2>1, <2>3, <3>1, <4>1 DEF y, n
      <3>2. CASE k # n + 1
        <4>1. k \in 1 .. n /\ k <= n
          BY <2>2, <3>2 DEF n
        <4> QED BY <2>2, <2>3, <4>1 DEF y, z, n
      <3> QED BY <3>1, <3>2
    <2>5. y \in Seq(E) /\ z \in Seq(E) /\ Len(y) = n + 1 /\ Len(z) = n + 1
      BY <2>2, <2>3 DEF y, z, n
    <2>6. y = z
      BY <2>4, <2>5, SeqEqual
    <2> QED BY <2>6 DEF y, z
  <1> QED BY <1>1, <1>2 DEF Found, Added, Join, x

(* The texts behind the names of the directory.                             *)
LEMMA TextsKept ==
  /\ content' = content => Texts' = Texts
  /\ \A k \in DOMAIN dir_entries : Len(Texts[k]) \in Nat
  <1>1. content' = content => Texts' = Texts
    BY DEF Texts, TextOf, Text
  <1>2. ASSUME NEW k \in DOMAIN dir_entries PROVE Len(Texts[k]) \in Nat
    <2> DEFINE d == Named(dir_entries[k].file_name)
    <2>1. Texts[k] = IF IsText(d) THEN Text(d.inode_num) ELSE <<>>
      BY DEF Texts, TextOf
    <2> HIDE DEF d
    <2>2. IsText(d) => Len(Text(d.inode_num)) \in Nat
      BY Inodes DEF IsText
    <2> QED BY <2>1, <2>2
  <1> QED BY <1>1, <1>2

-----------------------------------------------------------------------------
(* What grep knows in each place.                                           *)

(* The descriptor that it reads a text from; the clock gives nothing.       *)
Source(t) ==
  \/ fds[p][3].file_op = "rtc" /\ fds[p][3].flags = 1 /\ fds[p][3].file_pos = 0 /\ t = <<>>
  \/ \E i \in K!Inode : HasText(3, i) /\ t = Text(i)

(* The buffer holds the end of what has been read, from the start of a line *)
(* on, and the lines before that have been reported.                        *)
GrepAt(t, pos, prior, h) ==
  LET start == IF pc = "line" THEN line_start ELSE 0
      base == pos - last
  IN /\ last <= pos
     /\ out = Join(prior, Concat(First(h, base + start)))
     /\ base + start \in {0, Len(t)} \/ t[base + start] = NL
     /\ \A i \in start .. last - 1 : buf[i] = t[base + i + 1]
     /\ buf[BUFSIZE] \in {Junk, Nul}
     /\ pc = "readfile" => last < BUFSIZE
     /\ pc = "line" => /\ start < last \/ (start = 0 /\ last = 0)
                       /\ last = BUFSIZE \/ pos = Len(t)
                       /\ cnt = 0 => pos = Len(t)

GrepPlace(tx, fn) ==
  LET k == fds[p][2].file_pos
  IN /\ pc \in {"getargs", "open"} => out = <<>>
     /\ pc = "read" => out = Concat(First(fn, k))
     /\ pc = "ok" => out = Concat(fn)
     /\ pc \in {"openfile", "readfile", "line", "closefile"} =>
          k \in DOMAIN dir_entries /\ fname = dir_entries[k].file_name /\ Searched(dir_entries[k])
     /\ pc = "openfile" => out = Concat(First(fn, k - 1))
     /\ pc = "closefile" => out = Concat(First(fn, k))
     /\ pc \in {"readfile", "line"} =>
          /\ Source(tx[k])
          /\ GrepAt(tx[k], fds[p][3].file_pos, Concat(First(fn, k - 1)), Hits(args, fname, tx[k]))

GrepInv ==
  program = "grep" => /\ "lines" \in Rules => \A i \in K!Inode : Fit(Text(i))
                      /\ GrepPlace(Texts, Finds(args, Texts))

LEMMA SourceKept ==
  ASSUME NEW t, Source(t), content' = content, fds'[p][3] = fds[p][3] PROVE Source(t)'
  <1>1. CASE fds[p][3].file_op = "rtc" /\ fds[p][3].flags = 1 /\ fds[p][3].file_pos = 0 /\ t = <<>>
    BY <1>1 DEF Source
  <1>2. CASE \E i \in K!Inode : HasText(3, i) /\ t = Text(i)
    <2>1. PICK i \in K!Inode : HasText(3, i) /\ t = Text(i)
      BY <1>2
    <2>2. HasText(3, i)' /\ Text(i)' = Text(i)
      BY <2>1 DEF HasText, Readable, Text
    <2> QED BY <2>1, <2>2 DEF Source
  <1> QED BY <1>1, <1>2 DEF Source

(* A read from it gives the next part of the text, all that is wanted or    *)
(* all that is left.                                                         *)
LEMMA SourceReply ==
  ASSUME KernelInv, content \in Contents, content' = content, NEW t, Source(t), NEW n \in Nat,
         K!Read(p, 3, n), reply'.ret # K!FAIL
  PROVE  \E pos \in 0 .. Len(t) : \E c \in 0 .. n :
           /\ fds[p][3].file_pos = pos /\ fds'[p][3].file_pos = pos + c
           /\ pos + c <= Len(t) /\ (c = n \/ pos + c = Len(t)) /\ reply'.ret = c
           /\ Source(t)' /\ fds'[p][2] = fds[p][2]
           /\ DataOf(reply') \in Seq(Sign) /\ Len(DataOf(reply')) = c
           /\ \A k \in 1 .. c : DataOf(reply')[k] = t[pos + k]
  <1>0. 3 \in K!Fd /\ 2 \in K!Fd /\ 2 # 3
    BY FdFacts
  <1>1. CASE fds[p][3].file_op = "rtc" /\ fds[p][3].flags = 1 /\ fds[p][3].file_pos = 0 /\ t = <<>>
    <2>1. fds' = fds /\ reply'.ret = 0 /\ DataOf(reply') = <<>>
      BY <1>0, <1>1, RtcReply
    <2>2. Source(t)'
      BY <2>1, SourceKept
    <2>3. Len(t) = 0 /\ 0 + 0 = 0 /\ 0 \in 0 .. 0 /\ 0 \in 0 .. n /\ 0 <= 0
          /\ <<>> \in Seq(Sign) /\ Len(<<>>) = 0 /\ \A k \in 1 .. 0 : FALSE
      BY <1>1
    <2>4. /\ fds[p][3].file_pos = 0 /\ fds'[p][3].file_pos = 0 + 0
          /\ 0 + 0 <= Len(t) /\ 0 + 0 = Len(t) /\ reply'.ret = 0
          /\ Source(t)' /\ fds'[p][2] = fds[p][2]
          /\ DataOf(reply') \in Seq(Sign) /\ Len(DataOf(reply')) = 0
          /\ \A k \in 1 .. 0 : DataOf(reply')[k] = t[0 + k]
      BY <1>1, <2>1, <2>2, <2>3
    <2> QED BY <2>3, <2>4
  <1>2. CASE \E i \in K!Inode : HasText(3, i) /\ t = Text(i)
    <2>1. PICK i \in K!Inode : HasText(3, i) /\ t = Text(i)
      BY <1>2
    <2>2. PICK pos \in 0 .. Len(t) : \E c \in 0 .. n :
              /\ fds[p][3].file_pos = pos /\ c = Left(i, pos, n)
              /\ pos + c <= Len(t) /\ reply'.ret = c
              /\ Moved(3, pos + c) /\ HasText(3, i)'
              /\ DataOf(reply') \in Seq(Sign) /\ Len(DataOf(reply')) = c
              /\ \A k \in 1 .. c : DataOf(reply')[k] = t[pos + k]
      BY <1>0, <2>1, TextReply
    <2>3. PICK c \in 0 .. n :
              /\ fds[p][3].file_pos = pos /\ c = Left(i, pos, n)
              /\ pos + c <= Len(t) /\ reply'.ret = c
              /\ Moved(3, pos + c) /\ HasText(3, i)'
              /\ DataOf(reply') \in Seq(Sign) /\ Len(DataOf(reply')) = c
              /\ \A k \in 1 .. c : DataOf(reply')[k] = t[pos + k]
      BY <2>2
    <2>4. fds'[p][3].file_pos = pos + c /\ fds'[p][2] = fds[p][2]
      <3>1. /\ fds'[p][3] = [fds[p][3] EXCEPT !.file_pos = pos + c] /\ fds[p][3] \in K!Entry
            /\ fds'[p][2] = fds[p][2]
        BY <1>0, <2>3, Positions DEF Moved
      <3> QED BY <3>1 DEF K!Entry
    <2>5. c = IF pos + n > Len(t) THEN Len(t) - pos ELSE n
      BY <2>1, <2>3 DEF Left
    <2>6. Len(t) \in Nat
      BY <2>1, Inodes
    <2>7. c = n \/ pos + c = Len(t)
      BY <2>5, <2>6
    <2>8. Source(t)'
      <3>1. Text(i)' = Text(i)
        BY DEF Text
      <3> QED BY <2>1, <2>3, <3>1 DEF Source
    <2> QED BY <2>3, <2>4, <2>7, <2>8
  <1> QED BY <1>1, <1>2 DEF Source

-----------------------------------------------------------------------------
(* The steps of grep.                                                       *)

LEMMA GrepInit == Init => GrepInv
  <1> SUFFICES ASSUME Init, program = "grep" PROVE GrepInv
    BY DEF GrepInv
  <1>1. pc = "getargs" /\ out = <<>> /\ ("lines" \in Rules => \A i \in K!Inode : Fit(Text(i)))
    BY DEF Init
  <1> QED BY <1>1 DEF GrepInv, GrepPlace

LEMMA GrepGetArgs ==
  ASSUME NEW tx, NEW fn, GetArgs, GrepPlace(tx, fn) PROVE GrepPlace(tx, fn)'
  <1>1. pc = "getargs" /\ pc' = "open" /\ out' = out
    BY DEF GetArgs
  <1> QED BY <1>1 DEF GrepPlace

LEMMA GrepOpenFirst ==
  ASSUME TypeInv, NEW tx, NEW fn, program = "grep", OpenFirst, GrepPlace(tx, fn)
  PROVE  GrepPlace(tx, fn)'
  <1>0. /\ pc = "open" /\ out' = out /\ K!Open(p, Dot)
        /\ pc' = IF reply'.ret = K!FAIL THEN "failed" ELSE "read"
    BY DEF OpenFirst
  <1>1. KernelInv /\ UpTo(2) /\ 2 \in 2 .. NFD - 1
    BY <1>0, Sizes DEF TypeInv, DescriptorInv
  <1>2. \/ \E d \in K!read_dentry_by_name(Dot) : \E e \in K!Opened(d, K!Blank) : fds'[p][2] = e
        \/ reply'.ret = K!FAIL
    BY <1>0, <1>1, OpenReply
  <1>3. reply'.ret # K!FAIL => fds'[p][2].file_pos = 0
    BY <1>2, OpenedEntry
  <1>4. out' = <<>> /\ Concat(First(fn, 0)) = <<>>
    BY <1>0, FirstNone DEF GrepPlace
  <1> QED BY <1>0, <1>3, <1>4 DEF GrepPlace

LEMMA GrepNameStep ==
  ASSUME TypeInv, NEW E, NEW tx, NEW fn \in Seq(Seq(E)), Len(fn) = Len(dir_entries),
         \A k \in DOMAIN dir_entries : ~Searched(dir_entries[k]) => fn[k] = <<>>,
         GrepName, GrepPlace(tx, fn)
  PROVE  GrepPlace(tx, fn)'
  <1>0. /\ pc = "read" /\ program = "grep" /\ fname' = NameOf(reply') /\ out' = out
        /\ pc' = After(reply'.ret, IF Head(NameOf(reply')) = Head(Dot) THEN "read" ELSE "openfile")
        /\ K!Read(p, fd, MAX_NAME_LENGTH)
    BY DEF GrepName, Is
  <1>1. /\ KernelInv /\ fd = 2 /\ Good(2) /\ MAX_NAME_LENGTH \in Nat
        /\ MAX_NAME_LENGTH >= MAX_NAME_LENGTH /\ 2 \in K!Fd
        /\ K!Read(p, 2, MAX_NAME_LENGTH) /\ fds[p][2].file_op = "dir"
    BY <1>0, Sizes, FdFacts DEF TypeInv, DescriptorInv
  <1>2. fds[p][2].flags = 1 /\ fds[p][2].file_pos <= Len(dir_entries) /\ fds[p][2].file_pos \in Nat
    BY <1>1, Positions DEF Good, HasText
  <1>3. PICK k \in Nat : k = fds[p][2].file_pos
    BY <1>2
  <1>4. /\ out = Concat(First(fn, k)) /\ k \in 0 .. Len(fn) /\ k <= Len(dir_entries)
        /\ Len(dir_entries) \in Nat /\ DOMAIN dir_entries = 1 .. Len(dir_entries)
    BY <1>0, <1>2, <1>3, Directory DEF GrepPlace
  <1>5. \/ k = Len(dir_entries) /\ reply'.ret = 0
        \/ /\ k + 1 \in DOMAIN dir_entries /\ Moved(2, k + 1)
           /\ NameOf(reply') = dir_entries[k + 1].file_name
           /\ reply'.ret = Len(dir_entries[k + 1].file_name)
    BY <1>1, <1>2, <1>3, DirReply
  <1>6. CASE k = Len(dir_entries) /\ reply'.ret = 0
    <2>1. First(fn, k) = fn
      BY <1>6, FirstAll
    <2> QED BY <1>0, <1>4, <1>6, <2>1 DEF GrepPlace, After
  <1>7. CASE /\ k + 1 \in DOMAIN dir_entries /\ Moved(2, k + 1)
             /\ NameOf(reply') = dir_entries[k + 1].file_name
             /\ reply'.ret = Len(dir_entries[k + 1].file_name)
    <2> DEFINE s == dir_entries[k + 1].file_name
    <2>1. Len(s) \in Nat /\ Len(s) > 0 /\ fname' = s /\ reply'.ret = Len(s)
      BY <1>0, <1>7, EntryName
    <2>2. fds'[p][2].file_pos = k + 1
      <3>1. fds'[p][2] = [fds[p][2] EXCEPT !.file_pos = k + 1] /\ fds[p][2] \in K!Entry
        BY <1>1, <1>7, Positions DEF Moved
      <3> QED BY <3>1 DEF K!Entry
    <2>3. pc' = IF Searched(dir_entries[k + 1]) THEN "openfile" ELSE "read"
      <3>1. pc' = After(Len(s), IF Head(s) = Head(Dot) THEN "read" ELSE "openfile")
        BY <1>0, <1>7
      <3>2. Searched(dir_entries[k + 1]) <=> Head(s) # Head(Dot)
        BY DEF Searched
      <3> HIDE DEF s
      <3> QED BY <2>1, <3>1, <3>2 DEF After, K!FAIL
    <2>4. CASE Searched(dir_entries[k + 1])
      <3>1. (k + 1) - 1 = k
        BY <1>3
      <3> QED BY <1>0, <1>4, <1>7, <2>1, <2>2, <2>3, <2>4, <3>1 DEF GrepPlace
    <2>5. CASE ~Searched(dir_entries[k + 1])
      <3>1. Concat(First(fn, k + 1)) = Concat(First(fn, k))
        <4>1. /\ k + 1 \in k .. Len(fn)
              /\ \A j \in k + 1 .. k + 1 : fn[j] = <<>>
          <5>1. k + 1 \in k .. Len(fn) /\ fn[k + 1] = <<>>
            BY <1>3, <1>4, <1>7, <2>5
          <5>2. \A j \in k + 1 .. k + 1 : j = k + 1
            BY <1>3
          <5> QED BY <5>1, <5>2
        <4> DEFINE m == k + 1
        <4>2. m \in k .. Len(fn) /\ \A j \in k + 1 .. m : fn[j] = <<>>
          BY <4>1
        <4> HIDE DEF m
        <4>3. Concat(First(fn, m)) = Concat(First(fn, k))
          BY <1>4, <4>2, FirstSame
        <4> QED BY <4>3 DEF m
      <3> QED BY <1>0, <1>4, <2>2, <2>3, <2>5, <3>1 DEF GrepPlace
    <2> QED BY <2>4, <2>5
  <1> QED BY <1>5, <1>6, <1>7

LEMMA GrepOpenStep ==
  ASSUME TypeInv, NEW E, NEW tx, tx = Texts, NEW fn \in Seq(Seq(E)), Len(fn) = Len(dir_entries),
         GrepOpen, GrepPlace(tx, fn)
  PROVE  GrepPlace(tx, fn)'
  <1>0. /\ pc = "openfile" /\ UNCHANGED <<content, program, args, fname, out>> /\ last' = 0
        /\ buf' = [i \in DOMAIN buf |-> Junk]
        /\ pc' = IF reply'.ret = K!FAIL THEN "failed" ELSE "readfile"
        /\ K!Open(p, fname)
    BY DEF GrepOpen, launched
  <1>1. KernelInv /\ UpTo(3) /\ 3 \in 2 .. NFD - 1 /\ FileName(fname) /\ program = "grep"
    BY <1>0, Sizes, Places DEF TypeInv, DescriptorInv
  <1>2. PICK k \in DOMAIN dir_entries :
          /\ k = fds[p][2].file_pos /\ fname = dir_entries[k].file_name /\ Searched(dir_entries[k])
          /\ out = Concat(First(fn, k - 1))
    BY <1>0 DEF GrepPlace
  <1>3. \/ /\ \E d \in K!read_dentry_by_name(fname) : \E e \in K!Opened(d, K!Blank) :
                   fds' = [fds EXCEPT ![p][3] = e] /\ fds'[p][3] = e
           /\ reply'.ret = 3
        \/ reply'.ret = K!FAIL
    BY <1>0, <1>1, OpenReply
  <1>4. CASE reply'.ret = K!FAIL
    BY <1>0, <1>4 DEF GrepPlace
  <1>5. CASE reply'.ret # K!FAIL
    <2>1. PICK d \in K!read_dentry_by_name(fname) : \E e \in K!Opened(d, K!Blank) :
                   fds' = [fds EXCEPT ![p][3] = e] /\ fds'[p][3] = e
      BY <1>3, <1>5
    <2>2. PICK e \in K!Opened(d, K!Blank) : fds' = [fds EXCEPT ![p][3] = e] /\ fds'[p][3] = e
      BY <2>1
    <2>3. fds'[p][2] = fds[p][2]
      <3>1. fds[p] \in [K!Fd -> K!Entry] /\ 2 \in K!Fd /\ fds \in [Pid -> [K!Fd -> K!Entry]] /\ p \in Pid
        BY <1>1, ThePid, FdFacts DEF KernelInv
      <3> QED BY <2>2, <3>1
    <2>4. /\ e.flags = 1 /\ e.file_pos = 0 /\ e.file_op \in {"rtc", "dir", "file"}
          /\ e.file_op = "dir" <=> d.file_type = K!DIRECTORY
          /\ e.file_op = "file" <=> IsText(d)
      BY OpenedEntry
    <2>5. d.file_type # K!DIRECTORY
      BY <1>1, FileEntry
    <2>6. tx[k] = TextOf(d)
      <3>1. Named(fname) = d
        <4>1. Named(fname) \in K!read_dentry_by_name(fname)
          BY DEF Named
        <4> QED BY <4>1, OneDentry
      <3> QED BY <1>2, <3>1 DEF Texts
    <2>7. Source(tx[k])'
      <3>1. CASE IsText(d)
        <4>1. HasText(3, d.inode_num)'
          BY <2>2, <3>1, OpenedGood
        <4>2. Text(d.inode_num)' = tx[k] /\ d.inode_num \in K!Inode
          BY <1>0, <2>6, <3>1 DEF Text, TextOf, IsText
        <4> QED BY <4>1, <4>2 DEF Source
      <3>2. CASE ~IsText(d)
        <4>1. tx[k] = <<>>
          BY <2>6, <3>2 DEF TextOf
        <4>2. e.file_op = "rtc"
          BY <2>4, <2>5, <3>2
        <4> QED BY <2>2, <2>4, <4>1, <4>2 DEF Source
      <3> QED BY <3>1, <3>2
    <2>8. fds'[p][3].file_pos = 0 /\ pc' = "readfile"
      BY <1>0, <1>5, <2>2, <2>4
    <2>9. buf'[BUFSIZE] = Junk
      <3>1. buf \in [0 .. BUFSIZE -> Character] /\ BUFSIZE \in 0 .. BUFSIZE
        BY <1>1, Sizes DEF TypeInv, DataInv, BufSize
      <3> QED BY <1>0, <3>1
    <2> DEFINE prior == Concat(First(fn, k - 1))
               h == Hits(args, fname, tx[k])
    <2>10. Join(prior, Concat(First(h, 0))) = prior
      <3>1. k - 1 \in 0 .. Len(fn)
        BY Directory
      <3>2. prior \in Seq(E)
        BY <3>1, FirstSeq
      <3> HIDE DEF prior, h
      <3>3. prior \o <<>> = prior
        BY <3>2, ConcatEmptySeq
      <3> QED BY <3>3, FirstNone DEF Join
    <2>11. Hits(args, fname, tx[k])' = h
      BY <1>0 DEF Hits, OccursIn
    <2>12. out' = prior
      BY <1>0, <1>2
    <2>13. PICK hr : hr = h
      OBVIOUS
    <2>14. GrepAt(tx[k], 0, prior, hr)'
      <3> HIDE DEF prior, h
      <3>1. 0 - 0 = 0 /\ 0 + 0 = 0 /\ 0 <= 0 /\ 0 < BUFSIZE /\ ~\E i \in 0 .. 0 - 1 : TRUE
        BY BufSizes
      <3>2. out' = Join(prior, Concat(First(hr, 0)))
        BY <2>10, <2>12, <2>13
      <3> QED BY <1>0, <2>8, <2>9, <3>1, <3>2 DEF GrepAt
    <2>15. GrepAt(tx[k], fds[p][3].file_pos, Concat(First(fn, k - 1)), Hits(args, fname, tx[k]))'
      <3>1. Hits(args, fname, tx[k])' = hr
        BY <2>11, <2>13
      <3> QED BY <2>8, <2>14, <3>1 DEF GrepAt
    <2>16. fds'[p][2].file_pos = k /\ fname' = dir_entries[k].file_name
      BY <1>0, <1>2, <2>3
    <2> QED BY <1>2, <2>7, <2>8, <2>15, <2>16 DEF GrepPlace
  <1> QED BY <1>4, <1>5

LEMMA GrepCloseStep ==
  ASSUME TypeInv, NEW tx, NEW fn, GrepClose, GrepPlace(tx, fn)
  PROVE  GrepPlace(tx, fn)'
  <1>0. /\ pc = "closefile" /\ K!Close(p, file) /\ out' = out
        /\ pc' = IF reply'.ret = K!FAIL THEN "failed" ELSE "read"
    BY DEF GrepClose, ToClose
  <1>1. KernelInv /\ file = 3 /\ 2 \in K!Fd /\ 2 # 3 /\ 3 \in Int
    BY <1>0, FdFacts DEF TypeInv, DescriptorInv
  <1>2. fds'[p][2] = fds[p][2]
    BY <1>0, <1>1, CloseReply
  <1> QED BY <1>0, <1>2 DEF GrepPlace

LEMMA GrepReadStep ==
  ASSUME TypeInv, NEW tx, NEW fn, GrepRead, GrepPlace(tx, fn)
  PROVE  GrepPlace(tx, fn)'
  <1>0. /\ pc = "readfile" /\ cnt' = reply'.ret /\ line_start' = 0
        /\ buf' = Overlaid(buf, last, DataOf(reply'))
        /\ last' = IF reply'.ret = K!FAIL THEN last ELSE last + reply'.ret
        /\ pc' = IF reply'.ret = K!FAIL THEN "failed" ELSE "line"
        /\ UNCHANGED <<content, program, args, fname, out>>
        /\ K!Read(p, file, BUFSIZE - last)
    BY DEF GrepRead, launched, RestOfBuffer
  <1>1. KernelInv /\ file = 3 /\ program = "grep" /\ content \in Contents
    BY <1>0, Places DEF TypeInv, DescriptorInv, PlaceInv
  <1>2. /\ BUFSIZE \in Nat /\ BUFSIZE > 0 /\ last \in Nat /\ last <= BUFSIZE
        /\ buf \in [0 .. BUFSIZE -> Character]
    BY <1>1, BufSizes, Sizes DEF TypeInv, DataInv, BufSize
  <1>3. CASE reply'.ret = K!FAIL
    BY <1>0, <1>3 DEF GrepPlace
  <1>4. CASE reply'.ret # K!FAIL
    <2>1. PICK k \in DOMAIN dir_entries :
            /\ k = fds[p][2].file_pos /\ fname = dir_entries[k].file_name /\ Searched(dir_entries[k])
            /\ Source(tx[k])
            /\ GrepAt(tx[k], fds[p][3].file_pos, Concat(First(fn, k - 1)), Hits(args, fname, tx[k]))
      BY <1>0 DEF GrepPlace
    <2>2. PICK t : t = tx[k]
      OBVIOUS
    <2>3. PICK prior : prior = Concat(First(fn, k - 1))
      OBVIOUS
    <2>4. PICK h : h = Hits(args, fname, t)
      OBVIOUS
    <2> DEFINE n == BUFSIZE - last
    <2>5. n \in Nat /\ K!Read(p, 3, n) /\ Source(t)
      BY <1>0, <1>1, <1>2, <2>1, <2>2
    <2>6. \E pos \in 0 .. Len(t) : \E c \in 0 .. n :
           /\ fds[p][3].file_pos = pos /\ fds'[p][3].file_pos = pos + c
           /\ pos + c <= Len(t) /\ (c = n \/ pos + c = Len(t)) /\ reply'.ret = c
           /\ Source(t)' /\ fds'[p][2] = fds[p][2]
           /\ DataOf(reply') \in Seq(Sign) /\ Len(DataOf(reply')) = c
           /\ \A j \in 1 .. c : DataOf(reply')[j] = t[pos + j]
      <3> HIDE DEF n
      <3> QED BY <1>0, <1>1, <1>4, <2>5, SourceReply, SMTT(30)
    <2>7. PICK pos \in 0 .. Len(t) : \E c \in 0 .. n :
           /\ fds[p][3].file_pos = pos /\ fds'[p][3].file_pos = pos + c
           /\ pos + c <= Len(t) /\ (c = n \/ pos + c = Len(t)) /\ reply'.ret = c
           /\ Source(t)' /\ fds'[p][2] = fds[p][2]
           /\ DataOf(reply') \in Seq(Sign) /\ Len(DataOf(reply')) = c
           /\ \A j \in 1 .. c : DataOf(reply')[j] = t[pos + j]
      BY <2>6
    <2>8. PICK c \in 0 .. n :
           /\ fds[p][3].file_pos = pos /\ fds'[p][3].file_pos = pos + c
           /\ pos + c <= Len(t) /\ (c = n \/ pos + c = Len(t)) /\ reply'.ret = c
           /\ Source(t)' /\ fds'[p][2] = fds[p][2]
           /\ DataOf(reply') \in Seq(Sign) /\ Len(DataOf(reply')) = c
           /\ \A j \in 1 .. c : DataOf(reply')[j] = t[pos + j]
      BY <2>7
    <2>9. GrepAt(t, pos, prior, h)
      BY <2>1, <2>2, <2>3, <2>4, <2>8
    <2>10. PICK m \in Nat : m = last
      BY <1>2
    <2> DEFINE base == pos - m
    <2>11. /\ m <= pos /\ out = Join(prior, Concat(First(h, base)))
           /\ base \in {0, Len(t)} \/ t[base] = NL
           /\ \A i \in 0 .. m - 1 : buf[i] = t[base + i + 1]
           /\ buf[BUFSIZE] \in {Junk, Nul} /\ m < BUFSIZE
      <3>1. base + 0 = base
        BY <2>10
      <3> QED BY <1>0, <2>9, <2>10, <3>1 DEF GrepAt
    <2>12. /\ c \in Nat /\ m + c <= BUFSIZE /\ (m + c = BUFSIZE \/ pos + c = Len(t))
           /\ (pos + c) - (m + c) = base /\ m + c <= pos + c /\ base \in Nat
           /\ (c = 0 => pos + c = Len(t)) /\ Len(t) \in Int /\ pos \in Nat
      BY <1>2, <2>8, <2>10, <2>11
    <2>13. last' = m + c /\ cnt' = c /\ pc' = "line"
      BY <1>0, <1>4, <2>8, <2>10
    <2> DEFINE s == DataOf(reply')
               o == Overlaid(buf, m, s)
    <2>14. buf' = o /\ s \in Seq(Sign) /\ Len(s) = c /\ \A j \in 1 .. c : s[j] = t[pos + j]
      BY <1>0, <2>8, <2>10
    <2> HIDE DEF s
    <2>15. /\ \A i \in 0 .. BUFSIZE : i < m \/ m + c <= i => o[i] = buf[i]
           /\ \A j \in 1 .. c : o[m + j - 1] = s[j]
      <3>1. m + Len(s) <= BUFSIZE + 1
        BY <1>2, <2>12, <2>14
      <3>2. m \in Nat /\ BUFSIZE \in Nat /\ buf \in [0 .. BUFSIZE -> Character] /\ s \in Seq(Sign)
        BY <1>2, <2>14
      <3>3. /\ \A i \in 0 .. BUFSIZE : i < m \/ m + Len(s) <= i => o[i] = buf[i]
            /\ \A j \in 1 .. Len(s) : o[m + j - 1] = s[j]
        BY <3>1, <3>2, TextInBuffer, Zenon
      <3> HIDE DEF o
      <3> QED BY <2>14, <3>3
    <2> HIDE DEF o, base
    <2>16. ASSUME NEW i \in 0 .. (m + c) - 1 PROVE buf'[i] = t[base + i + 1]
      <3>1. CASE i < m
        <4>1. i \in 0 .. BUFSIZE /\ i \in 0 .. m - 1
          BY <1>2, <2>12, <3>1
        <4>2. o[i] = buf[i] /\ buf[i] = t[base + i + 1]
          BY <2>11, <2>15, <3>1, <4>1
        <4> QED BY <2>14, <4>2
      <3>2. CASE i >= m
        <4>1. /\ (i - m) + 1 \in 1 .. c /\ m + ((i - m) + 1) - 1 = i
              /\ pos + ((i - m) + 1) = base + i + 1
          BY <2>12, <3>2 DEF base
        <4>2. o[m + ((i - m) + 1) - 1] = s[(i - m) + 1] /\ s[(i - m) + 1] = t[pos + ((i - m) + 1)]
          BY <2>14, <2>15, <4>1
        <4> QED BY <2>14, <4>1, <4>2
      <3> QED BY <3>1, <3>2
    <2>17. buf'[BUFSIZE] \in {Junk, Nul}
      <3>1. BUFSIZE \in 0 .. BUFSIZE /\ m + c <= BUFSIZE
        BY <1>2, <2>12
      <3> QED BY <2>11, <2>14, <2>15, <3>1
    <2>18. GrepAt(t, pos + c, prior, h)'
      <3>1. 0 < m + c \/ (0 = 0 /\ m + c = 0)
        BY <2>12
      <3>2. base + 0 = base
        BY <2>12
      <3>3. /\ out' = Join(prior, Concat(First(h, base + 0)))
            /\ base + 0 \in {0, Len(t)} \/ t[base + 0] = NL
        BY <1>0, <2>11, <3>2
      <3>4. (pos + c) - last' = base /\ last' <= pos + c
        BY <2>12, <2>13
      <3>5. /\ line_start' < last' \/ (line_start' = 0 /\ last' = 0)
            /\ last' = BUFSIZE \/ pos + c = Len(t)
            /\ cnt' = 0 => pos + c = Len(t)
        BY <1>0, <2>12, <2>13, <3>1
      <3>6. \A i \in 0 .. last' - 1 : buf'[i] = t[base + i + 1]
        BY <2>13, <2>16
      <3> QED BY <1>0, <2>13, <2>17, <3>3, <3>4, <3>5, <3>6 DEF GrepAt
    <2>19. GrepAt(tx[k], fds[p][3].file_pos, Concat(First(fn, k - 1)), Hits(args, fname, tx[k]))'
      <3>1. Hits(args, fname, tx[k])' = h
        BY <1>0, <2>2, <2>4 DEF Hits, OccursIn
      <3>2. GrepAt(tx[k], pos + c, Concat(First(fn, k - 1)), h)'
        BY <2>2, <2>3, <2>18
      <3> QED BY <2>8, <3>1, <3>2 DEF GrepAt
    <2>20. /\ fds'[p][2].file_pos = k /\ fname' = dir_entries[k].file_name /\ Source(tx[k])'
      BY <1>0, <2>1, <2>2, <2>8
    <2> QED BY <2>1, <2>13, <2>19, <2>20 DEF GrepPlace
  <1> QED BY <1>3, <1>4

(* One turn of the loop over lines.                                         *)
LEMMA GrepTurn ==
  ASSUME TypeInv, GrepLine
  PROVE  \E ended \in EndSeen :
           \/ /\ Carries(ended)
              /\ buf' = Overlaid([buf EXCEPT ![LineEnd] = Nul], 0, Append(Line, Nul))
              /\ last' = last - line_start /\ pc' = UnlessEnd /\ out' = out
           \/ /\ ~Carries(ended) /\ buf' = [buf EXCEPT ![LineEnd] = Nul]
              /\ out' = IF OccursIn(args, Line) THEN Append(out, Said(<<fname, Line>>)) ELSE out
              /\ \/ LineEnd + 1 >= last /\ last' = 0 /\ pc' = UnlessEnd
                 \/ /\ ~(LineEnd + 1 >= last) /\ line_start' = LineEnd + 1
                    /\ last' = last /\ pc' = "line"
  <1>1. pc = "line"
    BY DEF GrepLine
  <1>2. PICK ended \in EndSeen :
       IF Carries(ended)
       THEN /\ buf' = Overlaid([buf EXCEPT ![LineEnd] = Nul], 0, Append(Line, Nul))
            /\ last' = last - line_start
            /\ pc' = UnlessEnd
            /\ UNCHANGED <<line_start, out>>
       ELSE /\ buf' = [buf EXCEPT ![LineEnd] = Nul]
            /\ out' = IF OccursIn(args, Line)
                      THEN Append(out, Said(<<fname, Line>>)) ELSE out
            /\ IF LineEnd + 1 >= last
               THEN last' = 0 /\ pc' = UnlessEnd /\ UNCHANGED line_start
               ELSE line_start' = LineEnd + 1 /\ UNCHANGED <<last, pc>>
    BY DEF GrepLine
  <1>3. CASE Carries(ended)
    BY <1>2, <1>3
  <1>4. CASE ~Carries(ended)
    <2>1. CASE LineEnd + 1 >= last
      BY <1>2, <1>4, <2>1
    <2>2. CASE ~(LineEnd + 1 >= last)
      BY <1>1, <1>2, <1>4, <2>2
    <2> QED BY <2>1, <2>2
  <1> QED BY <1>3, <1>4

(* A line that begins in a text and fits does not fill the buffer.          *)
LEMMA LineFits ==
  ASSUME NEW t, Len(t) \in Nat, Fit(t), NEW done \in 0 .. Len(t) - 1, done = 0 \/ t[done] = NL,
         done + BUFSIZE <= Len(t)
  PROVE  \E x \in done + 1 .. done + BUFSIZE : t[x] = NL
  <1> DEFINE i == done + 1
  <1>1. i \in 1 .. Len(t) /\ i - 1 = done /\ BUFSIZE \in Nat /\ BUFSIZE > 0
    BY BufSizes, Sizes
  <1>2. i = 1 \/ t[i - 1] = NL
    OBVIOUS
  <1> HIDE DEF i
  <1>3. PICK j \in i - 1 .. Len(t) : LineOf(t, i, j)
    BY <1>1, <1>2, LineExists
  <1>4. j - i + 1 < BUFSIZE
    <2>1. j \in 0 .. Len(t)
      BY <1>1
    <2> QED BY <1>1, <1>3, <2>1 DEF Fit
  <1>5. j + 1 \in i .. (i - 1) + BUFSIZE /\ j # Len(t)
    BY <1>1, <1>4
  <1>6. t[j + 1] = NL
    BY <1>3, <1>5 DEF LineOf
  <1> QED BY <1>5, <1>6 DEF i

LEMMA AddedMore ==
  ASSUME NEW E, NEW prior \in Seq(E), NEW c \in Seq(E), NEW name, NEW l, Report(name, l) \in E
  PROVE  Added(Join(prior, c), name, l) = Join(prior, Join(c, Found(args, name, l)))
  <1>1. Join(prior, c) \in Seq(E)
    BY ConcatProperties DEF Join
  <1>2. Added(Join(prior, c), name, l) = Join(Join(prior, c), Found(args, name, l))
    BY <1>1, FoundOut
  <1>3. Found(args, name, l) \in Seq(E)
    <2> DEFINE x == Said(<<name, l>>)
    <2>1. x \in E
      BY DEF Report
    <2> HIDE DEF x
    <2> QED BY <2>1 DEF Found, x
  <1>4. Join(Join(prior, c), Found(args, name, l)) = Join(prior, Join(c, Found(args, name, l)))
    BY <1>3, ConcatAssociative DEF Join
  <1> QED BY <1>2, <1>4

(* The line behind done in the k-th text ends at e, and next is behind it.  *)
Ending(tx, k, done, e, next, l) ==
  LET t == tx[k]
  IN /\ Len(t) \in Nat /\ done \in 0 .. Len(t) - 1 /\ e \in done .. Len(t)
     /\ LineOf(t, done + 1, e) /\ l = SubSeq(t, done + 1, e)
     /\ next \in done + 1 .. e + 1 /\ next <= Len(t)

(* What has been written when this text has been searched up to done, and   *)
(* what becomes of it with a line.                                           *)
Reported(tx, k, prior, done) ==
  Join(prior, Concat(First(Hits(args, dir_entries[k].file_name, tx[k]), done)))
With(o, k, l) == Added(o, dir_entries[k].file_name, l)

(* Writing a line that holds the pattern keeps account of the text up to    *)
(* the end of the line.                                                      *)
LEMMA ReportLine ==
  ASSUME NEW tx, NEW k \in DOMAIN dir_entries, NEW prior \in Seq(Reports(tx)),
         NEW done, NEW e, NEW next, NEW l, Ending(tx, k, done, e, next, l)
  PROVE  With(Reported(tx, k, prior, done), k, l) = Reported(tx, k, prior, next)
  <1>0. /\ Len(tx[k]) \in Nat /\ done \in 0 .. Len(tx[k]) - 1 /\ e \in done .. Len(tx[k])
        /\ LineOf(tx[k], done + 1, e) /\ next \in done + 1 .. e + 1 /\ next <= Len(tx[k])
        /\ l = SubSeq(tx[k], done + 1, e)
    BY DEF Ending
  <1> DEFINE name == dir_entries[k].file_name
             E == Reports(tx)
             h == Hits(args, name, tx[k])
  <1>1. h \in Seq(Seq(E)) /\ Len(h) = Len(tx[k])
    BY <1>0, HitsSeq
  <1>2. PICK t : t = tx[k]
    OBVIOUS
  <1>3. Report(name, l) \in E
    <2>1. done + 1 \in 1 .. Len(t) /\ e \in (done + 1) - 1 .. Len(t) /\ done + 1 \in Nat
      BY <1>0, <1>2
    <2>2. LineAt(t, done + 1) = l
      <3> DEFINE i == done + 1
      <3>1. Len(t) \in Nat /\ i \in 1 .. Len(t) /\ e \in i - 1 .. Len(t) /\ LineOf(t, i, e) /\ l = SubSeq(t, i, e)
        BY <1>0, <1>2, <2>1
      <3> HIDE DEF i
      <3>2. LineAt(t, i) = l
        BY <1>2, <3>1, LineAtIs
      <3> QED BY <3>2 DEF i
    <2>3. Report(dir_entries[k].file_name, LineAt(tx[k], done + 1)) \in Reports(tx)
      BY <2>1, ReportsHas
    <2> QED BY <1>2, <2>2, <2>3
  <1> DEFINE c == Concat(First(h, done))
             f == Found(args, name, l)
  <1>4. Concat(First(h, next)) = Join(c, f)
    <2>1. h = Hits(args, name, t) /\ Len(h) = Len(t)
      BY <1>1, <1>2
    <2>3. /\ Hits(args, name, t) \in Seq(Seq(E)) /\ Len(Hits(args, name, t)) = Len(t)
          /\ Len(t) \in Nat /\ done \in 0 .. Len(t) - 1 /\ e \in done .. Len(t)
          /\ LineOf(t, done + 1, e) /\ next \in done + 1 .. e + 1 /\ next <= Len(t)
      BY <1>0, <1>1, <1>2
    <2> HIDE DEF h, E
    <2>2. Concat(First(Hits(args, name, t), next))
            = Join(Concat(First(Hits(args, name, t), done)), Found(args, name, SubSeq(t, done + 1, e)))
      BY <2>3, NextHit
    <2> QED BY <1>0, <1>2, <2>1, <2>2
  <1>5. c \in Seq(E)
    <2>1. done \in 0 .. Len(h)
      BY <1>0, <1>1
    <2> HIDE DEF h, E
    <2> QED BY <1>1, <2>1, FirstSeq
  <1>6. prior \in Seq(E) /\ Report(name, l) \in E
    BY <1>3
  <1>7. Added(Join(prior, c), name, l) = Join(prior, Join(c, f))
    <2> HIDE DEF E, c, name
    <2>1. Added(Join(prior, c), name, l) = Join(prior, Join(c, Found(args, name, l)))
      BY <1>5, <1>6, AddedMore
    <2> QED BY <2>1
  <1>8. Reported(tx, k, prior, done) = Join(prior, c)
        /\ Reported(tx, k, prior, next) = Join(prior, Concat(First(h, next)))
    BY DEF Reported
  <1> HIDE DEF c, f, h, name
  <1> QED BY <1>4, <1>7, <1>8 DEF name, With

(* When a text has been read to its end, so has its entry.                  *)
LEMMA WholeText ==
  ASSUME NEW tx, \A j \in DOMAIN dir_entries : Len(tx[j]) \in Nat, NEW k \in DOMAIN dir_entries,
         Searched(dir_entries[k])
  PROVE  LET fn == Finds(args, tx)
             h == Hits(args, dir_entries[k].file_name, tx[k])
         IN /\ Concat(First(fn, k - 1)) \in Seq(Reports(tx))
            /\ Concat(First(fn, k)) = Join(Concat(First(fn, k - 1)), Concat(First(h, Len(tx[k]))))
  <1> DEFINE fn == Finds(args, tx)
             h == Hits(args, dir_entries[k].file_name, tx[k])
             E == Reports(tx)
  <1>1. fn \in Seq(Seq(E)) /\ Len(fn) = Len(dir_entries) /\ fn[k] = Concat(h)
    <2>1. fn[k] = Concat(h)
      BY DEF Finds
    <2> QED BY <2>1, FindsSeq
  <1>2. h \in Seq(Seq(E)) /\ Len(h) = Len(tx[k])
    BY HitsSeq
  <1>3. k - 1 \in 0 .. Len(dir_entries) /\ k - 1 \in 0 .. Len(dir_entries) - 1 /\ (k - 1) + 1 = k
    BY Directory
  <1> HIDE DEF fn, h, E
  <1>4. Concat(First(fn, k - 1)) \in Seq(E)
    BY <1>1, <1>3, FirstSeq
  <1>5. Concat(First(fn, k)) = Concat(First(fn, k - 1)) \o fn[k]
    <2> DEFINE j == k - 1
    <2>1. j \in 0 .. Len(fn) - 1 /\ j + 1 = k
      BY <1>1, <1>3
    <2> HIDE DEF j
    <2>2. Concat(First(fn, j + 1)) = Concat(First(fn, j)) \o fn[j + 1]
      BY <1>1, <2>1, FirstMore
    <2> QED BY <2>1, <2>2 DEF j
  <1>6. First(h, Len(tx[k])) = h
    <2>1. First(h, Len(h)) = h
      BY <1>2, FirstAll
    <2> QED BY <1>2, <2>1
  <1> QED BY <1>1, <1>4, <1>5, <1>6 DEF fn, h, E, Join

LEMMA NoneInNothing ==
  ASSUME NEW l, Len(l) = 0, args \in Seq(CHAR) PROVE ~OccursIn(args, l)
  <1>1. CASE args = <<>>
    BY <1>1 DEF OccursIn
  <1>2. CASE args # <<>>
    <2>1. Len(args) \in Nat /\ Len(args) # 0
      BY <1>2, EmptySeq
    <2>2. ~\E i \in 0 .. Len(l) - Len(args) : TRUE
      BY <2>1
    <2> QED BY <2>2 DEF OccursIn
  <1> QED BY <1>1, <1>2

(* Where grep is with the text t, in numbers: pos characters are read, the  *)
(* buffer's m are the last of them, and its line from s ends at e.           *)
Turn(t, pos, base, s, m, e) ==
  /\ Len(t) \in Nat /\ pos \in Nat /\ base \in Nat /\ s \in Nat /\ m \in Nat /\ e \in s .. m
  /\ pos = base + m /\ pos <= Len(t) /\ m <= BUFSIZE /\ m = last /\ s = line_start /\ e = LineEnd
  /\ base + s \in {0, Len(t)} \/ t[base + s] = NL
  /\ \A i \in s .. m - 1 : buf[i] = t[base + i + 1]
  /\ buf[BUFSIZE] \in {Junk, Nul}
  /\ s < m \/ (s = 0 /\ m = 0)
  /\ m = BUFSIZE \/ pos = Len(t)
  /\ cnt = 0 => pos = Len(t)
  /\ buf \in [0 .. BUFSIZE -> Character] /\ BUFSIZE \in Nat /\ BUFSIZE > 0

LEMMA SourceText ==
  ASSUME KernelInv, NEW t, Source(t)
  PROVE  /\ Len(t) \in Nat /\ fds[p][3].file_pos \in Nat /\ fds[p][3].file_pos <= Len(t)
         /\ t = <<>> \/ \E i \in K!Inode : t = Text(i)
  <1>1. fds[p][3].file_pos \in Nat
    BY FdFacts, Positions
  <1>2. CASE fds[p][3].file_op = "rtc" /\ fds[p][3].flags = 1 /\ fds[p][3].file_pos = 0 /\ t = <<>>
    BY <1>2
  <1>3. CASE \E i \in K!Inode : HasText(3, i) /\ t = Text(i)
    <2>1. PICK i \in K!Inode : HasText(3, i) /\ t = Text(i)
      BY <1>3
    <2>2. Len(t) \in Nat /\ Len(t) = index_nodes[i].length
      BY <2>1, Inodes
    <2> QED BY <1>1, <2>1, <2>2 DEF HasText
  <1> QED BY <1>2, <1>3 DEF Source

LEMMA TurnIs ==
  ASSUME TypeInv, GrepLine, NEW t, Source(t), NEW prior, NEW h, GrepAt(t, fds[p][3].file_pos, prior, h)
  PROVE  \E pos, base, s, m, e : /\ Turn(t, pos, base, s, m, e) /\ pos = fds[p][3].file_pos
                                 /\ out = Join(prior, Concat(First(h, base + s)))
  <1>0. pc = "line"
    BY DEF GrepLine
  <1>1. KernelInv /\ program = "grep"
    BY <1>0, Places DEF TypeInv
  <1>2. /\ BUFSIZE \in Nat /\ BUFSIZE > 0 /\ last \in Nat /\ last <= BUFSIZE
        /\ line_start \in Nat /\ line_start <= last
        /\ buf \in [0 .. BUFSIZE -> Character]
    BY <1>0, <1>1, BufSizes, Sizes DEF TypeInv, DataInv, BufSize
  <1>3. PICK pos : pos = fds[p][3].file_pos
    OBVIOUS
  <1>4. Len(t) \in Nat /\ pos \in Nat /\ pos <= Len(t)
    BY <1>1, <1>3, SourceText
  <1>5. PICK s, m, e : s = line_start /\ m = last /\ e = LineEnd
    OBVIOUS
  <1>6. e \in s .. m
    BY <1>2, <1>5, LineEndFacts
  <1>7. /\ m <= pos /\ out = Join(prior, Concat(First(h, (pos - m) + s)))
        /\ (pos - m) + s \in {0, Len(t)} \/ t[(pos - m) + s] = NL
        /\ \A i \in s .. m - 1 : buf[i] = t[(pos - m) + i + 1]
        /\ buf[BUFSIZE] \in {Junk, Nul}
        /\ s < m \/ (s = 0 /\ m = 0)
        /\ m = BUFSIZE \/ pos = Len(t)
        /\ cnt = 0 => pos = Len(t)
    BY <1>0, <1>3, <1>5 DEF GrepAt
  <1>8. PICK base : base = pos - m
    OBVIOUS
  <1>9. base \in Nat /\ pos = base + m
    BY <1>2, <1>4, <1>5, <1>7, <1>8
  <1>10. Turn(t, pos, base, s, m, e)
    BY <1>2, <1>4, <1>5, <1>6, <1>7, <1>8, <1>9 DEF Turn
  <1> QED BY <1>3, <1>7, <1>8, <1>10

(* What the buffer shows of the text.                                       *)
LEMMA TurnLine ==
  ASSUME NEW t, NEW pos, NEW base, NEW s, NEW m, NEW e, Turn(t, pos, base, s, m, e)
  PROVE  /\ e # m => buf[e] = NL /\ t[base + e + 1] = NL
         /\ \A x \in base + s + 1 .. base + e : t[x] # NL
         /\ (e # m \/ pos = Len(t)) /\ base + s < Len(t) =>
              LineOf(t, base + s + 1, base + e)
         /\ Line = SubSeq(t, base + s + 1, base + e)
  <1>0. /\ Len(t) \in Nat /\ base \in Nat /\ s \in Nat /\ m \in Nat /\ e \in s .. m
        /\ pos = base + m /\ base + m <= Len(t) /\ s = line_start /\ m = last /\ e = LineEnd
        /\ base + s \in {0, Len(t)} \/ t[base + s] = NL
        /\ \A i \in s .. m - 1 : buf[i] = t[base + i + 1]
    BY DEF Turn
  <1>1. (e = m \/ buf[e] = NL) /\ \A i \in s .. e - 1 : buf[i] # NL
    BY <1>0, LineEndFacts
  <1>2. e # m => buf[e] = NL /\ t[base + e + 1] = NL
    <2> SUFFICES ASSUME e # m PROVE buf[e] = NL /\ t[base + e + 1] = NL
      OBVIOUS
    <2>1. e \in s .. m - 1
      BY <1>0
    <2> QED BY <1>0, <1>1, <2>1
  <1>3. ASSUME NEW x \in base + s + 1 .. base + e PROVE t[x] # NL
    <2>1. x - base - 1 \in s .. e - 1 /\ x - base - 1 \in s .. m - 1 /\ base + (x - base - 1) + 1 = x
      BY <1>0
    <2>2. buf[x - base - 1] # NL /\ buf[x - base - 1] = t[base + (x - base - 1) + 1]
      BY <1>0, <1>1, <2>1
    <2> QED BY <2>1, <2>2
  <1>4. ASSUME e # m \/ base + m = Len(t), base + s < Len(t)
        PROVE  LineOf(t, base + s + 1, base + e)
    <2>1. base + s + 1 <= (base + e) + 1
      BY <1>0
    <2>2. base + s + 1 = 1 \/ t[(base + s + 1) - 1] = NL
      <3>1. base + s = 0 \/ t[base + s] = NL
        BY <1>0, <1>4
      <3>2. (base + s + 1) - 1 = base + s
        BY <1>0
      <3> QED BY <1>0, <3>1, <3>2
    <2>3. base + e = Len(t) \/ t[(base + e) + 1] = NL
      <3>1. (base + e) + 1 = base + e + 1
        BY <1>0
      <3> QED BY <1>0, <1>2, <1>4, <3>1
    <2> QED BY <1>3, <2>1, <2>2, <2>3 DEF LineOf
  <1>5. Line = SubSeq(t, base + s + 1, base + e)
    <2>1. Line = [i \in 1 .. e - s |-> buf[s + i - 1]]
      BY <1>0 DEF Line
    <2>2. ASSUME NEW i \in 1 .. e - s PROVE buf[s + i - 1] = t[base + s + i]
      <3>1. s + i - 1 \in s .. m - 1 /\ base + (s + i - 1) + 1 = base + s + i
        BY <1>0
      <3> QED BY <1>0, <3>1
    <2>3. SubSeq(t, base + s + 1, base + e)
            = [i \in 1 .. (base + e) - (base + s + 1) + 1 |-> t[(base + s + 1) + i - 1]]
      BY <1>0, SMTT(30)
    <2>4. (base + e) - (base + s + 1) + 1 = e - s /\ \A i \in Int : (base + s + 1) + i - 1 = base + s + i
      BY <1>0
    <2>5. SubSeq(t, base + s + 1, base + e) = [i \in 1 .. e - s |-> t[base + s + i]]
      BY <1>0, <2>3, <2>4
    <2> QED BY <2>1, <2>2, <2>5
  <1> QED BY <1>0, <1>1, <1>2, <1>3, <1>4, <1>5

(* A turn of the k-th text that sees the end of the line; next is behind it. *)
TurnTo(tx, k, prior, pos, base, s, m, e, next) ==
  /\ Turn(tx[k], pos, base, s, m, e) /\ out = Reported(tx, k, prior, base + s)
  /\ (e # m /\ next = base + e + 1) \/ (e = m /\ pos = Len(tx[k]) /\ next = pos)

(* What grep reports of a line whose end it has seen.                       *)
LEMMA TurnReport ==
  ASSUME NEW tx, NEW k \in DOMAIN dir_entries, NEW prior \in Seq(Reports(tx)), args \in Seq(CHAR),
         NEW pos, NEW base, NEW s, NEW m, NEW e, NEW next,
         TurnTo(tx, k, prior, pos, base, s, m, e, next)
  PROVE  With(out, k, Line) = Reported(tx, k, prior, next)
  <1> USE DEF TurnTo
  <1>0. /\ Len(tx[k]) \in Nat /\ pos \in Nat /\ base \in Nat /\ s \in Nat /\ m \in Nat /\ e \in s .. m
        /\ pos = base + m /\ pos <= Len(tx[k]) /\ (s < m \/ (s = 0 /\ m = 0))
    BY DEF Turn
  <1>1. PICK t, done, f, l : t = tx[k] /\ done = base + s /\ f = base + e /\ l = Line
    OBVIOUS
  <1>2. CASE done < Len(tx[k])
    <2>1. Len(t) \in Nat /\ done \in Nat /\ f \in Nat /\ done < Len(t) /\ done <= f /\ f <= Len(t)
      BY <1>0, <1>1, <1>2
    <2>2. next \in Nat /\ done + 1 <= next /\ next <= f + 1 /\ next <= Len(t)
      <3>1. CASE e # m /\ next = base + e + 1
        BY <1>0, <1>1, <3>1
      <3>2. CASE e = m /\ pos = Len(t) /\ next = pos
        BY <1>0, <1>1, <2>1, <3>2
      <3> QED BY <1>1, <3>1, <3>2
    <2>3. LineOf(t, done + 1, f) /\ l = SubSeq(t, done + 1, f)
      <3>1. Turn(t, pos, base, s, m, e) /\ (e # m \/ pos = Len(t)) /\ base + s < Len(t)
        BY <1>1, <1>2
      <3>2. /\ LineOf(t, base + s + 1, base + e)
            /\ Line = SubSeq(t, base + s + 1, base + e)
        BY <3>1, TurnLine
      <3> QED BY <1>1, <3>2
    <2>4. Ending(tx, k, done, f, next, l)
      BY <1>1, <2>1, <2>2, <2>3 DEF Ending
    <2>6. With(Reported(tx, k, prior, done), k, l) = Reported(tx, k, prior, next)
      BY <2>4, ReportLine
    <2> QED BY <1>1, <2>6
  <1>3. CASE ~(done < Len(tx[k]))
    <2>1. s = 0 /\ m = 0 /\ e = 0 /\ next = base + s
      BY <1>0, <1>1, <1>3
    <2>2. Len(Line) = 0
      <3>1. e = LineEnd /\ s = line_start
        BY DEF Turn
      <3>2. Line = [i \in 1 .. 0 - 0 |-> buf[0 + i - 1]]
        BY <2>1, <3>1 DEF Line
      <3> QED BY <3>2
    <2>3. ~OccursIn(args, Line)
      BY <2>2, NoneInNothing
    <2> QED BY <2>1, <2>3 DEF Added, With
  <1> QED BY <1>2, <1>3

(* A line whose end is not in the buffer does not begin there.              *)
LEMMA TurnSplit ==
  ASSUME NEW t, NEW pos, NEW base, NEW s, NEW m, NEW e, Turn(t, pos, base, s, m, e),
         t = <<>> \/ Fit(t), e = m, pos # Len(t)
  PROVE  m = BUFSIZE /\ cnt # 0 /\ s # 0
  <1>0. /\ Len(t) \in Nat /\ pos \in Nat /\ base \in Nat /\ s \in Nat /\ m \in Nat /\ e \in s .. m
        /\ pos = base + m /\ pos <= Len(t) /\ BUFSIZE \in Nat /\ BUFSIZE > 0
        /\ (m = BUFSIZE \/ pos = Len(t)) /\ (cnt = 0 => pos = Len(t))
        /\ base + s \in {0, Len(t)} \/ t[base + s] = NL
    BY DEF Turn
  <1>1. m = BUFSIZE /\ cnt # 0
    BY <1>0
  <1>2. ASSUME s = 0 PROVE FALSE
    <2>1. base \in 0 .. Len(t) - 1 /\ base + BUFSIZE <= Len(t) /\ base + s = base
      BY <1>0, <1>1, <1>2
    <2>2. base = 0 \/ t[base] = NL
      <3>1. base # Len(t)
        BY <1>0, <2>1
      <3> QED BY <1>0, <2>1, <3>1
    <2>3. Fit(t)
      BY <1>0
    <2>4. PICK x \in base + 1 .. base + BUFSIZE : t[x] = NL
      BY <1>0, <2>1, <2>2, <2>3, LineFits
    <2>5. x \in base + s + 1 .. base + e
      BY <1>0, <1>1, <1>2, <2>4
    <2>6. t[x] # NL
      BY <2>5, TurnLine
    <2> QED BY <2>4, <2>6
  <1> QED BY <1>1, <1>2

(* Where a turn leaves grep with the text t, of which pos are read.          *)
Stands(t, pos, prior, h) ==
  \/ pc' \in {"readfile", "line"} /\ GrepAt(t, pos, prior, h)'
  \/ pc' = "closefile" /\ out' = Join(prior, Concat(First(h, Len(t))))

(* The buffer is used up.                                                   *)
LEMMA TurnEmptied ==
  ASSUME NEW t, NEW pos, NEW prior, NEW h, NEW base, NEW s, NEW m, NEW e,
         Turn(t, pos, base, s, m, e), out' = Join(prior, Concat(First(h, pos))),
         pos = Len(t) \/ t[pos] = NL, last' = 0, pc' = UnlessEnd, buf'[BUFSIZE] \in {Junk, Nul}
  PROVE  Stands(t, pos, prior, h)
  <1>0. pos \in Nat /\ (cnt = 0 => pos = Len(t)) /\ BUFSIZE \in Nat /\ BUFSIZE > 0
    BY DEF Turn
  <1>1. CASE cnt = 0
    BY <1>0, <1>1 DEF Stands, UnlessEnd
  <1>2. CASE cnt # 0
    <2>1. pc' = "readfile"
      BY <1>2 DEF UnlessEnd
    <2>2. /\ 0 <= pos /\ 0 < BUFSIZE /\ (pos - 0) + 0 = pos /\ \A i \in 0 .. 0 - 1 : FALSE
      BY <1>0
    <2>3. GrepAt(t, pos, prior, h)'
      BY <2>1, <2>2 DEF GrepAt
    <2> QED BY <2>1, <2>3 DEF Stands
  <1> QED BY <1>1, <1>2

(* There is more in it.                                                     *)
MovesOn(prior, h, base, m, e) ==
  /\ e + 1 < m /\ buf' = [buf EXCEPT ![e] = Nul] /\ line_start' = e + 1 /\ last' = m /\ pc' = "line"
  /\ cnt' = cnt /\ out' = Join(prior, Concat(First(h, base + e + 1)))

LEMMA TurnOn ==
  ASSUME NEW t, NEW pos, NEW prior, NEW h, NEW base, NEW s, NEW m, NEW e,
         Turn(t, pos, base, s, m, e), MovesOn(prior, h, base, m, e)
  PROVE  Stands(t, pos, prior, h)
  <1>0. /\ pos \in Nat /\ base \in Nat /\ s \in Nat /\ m \in Nat /\ e \in s .. m /\ pos = base + m
        /\ m <= BUFSIZE /\ \A i \in s .. m - 1 : buf[i] = t[base + i + 1]
        /\ buf[BUFSIZE] \in {Junk, Nul} /\ (m = BUFSIZE \/ pos = Len(t)) /\ (cnt = 0 => pos = Len(t))
        /\ buf \in [0 .. BUFSIZE -> Character] /\ BUFSIZE \in Nat
        /\ e + 1 < m /\ e # m
    BY DEF Turn, MovesOn
  <1>1. t[base + e + 1] = NL
    <2>1. e # m => buf[e] = NL /\ t[base + e + 1] = NL
      BY TurnLine
    <2> QED BY <1>0, <2>1
  <1>2. PICK next : next = e + 1
    OBVIOUS
  <1>3. /\ next \in Nat /\ next < m /\ m <= pos /\ (pos - m) + next = base + e + 1 /\ pos - m = base
    BY <1>0, <1>2
  <1>4. buf'[BUFSIZE] = buf[BUFSIZE]
    <2>1. BUFSIZE \in 0 .. BUFSIZE /\ BUFSIZE # e
      BY <1>0
    <2> QED BY <1>0, <2>1 DEF MovesOn
  <1>5. ASSUME NEW i \in next .. m - 1 PROVE buf'[i] = t[base + i + 1]
    <2>1. i \in s .. m - 1 /\ i # e /\ i \in 0 .. BUFSIZE
      BY <1>0, <1>2
    <2>2. buf'[i] = buf[i] /\ buf[i] = t[base + i + 1]
      BY <1>0, <2>1 DEF MovesOn
    <2> QED BY <2>2
  <1>6. line_start' = next /\ out' = Join(prior, Concat(First(h, (pos - m) + next)))
        /\ t[(pos - m) + next] = NL
    BY <1>1, <1>2, <1>3 DEF MovesOn
  <1>7. \A i \in next .. m - 1 : buf'[i] = t[(pos - m) + i + 1]
    BY <1>3, <1>5
  <1>8. last' = m /\ pc' = "line" /\ cnt' = cnt
    BY DEF MovesOn
  <1>9. GrepAt(t, pos, prior, h)'
    BY <1>0, <1>8, <1>3, <1>4, <1>6, <1>7 DEF GrepAt
  <1> QED BY <1>8, <1>9 DEF Stands

(* The line is not all there and moves to the front.                        *)
CarriesOn(prior, h, base, s, m, e) ==
  /\ e = m /\ s # 0 /\ cnt # 0 /\ last' = m - s /\ pc' = "readfile" /\ out' = out
  /\ out = Join(prior, Concat(First(h, base + s)))
  /\ buf' = Overlaid([buf EXCEPT ![e] = Nul], 0, Append(Line, Nul))

LEMMA TurnCarried ==
  ASSUME NEW t, NEW pos, NEW prior, NEW h, NEW base, NEW s, NEW m, NEW e,
         Turn(t, pos, base, s, m, e), CarriesOn(prior, h, base, s, m, e)
  PROVE  Stands(t, pos, prior, h)
  <1>0. /\ pos \in Nat /\ base \in Nat /\ s \in Nat /\ m \in Nat /\ pos = base + m
        /\ m <= BUFSIZE /\ \A i \in s .. m - 1 : buf[i] = t[base + i + 1]
        /\ buf[BUFSIZE] \in {Junk, Nul} /\ s < m /\ e = LineEnd /\ s = line_start
        /\ base + s \in {0, Len(t)} \/ t[base + s] = NL
        /\ buf \in [0 .. BUFSIZE -> Character] /\ BUFSIZE \in Nat
        /\ e = m /\ s # 0
    BY DEF Turn, CarriesOn
  <1>1. PICK n, start : n = m - s /\ start = base + s
    OBVIOUS
  <1>2. /\ n \in Nat /\ n < BUFSIZE /\ n + 1 <= BUFSIZE /\ n <= pos /\ start \in Nat
        /\ pos - n = start /\ start + 0 = start
    BY <1>0, <1>1
  <1>3. PICK l : l = Line
    OBVIOUS
  <1>4. l = [i \in 1 .. n |-> buf[s + i - 1]]
    BY <1>0, <1>1, <1>3 DEF Line
  <1>5. ASSUME NEW i \in 1 .. n PROVE l[i] = t[start + i] /\ l[i] \in Character
    <2>1. s + i - 1 \in s .. m - 1 /\ s + i - 1 \in 0 .. BUFSIZE /\ base + (s + i - 1) + 1 = start + i
      BY <1>0, <1>1
    <2>2. l[i] = buf[s + i - 1]
      BY <1>4
    <2> QED BY <1>0, <2>1, <2>2
  <1>6. l \in Seq(Character) /\ Len(l) = n
    BY <1>2, <1>4, <1>5
  <1> DEFINE q == Append(l, Nul)
             b == [buf EXCEPT ![e] = Nul]
  <1>7. q \in Seq(Character) /\ Len(q) = n + 1 /\ \A i \in 1 .. n : q[i] = l[i]
    BY <1>6, Signs, AppendProperties
  <1>8. b \in [0 .. BUFSIZE -> Character] /\ b[BUFSIZE] \in {Junk, Nul}
    <2>1. BUFSIZE \in 0 .. BUFSIZE
      BY <1>0
    <2> QED BY <1>0, <2>1, Signs
  <1>9. buf' = Overlaid(b, 0, q)
    BY <1>3 DEF CarriesOn
  <1> HIDE DEF q, b
  <1>10. ASSUME NEW i \in 0 .. BUFSIZE
         PROVE  /\ 0 + Len(q) <= i => Overlaid(b, 0, q)[i] = b[i]
                /\ 0 <= i /\ i < 0 + Len(q) => Overlaid(b, 0, q)[i] = q[i - 0 + 1]
    <2>1. 0 \in Nat /\ BUFSIZE \in Nat
      BY <1>0
    <2>2. PICK w : w = BUFSIZE
      OBVIOUS
    <2>3. w \in Nat /\ b \in [0 .. w -> Character] /\ i \in 0 .. w /\ q \in Seq(Character)
      BY <1>7, <1>8, <2>1, <2>2
    <2> QED BY <2>1, <2>3, OverlaidType
  <1>11. buf'[BUFSIZE] \in {Junk, Nul}
    <2>1. BUFSIZE \in 0 .. BUFSIZE /\ 0 + Len(q) <= BUFSIZE
      BY <1>0, <1>2, <1>7
    <2> QED BY <1>8, <1>9, <1>10, <2>1
  <1>12. ASSUME NEW i \in 0 .. n - 1 PROVE buf'[i] = t[start + i + 1]
    <2>1. i \in 0 .. BUFSIZE /\ 0 <= i /\ i < 0 + Len(q) /\ i - 0 + 1 = i + 1 /\ i + 1 \in 1 .. n
          /\ start + (i + 1) = start + i + 1
      BY <1>0, <1>2, <1>7
    <2>2. buf'[i] = q[i + 1]
      BY <1>9, <1>10, <2>1
    <2>3. q[i + 1] = l[i + 1] /\ l[i + 1] = t[start + (i + 1)]
      BY <1>5, <1>7, <2>1
    <2> QED BY <2>1, <2>2, <2>3
  <1>13. /\ last' = n /\ out' = Join(prior, Concat(First(h, start)))
         /\ start \in {0, Len(t)} \/ t[start] = NL
    BY <1>0, <1>1 DEF CarriesOn
  <1>14. pc' = "readfile"
    BY DEF CarriesOn
  <1>15. GrepAt(t, pos, prior, h)'
    <2>1. out' = Join(prior, Concat(First(h, (pos - n) + 0)))
      BY <1>2, <1>13
    <2>2. (pos - n) + 0 \in {0, Len(t)} \/ t[(pos - n) + 0] = NL
      BY <1>2, <1>13
    <2>3. \A i \in 0 .. n - 1 : buf'[i] = t[(pos - n) + i + 1]
      BY <1>2, <1>12
    <2>4. last' = n /\ n <= pos /\ n < BUFSIZE
      BY <1>2, <1>13
    <2> QED BY <1>11, <1>14, <2>1, <2>2, <2>3, <2>4 DEF GrepAt
  <1> QED BY <1>14, <1>15 DEF Stands

(* A turn, whichever it is; what follows a text that never came is not read *)
(* as a line end.                                                            *)
LEMMA TurnStands ==
  ASSUME TypeInv, GrepLine, "clean" \in Rules, NEW tx, NEW k \in DOMAIN dir_entries,
         NEW prior \in Seq(Reports(tx)), NEW pos, NEW base, NEW s, NEW m, NEW e,
         Turn(tx[k], pos, base, s, m, e), tx[k] = <<>> \/ Fit(tx[k]),
         out = Reported(tx, k, prior, base + s), fname = dir_entries[k].file_name
  PROVE  Stands(tx[k], pos, prior, Hits(args, dir_entries[k].file_name, tx[k]))
  <1>1. PICK t, h : t = tx[k] /\ h = Hits(args, dir_entries[k].file_name, tx[k])
    OBVIOUS
  <1>2. Turn(t, pos, base, s, m, e) /\ (t = <<>> \/ Fit(t))
    BY <1>1
  <1>3. \A d : Reported(tx, k, prior, d) = Join(prior, Concat(First(h, d)))
    BY <1>1 DEF Reported
  <1>4. /\ Len(t) \in Nat /\ pos \in Nat /\ base \in Nat /\ s \in Nat /\ m \in Nat /\ e \in s .. m
        /\ pos = base + m /\ pos <= Len(t) /\ m <= BUFSIZE /\ m = last /\ s = line_start /\ e = LineEnd
        /\ buf[BUFSIZE] \in {Junk, Nul} /\ buf \in [0 .. BUFSIZE -> Character] /\ BUFSIZE \in Nat
    BY <1>2 DEF Turn
  <1>5. args \in Seq(CHAR) /\ cnt' = cnt
    BY DEF TypeInv, PlaceInv, GrepLine
  <1>6. PICK ended \in EndSeen :
          \/ /\ Carries(ended)
             /\ buf' = Overlaid([buf EXCEPT ![LineEnd] = Nul], 0, Append(Line, Nul))
             /\ last' = last - line_start /\ pc' = UnlessEnd /\ out' = out
          \/ /\ ~Carries(ended) /\ buf' = [buf EXCEPT ![LineEnd] = Nul]
             /\ out' = IF OccursIn(args, Line) THEN Append(out, Said(<<fname, Line>>)) ELSE out
             /\ \/ LineEnd + 1 >= last /\ last' = 0 /\ pc' = UnlessEnd
                \/ /\ ~(LineEnd + 1 >= last) /\ line_start' = LineEnd + 1
                   /\ last' = last /\ pc' = "line"
    BY GrepTurn
  <1>7. e # m => buf[e] = NL /\ t[base + e + 1] = NL
    BY <1>2, TurnLine
  <1>8. e # m => ended = TRUE
    <2> SUFFICES ASSUME e # m PROVE ended = TRUE
      OBVIOUS
    <2>1. buf[LineEnd] = NL /\ NL # Junk
      BY <1>4, <1>7, TextAssumption
    <2> QED BY <1>6, <2>1 DEF EndSeen
  <1>9. e = m /\ m = BUFSIZE => ended = FALSE
    <2> SUFFICES ASSUME e = m, m = BUFSIZE PROVE ended = FALSE
      OBVIOUS
    <2>1. LineEnd = BUFSIZE /\ buf[LineEnd] \in {Junk, Nul} /\ Nul # NL
      BY <1>4, TextAssumption
    <2> QED BY <1>6, <2>1 DEF EndSeen
  <1>10. buf' = [buf EXCEPT ![e] = Nul] => buf'[BUFSIZE] \in {Junk, Nul}
    <2>1. BUFSIZE \in 0 .. BUFSIZE
      BY <1>4
    <2> QED BY <1>4, <2>1
  <1>11. CASE Carries(ended)
    <2>1. ended = FALSE /\ cnt # 0 /\ line_start # 0
      BY <1>11 DEF Carries
    <2>2. e = m /\ s # 0
      BY <1>4, <1>8, <2>1
    <2>3. /\ buf' = Overlaid([buf EXCEPT ![e] = Nul], 0, Append(Line, Nul))
          /\ last' = m - s /\ pc' = "readfile" /\ out' = out
      BY <1>4, <1>6, <1>11, <2>1 DEF UnlessEnd
    <2>4. out = Join(prior, Concat(First(h, base + s)))
      BY <1>3
    <2>5. CarriesOn(prior, h, base, s, m, e)
      BY <2>1, <2>2, <2>3, <2>4 DEF CarriesOn
    <2>6. Stands(t, pos, prior, h)
      BY <1>2, <2>5, TurnCarried
    <2> QED BY <1>1, <2>6
  <1>12. CASE ~Carries(ended)
    <2>1. /\ buf' = [buf EXCEPT ![e] = Nul] /\ out' = With(out, k, Line)
          /\ \/ e + 1 >= m /\ last' = 0 /\ pc' = UnlessEnd
             \/ /\ ~(e + 1 >= m) /\ line_start' = e + 1 /\ last' = m /\ pc' = "line"
      BY <1>4, <1>6, <1>12 DEF With, Added
    <2>2. e # m \/ pos = Len(t)
      <3> SUFFICES ASSUME e = m, pos # Len(t) PROVE FALSE
        OBVIOUS
      <3>1. m = BUFSIZE /\ cnt # 0 /\ s # 0
        BY <1>2, TurnSplit
      <3>2. ended = FALSE /\ line_start # 0
        BY <1>4, <1>9, <3>1
      <3> QED BY <1>12, <3>1, <3>2 DEF Carries
    <2>3. PICK next : (e # m /\ next = base + e + 1) \/ (e = m /\ pos = Len(tx[k]) /\ next = pos)
      BY <1>1, <2>2
    <2>4. out' = Reported(tx, k, prior, next)
      <3>1. TurnTo(tx, k, prior, pos, base, s, m, e, next)
        BY <2>3 DEF TurnTo
      <3>2. With(out, k, Line) = Reported(tx, k, prior, next)
        BY <1>5, <3>1, TurnReport
      <3> QED BY <2>1, <3>2
    <2>5. out' = Join(prior, Concat(First(h, next)))
      BY <1>3, <2>4
    <2>6. CASE e + 1 >= m
      <3>1. last' = 0 /\ pc' = UnlessEnd
        BY <2>1, <2>6
      <3>2. next = pos /\ (pos = Len(t) \/ t[pos] = NL)
        <4>1. CASE e # m
          <5>1. e + 1 = m /\ base + e + 1 = pos
            BY <1>4, <2>6, <4>1
          <5> QED BY <1>7, <2>3, <4>1, <5>1
        <4>2. CASE e = m
          BY <1>1, <2>3, <4>2
        <4> QED BY <4>1, <4>2
      <3>3. Stands(t, pos, prior, h)
        BY <1>2, <1>10, <2>1, <2>5, <3>1, <3>2, TurnEmptied
      <3> QED BY <1>1, <3>3
    <2>7. CASE ~(e + 1 >= m)
      <3>1. line_start' = e + 1 /\ last' = m /\ pc' = "line" /\ e + 1 < m /\ e # m
        BY <1>4, <2>1, <2>7
      <3>2. out' = Join(prior, Concat(First(h, base + e + 1)))
        BY <2>3, <2>5, <3>1
      <3>3. MovesOn(prior, h, base, m, e)
        BY <1>5, <2>1, <3>1, <3>2 DEF MovesOn
      <3>4. Stands(t, pos, prior, h)
        BY <1>2, <3>3, TurnOn
      <3> QED BY <1>1, <3>4
    <2> QED BY <2>6, <2>7
  <1> QED BY <1>11, <1>12

LEMMA GrepLineStep ==
  ASSUME TypeInv, "clean" \in Rules, \A i \in K!Inode : Fit(Text(i)),
         NEW tx, \A j \in DOMAIN dir_entries : Len(tx[j]) \in Nat, NEW fn, fn = Finds(args, tx),
         GrepLine, GrepPlace(tx, fn)
  PROVE  GrepPlace(tx, fn)'
  <1>0. pc = "line" /\ UNCHANGED <<content, program, args, fds, fname>>
    BY DEF GrepLine, kernel, launched
  <1>1. PICK k \in DOMAIN dir_entries :
          /\ k = fds[p][2].file_pos /\ fname = dir_entries[k].file_name /\ Searched(dir_entries[k])
          /\ Source(tx[k])
          /\ GrepAt(tx[k], fds[p][3].file_pos, Concat(First(fn, k - 1)), Hits(args, fname, tx[k]))
    BY <1>0 DEF GrepPlace
  <1>2. PICK t, prior, h : /\ t = tx[k] /\ prior = Concat(First(fn, k - 1))
                           /\ h = Hits(args, dir_entries[k].file_name, tx[k])
    OBVIOUS
  <1>3. Source(t) /\ GrepAt(t, fds[p][3].file_pos, prior, h)
    BY <1>1, <1>2
  <1>4. PICK pos, base, s, m, e : /\ Turn(t, pos, base, s, m, e) /\ pos = fds[p][3].file_pos
                                  /\ out = Join(prior, Concat(First(h, base + s)))
    BY <1>3, TurnIs
  <1>5. /\ Concat(First(fn, k - 1)) \in Seq(Reports(tx))
        /\ Concat(First(fn, k)) = Join(Concat(First(fn, k - 1)), Concat(First(h, Len(t))))
    BY <1>1, <1>2, WholeText
  <1>6. t = <<>> \/ Fit(t)
    <2>1. KernelInv
      BY DEF TypeInv
    <2> QED BY <1>3, <2>1, SourceText
  <1>7. Stands(t, pos, prior, h)
    <2>1. out = Reported(tx, k, prior, base + s)
      BY <1>2, <1>4 DEF Reported
    <2>2. /\ Turn(tx[k], pos, base, s, m, e) /\ (tx[k] = <<>> \/ Fit(tx[k]))
          /\ prior \in Seq(Reports(tx))
      BY <1>2, <1>4, <1>5, <1>6
    <2>3. Stands(tx[k], pos, prior, Hits(args, dir_entries[k].file_name, tx[k]))
      BY <1>1, <2>1, <2>2, TurnStands
    <2> QED BY <1>2, <2>3
  <1>8. CASE pc' \in {"readfile", "line"} /\ GrepAt(t, pos, prior, h)'
    <2>1. Source(tx[k])'
      BY <1>0, <1>1, SourceKept
    <2>2. Hits(args, fname, tx[k])' = h
      <3>1. h = Hits(args, fname, tx[k])
        BY <1>1, <1>2
      <3>2. Hits(args, fname, tx[k])' = Hits(args, fname, tx[k])
        BY <1>0 DEF Hits, OccursIn
      <3> QED BY <3>1, <3>2
    <2>3. GrepAt(tx[k], fds[p][3].file_pos, Concat(First(fn, k - 1)), Hits(args, fname, tx[k]))'
      <3>1. GrepAt(tx[k], pos, Concat(First(fn, k - 1)), h)'
        BY <1>2, <1>8
      <3>2. fds'[p][3].file_pos = pos
        BY <1>0, <1>4
      <3> QED BY <2>2, <3>1, <3>2 DEF GrepAt
    <2>4. fds'[p][2].file_pos = k /\ fname' = dir_entries[k].file_name
      BY <1>0, <1>1
    <2> QED BY <1>1, <1>8, <2>1, <2>3, <2>4 DEF GrepPlace
  <1>9. CASE pc' = "closefile" /\ out' = Join(prior, Concat(First(h, Len(t))))
    <2>1. fds'[p][2].file_pos = k /\ fname' = dir_entries[k].file_name
      BY <1>0, <1>1
    <2>2. out' = Concat(First(fn, k))
      BY <1>2, <1>5, <1>9
    <2> QED BY <1>1, <1>9, <2>1, <2>2 DEF GrepPlace
  <1> QED BY <1>7, <1>8, <1>9 DEF Stands

LEMMA GrepStep ==
  ASSUME "clean" \in Rules, "lines" \in Rules
  PROVE  TypeInv /\ GrepInv /\ [Next]_vars => GrepInv'
  <1> SUFFICES ASSUME TypeInv, GrepInv, [Next]_vars, program = "grep" PROVE GrepInv'
    BY LaunchedKept DEF GrepInv
  <1>1. UNCHANGED <<content, program, args>>
    BY LaunchedKept
  <1>2. PICK tx, fn : tx = Texts /\ fn = Finds(args, tx)
    OBVIOUS
  <1>3. Texts' = tx /\ \A j \in DOMAIN dir_entries : Len(tx[j]) \in Nat
    BY <1>1, <1>2, TextsKept
  <1>4. Finds(args, Texts)' = fn
    <2>1. Finds(args, tx)' = Finds(args, tx)
      BY <1>1
    <2> QED BY <1>2, <1>3, <2>1 DEF Finds, Hits
  <1>5. (\A i \in K!Inode : Fit(Text(i))) /\ (\A i \in K!Inode : Fit(Text(i)))'
    <2>1. \A i \in K!Inode : Fit(Text(i))
      BY DEF GrepInv
    <2>2. ASSUME NEW i \in K!Inode PROVE Fit(Text(i))'
      <3>1. PICK t : t = Text(i)
        OBVIOUS
      <3>2. Text(i)' = t /\ Fit(t)
        BY <1>1, <2>1, <3>1 DEF Text
      <3>3. Fit(t)'
        BY <3>2 DEF Fit, LineOf
      <3> QED BY <3>2, <3>3 DEF Fit, LineOf
    <2> QED BY <2>1, <2>2
  <1>6. GrepPlace(tx, fn)
    BY <1>2 DEF GrepInv
  <1>7. PICK E : fn \in Seq(Seq(E)) /\ Len(fn) = Len(dir_entries)
    BY <1>2, <1>3, FindsSeq
  <1>8. \A k \in DOMAIN dir_entries : ~Searched(dir_entries[k]) => fn[k] = <<>>
    BY <1>2 DEF Finds
  <1>9. GrepPlace(tx, fn)'
    <2>1. pc \in {"getargs", "open", "read", "openfile", "readfile", "line", "closefile", "ok", "failed"}
      BY DEF TypeInv, PlaceInv, Phases
    <2>2. CASE UNCHANGED vars
      <3>1. UNCHANGED <<content, program, args, pc, fds, out, cnt, last, line_start, buf, fname>>
        BY <2>2 DEF vars, kernel, launched, buffer
      <3>2. CASE pc \in {"readfile", "line"}
        <4>1. PICK k \in DOMAIN dir_entries :
                /\ k = fds[p][2].file_pos /\ fname = dir_entries[k].file_name
                /\ Searched(dir_entries[k]) /\ Source(tx[k])
                /\ GrepAt(tx[k], fds[p][3].file_pos, Concat(First(fn, k - 1)), Hits(args, fname, tx[k]))
          BY <1>6, <3>2 DEF GrepPlace
        <4>2. Source(tx[k])'
          BY <3>1, <4>1, SourceKept
        <4>3. PICK pos, prior, h : /\ pos = fds[p][3].file_pos /\ prior = Concat(First(fn, k - 1))
                                   /\ h = Hits(args, fname, tx[k])
          OBVIOUS
        <4>4. Hits(args, fname, tx[k])' = h
          BY <3>1, <4>3 DEF Hits, OccursIn
        <4>5. GrepAt(tx[k], pos, prior, h)'
          <5>1. GrepAt(tx[k], pos, prior, h)
            BY <4>1, <4>3
          <5> QED BY <3>1, <5>1 DEF GrepAt
        <4>6. GrepAt(tx[k], fds[p][3].file_pos, Concat(First(fn, k - 1)), Hits(args, fname, tx[k]))'
          <5>1. GrepAt(tx[k], pos, Concat(First(fn, k - 1)), h)'
            BY <4>3, <4>5
          <5>2. fds'[p][3].file_pos = pos
            BY <3>1, <4>3
          <5> QED BY <4>4, <5>1, <5>2 DEF GrepAt
        <4> QED BY <3>1, <3>2, <4>1, <4>2, <4>6 DEF GrepPlace
      <3>3. CASE pc \notin {"readfile", "line"}
        BY <1>6, <3>1, <3>3 DEF GrepPlace
      <3> QED BY <3>2, <3>3
    <2>3. ~CatRead /\ ~LsRead /\ ~WriteBuffer /\ ~Syserr
      BY <2>1 DEF CatRead, LsRead, WriteBuffer, Syserr, Is, Choose, TestDone, TestRead, TestWrite,
                  TestClose, TestOpen, TestLots, TestShut, TestVidmap, TestCall, Syscall
    <2>4. CASE GetArgs
      BY <1>6, <2>4, GrepGetArgs
    <2>5. CASE OpenFirst
      BY <1>6, <2>5, GrepOpenFirst
    <2>6. CASE GrepName
      BY <1>6, <1>7, <1>8, <2>6, GrepNameStep
    <2>7. CASE GrepOpen
      BY <1>2, <1>6, <1>7, <2>7, GrepOpenStep
    <2>8. CASE GrepRead
      BY <1>6, <2>8, GrepReadStep
    <2>9. CASE GrepLine
      BY <1>2, <1>3, <1>5, <1>6, <2>9, GrepLineStep
    <2>10. CASE GrepClose
      BY <1>6, <2>10, GrepCloseStep
    <2> QED BY <2>2, <2>3, <2>4, <2>5, <2>6, <2>7, <2>8, <2>9, <2>10 DEF Next, CatOrLs, Grep
  <1>10. GrepPlace(Texts, Finds(args, Texts))'
    BY <1>3, <1>4, <1>9 DEF GrepPlace
  <1> QED BY <1>5, <1>10 DEF GrepInv

(* grep reports, file by file and in order, exactly the lines that hold the *)
(* pattern, wherever the ends of its buffer cut them: for every image, text *)
(* and pattern, and every buffer into which the lines fit and behind which  *)
(* no line end lies.                                                         *)
THEOREM GrepCorrect ==
  ASSUME "clean" \in Rules, "lines" \in Rules
  PROVE  Spec => []GrepFinds
  <1>1. GrepInv => GrepFinds
    BY DEF GrepInv, GrepPlace, GrepFinds, Is
  <1>2. TypeInv /\ GrepInv /\ [Next]_vars => GrepInv'
    BY GrepStep
  <1> QED BY <1>1, <1>2, TypeInvariant, GrepInit, TypeStep, PTL DEF Spec
=============================================================================
