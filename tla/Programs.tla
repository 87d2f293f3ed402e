------------------------------ MODULE Programs ------------------------------
(* User programs on the kernel's file table (src/syscalls): cat, ls, grep   *)
(* and the tests of syserr.  Every system call of a program is an action of *)
(* FileTable; the program goes on from what the call replied.  A text file  *)
(* holds no zero byte.                                                       *)
EXTENDS Integers, Sequences, FiniteSets
S == INSTANCE SequencesExt

CONSTANTS
  BLOCKSIZE, MAX_NAME_LENGTH, MAX_BLOCKS, CHAR, num_inodes, num_data_blocks,
  dir_entries, index_nodes, Pid, NFD, Screens, Names, Numbers, Requests,
  Overrun, WORD, NULL,          \* see FileSystem and FileTable
  BUFSIZE,                      \* of cat's and grep's buffers, 1024
  NL, Nul, Junk,                 \* line end, zero byte, byte never written
  Contents,                     \* what the blocks may hold
  Dot,                          \* the directory's name
  Launches,                     \* programs and their arguments
  Rules                         \* what is assumed, see below

VARIABLES
  live, fds, reply,             \* see FileTable
  content,                      \* the character at <<block, index>>, never written
  program, args,                \* what was launched
  pc,                           \* where the program is
  fd, file,                     \* its descriptors of the directory and a file
  fname, buf,                   \* the name and the buffer last read
  cnt, last, line_start,        \* grep's variables of these names
  out,                          \* what it has written: asked for and shown
  test, call, all,              \* syserr: the test, its next call, all in a row
  refused,                      \* how many calls of the test have failed
  bad                           \* the tests that did not pass

K == INSTANCE FileTable

kernel == <<live, fds, reply>>
launched == <<content, program, args>>
buffer == <<buf, cnt, last, line_start>>
tests == <<test, call, all, refused, bad>>
vars == <<kernel, launched, pc, fd, file, fname, buffer, out, tests>>

p == CHOOSE q \in Pid : TRUE
Text(i) == [x \in 1..index_nodes[i].length |-> content[K!ByteAt(i, x - 1)]]
Character == CHAR \cup {NL, Nul, Junk}

(* clean: the byte behind grep's buffer, never written, is not a line end    *)
(* lines: every line, with its end, fits into grep's buffer                  *)
ASSUME ProgramsAssumption ==
  /\ BUFSIZE \in Nat /\ BUFSIZE >= MAX_NAME_LENGTH /\ NFD \in Nat /\ NFD >= 4
  /\ \E q \in Pid : Pid = {q}
  /\ Rules \subseteq {"clean", "lines"}

(* The image is as createfs makes it: a name is neither empty nor fills its  *)
(* field, and a directory's name begins with the dot, which names one.       *)
ASSUME ImageAssumption ==
  /\ K!SizesAssumption /\ K!DirectoryAssumption /\ K!InodesAssumption
  /\ K!TableAssumption /\ K!WordAssumption /\ K!NamesTerminated
  /\ \A i \in DOMAIN dir_entries :
       LET d == dir_entries[i]
       IN /\ d.file_name # <<>>
          /\ d.file_name = Dot => d.file_type = K!DIRECTORY
          /\ d.file_type = K!DIRECTORY => Head(d.file_name) = Head(Dot)
ASSUME TextAssumption ==
  /\ NL \notin CHAR /\ Nul \notin CHAR /\ Junk \notin CHAR
  /\ NL # Nul /\ NL # Junk /\ Nul # Junk
  /\ \E c \in CHAR : Dot = <<c>>
  /\ Contents \subseteq [(0..num_data_blocks - 1) \X (0..BLOCKSIZE - 1) -> CHAR \cup {NL}]
  /\ \A l \in Launches : /\ l.program \in {"cat", "ls", "grep", "syserr"}
                         /\ l.args \in Seq(CHAR)

Status == {"getargs", "open", "read", "write", "openfile", "readfile", "line",
           "closefile", "choose", "run", "ok", "failed"}

(* Which lines of a file hold the pattern, and whether a buffer holds all.  *)
LineOf(t, i, j) ==
  /\ i <= j + 1
  /\ \A k \in i..j : t[k] # NL
  /\ i = 1 \/ t[i - 1] = NL
  /\ j = Len(t) \/ t[j + 1] = NL
Fit(t) == \A i \in 1..Len(t), j \in 0..Len(t) : LineOf(t, i, j) => j - i + 1 < BUFSIZE

Init ==
  /\ live = {p}
  /\ \E s \in Screens : fds = [q \in Pid |-> K!Fresh(q, s)]
  /\ reply = K!Reply([op |-> "none"], 0, K!NoBytes)
  /\ content \in Contents
  /\ \E l \in Launches : program = l.program /\ args = l.args
  /\ "lines" \in Rules /\ program = "grep" => \A i \in K!Inode : Fit(Text(i))
  /\ pc = CASE program = "syserr" -> "choose" [] program = "ls" -> "open" [] OTHER -> "getargs"
  /\ fd = 0 /\ file = 0 /\ fname = <<>>
  /\ buf = [i \in 0..(IF program = "ls" THEN MAX_NAME_LENGTH
                      ELSE IF program = "cat" THEN BUFSIZE - 1 ELSE BUFSIZE) |-> Junk]
  /\ cnt = 0 /\ last = 0 /\ line_start = 0
  /\ out = <<>>
  /\ test = 1 /\ call = 1 /\ all = FALSE /\ refused = 0 /\ bad = {}
-----------------------------------------------------------------------------
(* Buffers.  terminal_write ignores the count it is given and writes up to *)
(* the first zero byte, which a byte that was never written may be too.     *)
Overlaid(b, at, s) ==
  [i \in DOMAIN b |-> IF i \in at..at + Len(s) - 1 THEN s[i - at + 1] ELSE b[i]]
StrLens(b) ==
  {k \in DOMAIN b : b[k] \in {Nul, Junk} /\ \A i \in 0..k - 1 : b[i] # Nul}
  \cup IF \A i \in DOMAIN b : b[i] # Nul
       THEN {Cardinality(DOMAIN b) + o : o \in Overrun} ELSE {}
Shown(b, k) == [i \in 1..k |-> IF i - 1 \in DOMAIN b THEN b[i - 1] ELSE Junk]

Wrote(n) ==
  \E k \in StrLens(buf) : out' = Append(out, [asked |-> n, shown |-> Shown(buf, k)])

Said(s) == [asked |-> Len(s), shown |-> s]

(* The characters of a read's reply; dir_read pads a name with zeros up to *)
(* the bytes it was asked for, at most 32.                                   *)
DataOf(r) == [k \in 1..Cardinality(DOMAIN r.data) |-> content[r.data[k - 1]]]
NameOf(r) == [k \in 1..Cardinality(DOMAIN r.data) |-> r.data[k - 1]]
Unpadded(s) == s  \* slip
Padded(s) == [k \in 1..MAX_NAME_LENGTH |-> IF k <= Len(s) THEN s[k] ELSE Nul]

(* What the loops over reads do with a reply. *)
After(r, next) ==
  IF r = 0 THEN "ok" ELSE IF r = K!FAIL THEN "failed" ELSE next

Is(prog, place) == program = prog /\ pc = place
-----------------------------------------------------------------------------
(* cat *)
GetArgs ==
  /\ pc = "getargs"
  /\ pc' = "open"
  /\ buf' = IF program = "cat" THEN Overlaid([i \in DOMAIN buf |-> Nul], 0, args) ELSE buf
  /\ UNCHANGED <<kernel, launched, fd, file, fname, cnt, last, line_start, out>>

OpenFirst ==
  /\ pc = "open"
  /\ K!Open(p, IF program = "cat" THEN args ELSE Dot)
  /\ fd' = reply'.ret
  /\ pc' = IF reply'.ret = K!FAIL THEN "failed" ELSE "read"
  /\ UNCHANGED <<launched, file, fname, buffer, out>>

AfterShortRead(r) == IF r < BUFSIZE THEN After(0, "write") ELSE "write"  \* slip
AfterCatRead(r) == After(r, "write")

CatRead ==
  /\ Is("cat", "read")
  /\ K!Read(p, fd, BUFSIZE)
  /\ cnt' = reply'.ret
  /\ buf' = IF fds[p][fd].file_op # "dir" THEN Overlaid(buf, 0, DataOf(reply'))
            ELSE IF reply'.ret = 0 THEN buf
            ELSE Overlaid(buf, 0, Padded(NameOf(reply')))
  /\ pc' = AfterCatRead(reply'.ret)
  /\ UNCHANGED <<launched, fd, file, fname, last, line_start, out>>

WriteBuffer ==
  /\ pc = "write"
  /\ K!Write(p, 1, cnt) /\ reply'.ret = cnt
  /\ Wrote(cnt)
  /\ pc' = "read"
  /\ UNCHANGED <<launched, fd, file, fname, buffer>>

(* ls *)

LsRead ==
  /\ Is("ls", "read")
  /\ K!Read(p, fd, MAX_NAME_LENGTH)
  /\ LET r == reply'.ret
     IN IF r > 0 THEN /\ cnt' = r + 1
                      /\ buf' = [Overlaid(buf, 0, Padded(NameOf(reply'))) EXCEPT ![r] = NL]
        ELSE cnt' = r /\ UNCHANGED buf
  /\ pc' = After(reply'.ret, "write")
  /\ UNCHANGED <<launched, fd, file, fname, last, line_start, out>>
-----------------------------------------------------------------------------
(* grep, whose writes leave the kernel's state alone *)
GrepName ==
  /\ Is("grep", "read")
  /\ K!Read(p, fd, MAX_NAME_LENGTH)
  /\ LET r == reply'.ret
         s == NameOf(reply')
     IN /\ fname' = s
        /\ pc' = After(r, IF Head(s) = Head(Dot) THEN "read" ELSE "openfile")
  /\ UNCHANGED <<launched, fd, file, buffer, out>>

GrepOpen ==
  /\ pc = "openfile"
  /\ K!Open(p, fname)
  /\ file' = reply'.ret
  /\ pc' = IF reply'.ret = K!FAIL THEN "failed" ELSE "readfile"
  /\ last' = 0
  /\ buf' = [i \in DOMAIN buf |-> Junk]
  /\ UNCHANGED <<launched, fd, fname, cnt, line_start, out>>

WholeBuffer == BUFSIZE  \* slip
RestOfBuffer == BUFSIZE - last

GrepRead ==
  /\ pc = "readfile"
  /\ K!Read(p, file, RestOfBuffer)
  /\ cnt' = reply'.ret
  /\ buf' = Overlaid(buf, last, DataOf(reply'))
  /\ last' = IF reply'.ret = K!FAIL THEN last ELSE last + reply'.ret
  /\ line_start' = 0
  /\ pc' = IF reply'.ret = K!FAIL THEN "failed" ELSE "line"
  /\ UNCHANGED <<launched, fd, file, fname, out>>

(* One turn of the loop over lines: the end of the line, and whether the   *)
(* byte there is a line end.                                                 *)
LineEnd ==
  CHOOSE e \in line_start..last :
    /\ e = last \/ buf[e] = NL
    /\ \A i \in line_start..e - 1 : buf[i] # NL
EndSeen ==
  IF buf[LineEnd] # Junk THEN {buf[LineEnd] = NL}
  ELSE IF "clean" \in Rules /\ LineEnd = BUFSIZE THEN {FALSE} ELSE BOOLEAN

Line == [i \in 1..LineEnd - line_start |-> buf[line_start + i - 1]]
OccursIn(s, t) ==
  s # <<>> /\ \E i \in 0..Len(t) - Len(s) : \A k \in 1..Len(s) : t[i + k] = s[k]

CarriesNever(ended) == FALSE  \* slip
Carries(ended) == ~ended /\ cnt # 0 /\ line_start # 0

ReadOn == "readfile"  \* slip
UnlessEnd == IF cnt = 0 THEN "closefile" ELSE "readfile"

GrepLine ==
  /\ pc = "line"
  /\ \E ended \in EndSeen :
       IF Carries(ended)
       THEN /\ buf' = Overlaid([buf EXCEPT ![LineEnd] = Nul], 0, Append(Line, Nul))
            /\ last' = last - line_start
            /\ pc' = UnlessEnd
            /\ UNCHANGED <<line_start, out>>
       ELSE /\ buf' = [buf EXCEPT ![LineEnd] = Nul]
            /\ out' = IF OccursIn(args, Line)
                      THEN Append(out, Said(<<fname, Line>>)) ELSE out
            /\ IF LineEnd + 1 >= last
               THEN last' = 0 /\ pc' = UnlessEnd /\ UNCHANGED line_start
               ELSE line_start' = LineEnd + 1 /\ UNCHANGED <<last, pc>>
  /\ UNCHANGED <<kernel, launched, fd, file, fname, cnt>>

ToClose == file
GrepClose ==
  /\ pc = "closefile"
  /\ K!Close(p, ToClose)
  /\ pc' = IF reply'.ret = K!FAIL THEN "failed" ELSE "read"
  /\ UNCHANGED <<launched, fd, file, fname, buffer, out>>
-----------------------------------------------------------------------------
(* syserr: each test is a sequence of calls that must fail, but for the    *)
(* opens of err_open_lots, of which one must, and its closes.               *)
NEG == -1073741823
BIG == 1073741823
Each(op, from, to) == [i \in 1..to - from + 1 |-> [op |-> op, arg |-> from + i - 1]]
OPEN_LOTS == 3
OpenLots == [i \in 1..7 |-> [op |-> "lots", arg |-> 0]]
CloseLots == [i \in 1..6 |-> [op |-> "shut", arg |-> i + 1]]
One(op, arg) == <<[op |-> op, arg |-> arg]>>

Test ==
  << One("read", NEG) \o One("write", NEG) \o One("close", NEG),
     One("read", BIG) \o One("write", BIG) \o One("close", BIG),
     OpenLots \o CloseLots,
     One("open", 1) \o One("open", 2) \o One("open", 3),
     Each("close", 0, NFD - 1) \o Each("read", 2, NFD - 1) \o Each("write", 2, NFD - 1),
     One("vidmap", 0) \o One("vidmap", 4),
     One("write", 0) \o One("read", 1),
     One("call", BIG) \o One("call", NEG) \o One("call", 0) >>

(* A name one letter too long, one too short, and none. *)
NearMiss(i) ==
  LET name == dir_entries[2].file_name
  IN CASE i = 1 -> Append(name, Head(name))
       [] i = 2 -> SubSeq(name, 1, Len(name) - 1)
       [] i = 3 -> <<>>

(* The image the tests are written for: the array has eight descriptors,    *)
(* the directory is in it and the names that are nearly right are not.       *)
ASSUME SyserrAssumption ==
  (\E l \in Launches : l.program = "syserr") =>
    /\ NFD = 8 /\ K!read_dentry_by_name(Dot) # {}
    /\ \A i \in 1..3 : K!read_dentry_by_name(NearMiss(i)) = {}

(* vidmap takes a pointer into the program's page only, here in megabytes; *)
(* syscall_handler a number between 1 and 10.                                *)
vidmapFails(mb) == mb < 128 \/ mb >= 132
CallFails(n) == n < 1 \/ n > 10

(* main reads the number of a test, 0 for all of them, from the keyboard.   *)
Choose ==
  /\ Is("syserr", "choose")
  /\ K!Read(p, 0, 127)
  /\ \E select \in 0..Len(Test) :
       /\ all' = (select = 0)
       /\ test' = IF select = 0 THEN 1 ELSE select
  /\ pc' = "run"
  /\ UNCHANGED <<launched, fd, file, fname, buffer, out, call, refused, bad>>

NextCall(fails) ==
  /\ refused' = IF fails THEN refused + 1 ELSE refused
  /\ call' = call + 1
  /\ UNCHANGED <<pc, test, all, bad>>

Syscall(op) ==
  /\ Is("syserr", "run") /\ call <= Len(Test[test]) /\ Test[test][call].op = op
  /\ UNCHANGED <<launched, fd, file, fname, buffer, out>>
Arg == Test[test][call].arg

TestRead == Syscall("read") /\ K!Read(p, Arg, 31) /\ NextCall(reply'.ret = K!FAIL)
TestWrite == Syscall("write") /\ K!Write(p, Arg, 31) /\ NextCall(reply'.ret = K!FAIL)
TestClose == Syscall("close") /\ K!Close(p, Arg) /\ NextCall(reply'.ret = K!FAIL)
TestOpen == Syscall("open") /\ K!Open(p, NearMiss(Arg)) /\ NextCall(reply'.ret = K!FAIL)
TestLots == Syscall("lots") /\ K!Open(p, Dot) /\ NextCall(reply'.ret = K!FAIL)
TestShut == Syscall("shut") /\ K!Close(p, Arg) /\ NextCall(FALSE)
TestVidmap == Syscall("vidmap") /\ UNCHANGED kernel /\ NextCall(vidmapFails(Arg))
TestCall == Syscall("call") /\ UNCHANGED kernel /\ NextCall(CallFails(Arg))

(* Every call must have failed; of the opens in a row only the last. *)
Passes == refused = IF test = OPEN_LOTS THEN 1 ELSE Len(Test[test])

TestDone ==
  /\ Is("syserr", "run") /\ call > Len(Test[test])
  /\ bad' = IF Passes THEN bad ELSE bad \cup {test}
  /\ call' = 1 /\ refused' = 0
  /\ IF all /\ test < Len(Test) THEN test' = test + 1 /\ UNCHANGED pc
     ELSE pc' = "ok" /\ UNCHANGED test
  /\ UNCHANGED <<kernel, launched, fd, file, fname, buffer, out, all>>
-----------------------------------------------------------------------------
CatOrLs == OpenFirst \/ CatRead \/ LsRead \/ WriteBuffer
Grep == GetArgs \/ GrepName \/ GrepOpen \/ GrepRead \/ GrepLine \/ GrepClose
Syserr == \/ Choose \/ TestDone \/ TestRead \/ TestWrite \/ TestClose \/ TestOpen
          \/ TestLots \/ TestShut \/ TestVidmap \/ TestCall

Next ==
  \/ (CatOrLs \/ Grep) /\ UNCHANGED tests
  \/ Syserr

Spec == Init /\ [][Next]_vars /\ WF_vars(Next)
-----------------------------------------------------------------------------
Ended == pc \in {"ok", "failed"}
Opens(d) == K!Opened(d, K!Blank) # {}
IsText(d) == d.file_type = K!FILE /\ d.inode_num \in K!Inode
TextOf(d) == IF IsText(d) THEN Text(d.inode_num) ELSE <<>>
Damaged(d) == IsText(d) /\ \E x \in 0..index_nodes[d.inode_num].length - 1 :
                              ~K!Intact(d.inode_num, x)
Concat(ss) == S!FlattenSeq(ss)
AskedFor(w) == SubSeq(w.shown, 1, w.asked)
Written == Concat([i \in DOMAIN out |-> AskedFor(out[i])])

(* Every variable keeps its type. *)
TypeOK ==
  /\ K!TypeOK
  /\ pc \in Status
  /\ fd \in Int /\ file \in Int
  /\ fname \in Seq(CHAR)
  /\ DOMAIN buf \subseteq 0..BUFSIZE + MAX_NAME_LENGTH
  /\ \A i \in DOMAIN buf : buf[i] \in Character
  /\ cnt \in -1..BUFSIZE /\ last \in 0..BUFSIZE /\ line_start \in 0..BUFSIZE
  /\ bad \subseteq DOMAIN Test /\ test \in DOMAIN Test
  /\ \A i \in DOMAIN out : out[i].asked <= Len(out[i].shown)

(* cat writes every byte of the file once and in order, and nothing behind *)
(* it if the file is shorter than the buffer and not than its name.          *)
CatPrintsFile ==
  Is("cat", "ok") => \A d \in K!read_dentry_by_name(args) : IsText(d) =>
    /\ Written = TextOf(d)
    /\ Len(args) <= Len(Written) /\ Len(Written) < BUFSIZE =>
         \A i \in DOMAIN out : out[i].shown = AskedFor(out[i])

(* ls writes every name of the directory, in its order, on a line of its   *)
(* own; only behind the longest names a stray byte may follow.               *)
LsPrintsNames ==
  Is("ls", "ok") =>
    /\ Written = Concat([i \in DOMAIN dir_entries |-> Append(dir_entries[i].file_name, NL)])
    /\ \A i \in DOMAIN out : out[i].asked < MAX_NAME_LENGTH => out[i].shown = AskedFor(out[i])

(* grep reports, file by file and in order, exactly the lines that hold the *)
(* pattern, wherever the ends of its buffer cut them.                        *)
LineAt(t, i) ==
  LET j == CHOOSE e \in i - 1..Len(t) : LineOf(t, i, e) IN SubSeq(t, i, j)
Hits(pattern, name, t) ==
  [i \in 1..Len(t) |->
     IF (i = 1 \/ t[i - 1] = NL) /\ OccursIn(pattern, LineAt(t, i))
     THEN <<Said(<<name, LineAt(t, i)>>)>> ELSE <<>>]
Searched(d) == Head(d.file_name) # Head(Dot)
Finds(pattern, texts) ==
  [k \in DOMAIN dir_entries |->
     IF Searched(dir_entries[k])
     THEN Concat(Hits(pattern, dir_entries[k].file_name, texts[k])) ELSE <<>>]
Named(name) == CHOOSE d \in K!read_dentry_by_name(name) : TRUE
Texts == [k \in DOMAIN dir_entries |-> TextOf(Named(dir_entries[k].file_name))]

GrepFinds == Is("grep", "ok") => out = Concat(Finds(args, Texts))

(* The repository's own tests of the system calls pass, one after the other *)
(* or each alone: no descriptor is left open by one and found by the next.  *)
SyserrPasses == bad = {}

(* Every program ends: the loops over reads come to the end of the file, and *)
(* a program gives up only if an entry cannot be opened or a block is gone.  *)
ReasonToFail ==
    \/ program = "cat" /\ \A d \in K!read_dentry_by_name(args) : ~Opens(d) \/ Damaged(d)
    \/ program = "grep" /\ \E i \in DOMAIN dir_entries :
         LET d == dir_entries[i] IN Searched(d) /\ (~Opens(d) \/ Damaged(d))

Ends == <>(Ended /\ (pc = "failed" => ReasonToFail))
=============================================================================
