----------------------------- MODULE FileTable ------------------------------
(***************************************************************************)
(* The file array of each process and the calls that go through it: open,  *)
(* read, write and close (systemcalls.c) with the directory and file       *)
(* drivers behind them (filesys.c); execute fills the array.  Each process *)
(* uses its own array only, so a call is one step whatever interrupts it.  *)
(* The clock and the terminal drivers are in Rtc and LineDiscipline: here  *)
(* their calls return something and leave the array alone.                 *)
(***************************************************************************)
EXTENDS FileSystem

CONSTANTS
    Pid,
    NFD,                \* descriptors of a process: 8
    Screens,            \* terminals
    Names,              \* names, numbers and lengths that programs pass
    Numbers, Requests,
    Overrun,            \* how far past a buffer the next zero byte may be
    WORD,               \* file_pos is counted modulo this: 2^32
    NULL

Fd == 0 .. NFD - 1
Driver == {"rtc", "dir", "file", "stdin", "stdout"}

ASSUME TableAssumption ==
    /\ NFD \in Nat /\ NFD >= 2
    /\ Screens \subseteq Nat /\ Names \subseteq Name
    /\ Numbers \subseteq Int /\ Requests \subseteq Int /\ Overrun \subseteq Nat
    /\ NULL \notin Driver /\ NULL \notin Nat
ASSUME WordAssumption ==
    /\ WORD \in Nat \ {0} /\ Len(dir_entries) < WORD
    /\ \A i \in Inode : index_nodes[i].length < WORD
    /\ \A s \in Screens : s < WORD

VARIABLES
    live,       \* the processes that have been started and have not halted
    fds,        \* file_fds of every PCB
    reply       \* the last call and what it returned

vars == <<live, fds, reply>>

Entry == [file_op : Driver \cup {NULL}, inode_ptr : Inode \cup {NULL},
          file_pos : 0 .. WORD - 1, flags : {0, 1}]
Blank == [file_op |-> NULL, inode_ptr |-> NULL, file_pos |-> 0, flags |-> 0]
InUse(op, inode) ==
    [file_op |-> op, inode_ptr |-> inode, file_pos |-> 0, flags |-> 1]

\* The jump tables: which drivers have a read and a write.
HasRead == {"rtc", "dir", "file", "stdin"}
HasWrite == {"rtc", "dir", "file", "stdout"}

Call(p, op, fd, n) == [pid |-> p, op |-> op, fd |-> fd, n |-> n]
OpenCall(p, fname) == [pid |-> p, op |-> "open", name |-> fname]
CloseCall(p, fd) == [pid |-> p, op |-> "close", fd |-> fd]
Reply(call, ret, data) == [call |-> call, ret |-> ret, data |-> data]

Init ==
    /\ live = {}
    /\ fds = [p \in Pid |-> [fd \in Fd |-> Blank]]
    /\ reply = Reply([op |-> "none"], 0, NoBytes)

\* execute clears the array of the slot's last user, then calls stdin(0) and
\* stdout(1), which only set some of the fields.
Fresh(p, screen) ==
    [fd \in Fd |-> IF fd = 0 THEN InUse("stdin", NULL)
                   ELSE IF fd = 1
                     THEN [InUse("stdout", NULL) EXCEPT !.file_pos = screen]
                   ELSE Blank]
Execute(p, screen) ==
    /\ p \notin live /\ live' = live \cup {p}
    /\ fds' = [fds EXCEPT ![p] = Fresh(p, screen)]
    /\ UNCHANGED reply

\* halt leaves the array of the process as it is.
Halt(p) == p \in live /\ live' = live \ {p} /\ UNCHANGED <<fds, reply>>

-----------------------------------------------------------------------------
(* open *)

\* The first entry whose flag is not set.  With all of them set the search
\* runs on into the other fields of the PCB and ends at 8 or 9, too far.
FirstFree(p) ==
    {fd \in Fd : /\ fds[p][fd].flags # 1
                 /\ \A e \in 0 .. fd - 1 : fds[p][e].flags = 1}

\* What rtc_open, dir_open and file_open write into the entry, if they
\* succeed; any other type of directory entry is refused.
OpenedKeepingPlace(d, old) ==    \* slip: file_pos not reset
    IF d.file_type = RTC THEN {InUse("rtc", NULL)}
    ELSE IF d.file_type = DIRECTORY
      THEN {[old EXCEPT !.file_op = "dir", !.inode_ptr = NULL, !.flags = 1]}
    ELSE IF d.file_type = FILE /\ d.inode_num < num_inodes
      THEN {[old EXCEPT !.file_op = "file", !.inode_ptr = d.inode_num,
                        !.flags = 1]}
    ELSE {}
Opened(d, old) ==
    IF d.file_type = RTC THEN {InUse("rtc", NULL)}
    ELSE IF d.file_type = DIRECTORY THEN {InUse("dir", NULL)}
    ELSE IF d.file_type = FILE /\ d.inode_num < num_inodes
      THEN {InUse("file", d.inode_num)}
    ELSE {}

Open(p, fname) ==
    /\ p \in live /\ UNCHANGED live
    /\ \/ \E fd \in FirstFree(p), d \in read_dentry_by_name(fname) :
          \E entry \in Opened(d, fds[p][fd]) :
            /\ fds' = [fds EXCEPT ![p][fd] = entry]
            /\ reply' = Reply(OpenCall(p, fname), fd, NoBytes)
       \/ /\ \/ FirstFree(p) = {}
             \/ \A d \in read_dentry_by_name(fname), fd \in FirstFree(p) :
                   Opened(d, fds[p][fd]) = {}
          /\ UNCHANGED fds
          /\ reply' = Reply(OpenCall(p, fname), FAIL, NoBytes)

-----------------------------------------------------------------------------
(* read, write, close *)

\* The checks read and write begin with.
Valid(p, fd, n, ops) ==
    fd \in Fd /\ n >= 0 /\ fds[p][fd].flags # 0 /\ fds[p][fd].file_op \in ops

\* read_data's -1 is added to the position like any other count.
PastRequest(entry, ret, n) == (entry.file_pos + n) % WORD  \* slip: count unread
NextPos(entry, ret, n) == (entry.file_pos + ret) % WORD
FileRead(p, fd, n) ==
    LET entry == fds[p][fd]
        result == read_data(entry.inode_ptr, entry.file_pos, n)
    IN
    /\ Valid(p, fd, n, {"file"})
    /\ fds' = [fds EXCEPT ![p][fd].file_pos = NextPos(entry, result.ret, n)]
    /\ reply' = Reply(Call(p, "read", fd, n), result.ret, result.data)

\* strncpy copies at most n characters, and a zero only after a name that is
\* shorter than that; dir_read then returns strlen of the caller's buffer.
DirRead(p, fd, n) ==
    LET entry == fds[p][fd]
        name == dir_entries[entry.file_pos + 1].file_name
        name_len == IF n > MAX_NAME_LENGTH THEN MAX_NAME_LENGTH ELSE n
        count == IF Len(name) < name_len THEN Len(name) ELSE name_len
    IN
    /\ Valid(p, fd, n, {"dir"})
    /\ IF entry.file_pos >= Len(dir_entries)
         THEN reply' = Reply(Call(p, "read", fd, n), 0, NoBytes) /\ UNCHANGED fds
         ELSE /\ fds' = [fds EXCEPT ![p][fd].file_pos = (@ + 1) % WORD]
              /\ \E over \in Overrun :
                   reply' = Reply(Call(p, "read", fd, n),
                          IF Len(name) < name_len THEN count ELSE count + over,
                          [k \in 0 .. count - 1 |-> name[k + 1]])

\* rtc_read, terminal_read and the calls that are refused.
OtherRead(p, fd, n) ==
    /\ ~Valid(p, fd, n, {"file", "dir"}) /\ UNCHANGED fds
    /\ IF Valid(p, fd, n, HasRead)
         THEN reply' = Reply(Call(p, "read", fd, n),
                     IF fds[p][fd].file_op = "rtc" THEN 0 ELSE n, NoBytes)
         ELSE reply' = Reply(Call(p, "read", fd, n), FAIL, NoBytes)

Read(p, fd, n) ==
    /\ p \in live /\ UNCHANGED live
    /\ FileRead(p, fd, n) \/ DirRead(p, fd, n) \/ OtherRead(p, fd, n)

\* dir_write and file_write refuse; terminal_write and rtc_write do not touch
\* the array, whatever they return.
Write(p, fd, n) ==
    /\ p \in live /\ UNCHANGED <<live, fds>>
    /\ \E ret \in {FAIL, 0, n} :
          /\ ~Valid(p, fd, n, HasWrite \ {"dir", "file"}) => ret = FAIL
          /\ reply' = Reply(Call(p, "write", fd, n), ret, NoBytes)

\* close only clears the flag and calls no driver.
ClosedDriver(entry) == [entry EXCEPT !.file_op = NULL]  \* slip: the wrong field
ClosedEntry(entry) == [entry EXCEPT !.flags = 0]
ANY_FD == 0             \* slip: the two terminal descriptors not protected
FIRST_USER_FD == 2
Close(p, fd) ==
    /\ p \in live /\ UNCHANGED live
    /\ IF fd < FIRST_USER_FD \/ fd \notin Fd
         THEN UNCHANGED fds /\ reply' = Reply(CloseCall(p, fd), FAIL, NoBytes)
       ELSE IF fds[p][fd].flags = 0
         THEN UNCHANGED fds /\ reply' = Reply(CloseCall(p, fd), FAIL, NoBytes)
       ELSE /\ fds' = [fds EXCEPT ![p][fd] = ClosedEntry(@)]
            /\ reply' = Reply(CloseCall(p, fd), 0, NoBytes)

Next == \E p \in Pid :
    \/ \E screen \in Screens : Execute(p, screen)
    \/ Halt(p)
    \/ \E fname \in Names : Open(p, fname)
    \/ \E fd \in Numbers, n \in Requests : Read(p, fd, n) \/ Write(p, fd, n)
    \/ \E fd \in Numbers : Close(p, fd)

Spec == Init /\ [][Next]_vars

-----------------------------------------------------------------------------
\* Every variable has its type.
TypeOK ==
    /\ live \subseteq Pid
    /\ fds \in [Pid -> [Fd -> Entry]]
    /\ reply.ret \in Int

\* Descriptors 0 and 1 of every process are its terminal for as long as it
\* lives: "kernel should automatically open stdin and stdout".
StdFixed ==
    \A p \in live : /\ fds[p][0].file_op = "stdin" /\ fds[p][0].flags = 1
                    /\ fds[p][1].file_op = "stdout" /\ fds[p][1].flags = 1

\* No call jumps through a driver table that is not there, and the file
\* driver never sees an entry without an inode, whatever was opened, closed
\* or left behind in the array before.
DriverPresent ==
    \A p \in live, fd \in Fd : fds[p][fd].flags = 1 =>
        /\ fds[p][fd].file_op # NULL
        /\ fds[p][fd].file_op = "file" => fds[p][fd].inode_ptr \in Inode

\* A position never leaves its file or the directory (of an intact image).
PositionInside ==
    \A p \in live, fd \in Fd : fds[p][fd].flags = 1 =>
        /\ fds[p][fd].file_op = "file" =>
              fds[p][fd].file_pos <= index_nodes[fds[p][fd].inode_ptr].length
        /\ fds[p][fd].file_op = "dir" =>
              fds[p][fd].file_pos <= Len(dir_entries)

\* What the descriptors stand for, for OpenFiles.
Closed == [kind |-> NULL, file |-> 0, at |-> 0]
HandleOf(e) ==
    IF e.flags = 0 THEN Closed
    ELSE [kind |-> e.file_op,
          file |-> IF e.file_op = "file" THEN e.inode_ptr ELSE 0,
          at |-> IF e.file_op \in {"file", "dir"} THEN e.file_pos ELSE 0]

Files == INSTANCE OpenFiles WITH
    table <- [p \in Pid |-> [fd \in Fd |-> HandleOf(fds[p][fd])]]

\* On an intact image the file array keeps the promise of OpenFiles.
OpenFilesSpec == Files!Spec
=============================================================================
