----------------------------- MODULE OpenFiles ------------------------------
(***************************************************************************)
(* What a program may rely on when it opens, reads and closes files, with  *)
(* no word on file arrays, flags, driver tables, blocks or positions kept  *)
(* in 32 bits: a descriptor is closed or stands for one thing that was     *)
(* opened; reading a file or the directory hands out the next bytes or the *)
(* next name, each once and in order, and nothing only at the end.         *)
(***************************************************************************)
EXTENDS FileSystem

CONSTANTS
    Pid, Fd,
    Closed,     \* a descriptor that stands for nothing
    Names,      \* names, numbers and lengths that programs pass
    Numbers, Requests

VARIABLES
    live,       \* the processes
    table,      \* what each descriptor of each process stands for
    reply       \* the last call and what it returned

openVars == <<live, table, reply>>

Handle(kind, file) == [kind |-> kind, file |-> file, at |-> 0]

\* What a name stands for, if anything.
Named(fname) ==
    LET Entries(type) ==
          {d \in read_dentry_by_name(fname) : d.file_type = type}
    IN {Handle("rtc", 0) : d \in Entries(RTC)}
       \cup {Handle("dir", 0) : d \in Entries(DIRECTORY)}
       \cup {Handle("file", d.inode_num) :
                d \in {e \in Entries(FILE) : e.inode_num \in Inode}}

Call(p, op, fd, n) == [pid |-> p, op |-> op, fd |-> fd, n |-> n]
OpenCall(p, fname) == [pid |-> p, op |-> "open", name |-> fname]
CloseCall(p, fd) == [pid |-> p, op |-> "close", fd |-> fd]
Reply(call, ret, data) == [call |-> call, ret |-> ret, data |-> data]
NoReply == Reply([op |-> "none"], 0, NoBytes)

Init ==
    /\ live = {} /\ reply = NoReply
    /\ table = [p \in Pid |-> [fd \in Fd |-> Closed]]

\* A process begins with its terminal and with nothing else.
Start(p) ==
    /\ p \notin live /\ live' = live \cup {p}
    /\ table' = [table EXCEPT ![p] = [fd \in Fd |->
                    IF fd = 0 THEN Handle("stdin", 0)
                    ELSE IF fd = 1 THEN Handle("stdout", 0) ELSE Closed]]
    /\ UNCHANGED reply

Stop(p) == p \in live /\ live' = live \ {p} /\ UNCHANGED <<table, reply>>

\* A name can be opened if it stands for something and a descriptor is left.
Open(p, fname) ==
    /\ p \in live /\ UNCHANGED live
    /\ \/ \E fd \in Fd, h \in Named(fname) :
            /\ table[p][fd] = Closed
            /\ table' = [table EXCEPT ![p][fd] = h]
            /\ reply' = Reply(OpenCall(p, fname), fd, NoBytes)
       \/ /\ Named(fname) = {} \/ \A fd \in Fd : table[p][fd] # Closed
          /\ reply' = Reply(OpenCall(p, fname), FAIL, NoBytes)
          /\ UNCHANGED table

IsOpen(p, fd, kind) ==
    p \in live /\ fd \in Fd /\ table[p][fd] # Closed /\ table[p][fd].kind = kind

\* Bytes of a file: at least one if any was asked for and is left.
ReadFile(p, fd, n) ==
    LET h == table[p][fd]
        left == index_nodes[h.file].length - h.at
    IN
    /\ IsOpen(p, fd, "file") /\ n >= 0 /\ UNCHANGED live
    /\ \E count \in 0 .. left :
          /\ count <= n /\ (count = 0 => n = 0 \/ left = 0)
          /\ table' = [table EXCEPT ![p][fd].at = h.at + count]
          /\ reply' = Reply(Call(p, "read", fd, n), count, Bytes(h.file, h.at, count))

\* The next name, or as much of it as there is room for; how many characters
\* it has is told if there is room for one more.
ReadName(p, fd, n) ==
    LET h == table[p][fd]
        name == dir_entries[h.at + 1].file_name
    IN
    /\ IsOpen(p, fd, "dir") /\ n >= 0 /\ UNCHANGED live
    /\ IF h.at >= Len(dir_entries)
         THEN reply' = Reply(Call(p, "read", fd, n), 0, NoBytes) /\ UNCHANGED table
         ELSE /\ table' = [table EXCEPT ![p][fd].at = h.at + 1]
              /\ \E count \in 0 .. Len(name) :
                   /\ n >= Len(name) => count = Len(name)
                   /\ n > Len(name) => reply'.ret = count
                   /\ reply' = Reply(Call(p, "read", fd, n), reply'.ret,
                             [k \in 0 .. count - 1 |-> name[k + 1]])

\* Any other read, and every write, leaves the descriptors as they are, and
\* fails if the descriptor is closed.
Other(p, op, fd, n) ==
    /\ p \in live /\ UNCHANGED <<live, table>>
    /\ op = "read" /\ n >= 0 => ~IsOpen(p, fd, "file") /\ ~IsOpen(p, fd, "dir")
    /\ reply' = Reply(Call(p, op, fd, n), reply'.ret, NoBytes)
    /\ fd \notin Fd \/ table[p][fd] = Closed => reply'.ret = FAIL

\* Only what a program opened itself can be closed.
Close(p, fd) ==
    /\ p \in live /\ UNCHANGED live
    /\ \/ /\ fd \in Fd \ {0, 1} /\ table[p][fd] # Closed
          /\ table' = [table EXCEPT ![p][fd] = Closed]
          /\ reply' = Reply(CloseCall(p, fd), 0, NoBytes)
       \/ /\ fd \notin Fd \ {0, 1} \/ table[p][fd] = Closed
          /\ reply' = Reply(CloseCall(p, fd), FAIL, NoBytes)
          /\ UNCHANGED table

Next == \E p \in Pid :
    \/ Start(p) \/ Stop(p)
    \/ \E fname \in Names : Open(p, fname)
    \/ \E fd \in Numbers, n \in Requests :
          \/ ReadFile(p, fd, n) \/ ReadName(p, fd, n)
          \/ Other(p, "read", fd, n) \/ Other(p, "write", fd, n)
    \/ \E fd \in Numbers : Close(p, fd)

Spec == Init /\ [][Next]_openVars
=============================================================================
