-------------------------- MODULE FileTableProofs ---------------------------
(***************************************************************************)
(* The file arrays keep their invariants for every image, number of        *)
(* processes and number of descriptors, and on an intact image they        *)
(* implement OpenFiles.                                                    *)
(***************************************************************************)
EXTENDS FileTable, WellFoundedInduction, TLAPS

\* What the proofs use of the assumptions on the constants.
LEMMA Numerals ==
  /\ Fd \subseteq Nat /\ 0 \in Fd /\ 1 \in Fd
  /\ WORD \in Nat \ {0} /\ 0 \in 0 .. WORD - 1 /\ Screens \subseteq 0 .. WORD - 1
  /\ Numbers \subseteq Int /\ Requests \subseteq Int /\ Overrun \subseteq Nat
  /\ MAX_NAME_LENGTH \in Nat /\ num_inodes \in Nat /\ FAIL \in Int
  BY SizesAssumption, TableAssumption, WordAssumption DEF Fd, FAIL

LEMMA Nulls == NULL \notin Driver /\ NULL \notin Nat
  BY TableAssumption

LEMMA Directory ==
  /\ Len(dir_entries) \in Nat /\ DOMAIN dir_entries = 1 .. Len(dir_entries)
  /\ \A i \in DOMAIN dir_entries :
        /\ dir_entries[i].file_type \in Nat /\ dir_entries[i].inode_num \in Nat
        /\ dir_entries[i].file_name \in Seq(CHAR)
        /\ Len(dir_entries[i].file_name) \in Nat
<1> DEFINE Dentry == [file_name : Name, file_type : Nat, inode_num : Nat]
<1>1. dir_entries \in Seq(Dentry)
  BY DirectoryAssumption
<1> HIDE DEF Dentry
<1>2. /\ Len(dir_entries) \in Nat /\ DOMAIN dir_entries = 1 .. Len(dir_entries)
      /\ \A i \in DOMAIN dir_entries : dir_entries[i] \in Dentry
  BY <1>1
<1>3. \A d \in Dentry : /\ d.file_type \in Nat /\ d.inode_num \in Nat
                        /\ d.file_name \in Seq(CHAR)
  BY DEF Dentry, Name
<1>4. \A s \in Seq(CHAR) : Len(s) \in Nat
  OBVIOUS
<1>5. QED
  BY <1>2, <1>3, <1>4

USE Numerals DEF Inode

\* What an entry that is in use looks like.
GoodEntry(e) ==
    e.flags = 1 =>
        /\ e.file_op # NULL
        /\ e.file_op = "file" => e.inode_ptr \in Inode

TableInv == TypeOK /\ StdFixed /\ DriverPresent

LEMMA BlankType ==
  /\ Blank \in Entry
  /\ \A op \in Driver, inode \in Inode \cup {NULL} : InUse(op, inode) \in Entry
<1>1. Blank \in Entry
  BY DEF Blank, Entry
<1>2. ASSUME NEW op \in Driver, NEW inode \in Inode \cup {NULL}
      PROVE  InUse(op, inode) \in Entry
  BY <1>2 DEF InUse, Entry
<1>3. QED
  BY <1>1, <1>2

LEMMA DentryType ==
  ASSUME NEW fname, NEW d \in read_dentry_by_name(fname)
  PROVE  d.file_type \in Nat /\ d.inode_num \in Nat
  BY Directory DEF read_dentry_by_name, Matches

LEMMA OpenedType ==
  ASSUME NEW fname, NEW d \in read_dentry_by_name(fname), NEW old,
         NEW entry \in Opened(d, old)
  PROVE  /\ entry \in Entry /\ entry.flags = 1
         /\ entry.file_op \in {"rtc", "dir", "file"}
         /\ entry.file_op = "file" => entry.inode_ptr \in Inode
         /\ entry.file_pos = 0
<1>1. d.file_type \in Nat /\ d.inode_num \in Nat
  BY DentryType
<1>2. CASE entry = InUse("rtc", NULL)
  BY <1>2, BlankType DEF InUse, Driver
<1>3. CASE entry = InUse("dir", NULL)
  BY <1>3, BlankType DEF InUse, Driver
<1>4. CASE d.inode_num < num_inodes /\ entry = InUse("file", d.inode_num)
  BY <1>1, <1>4, BlankType DEF InUse, Driver
<1>5. QED
  BY <1>2, <1>3, <1>4 DEF Opened, RTC, DIRECTORY, FILE

LEMMA ReadDataType ==
  ASSUME NEW inode, NEW offset \in Nat, NEW n \in Nat
  PROVE  read_data(inode, offset, n).ret \in Nat \cup {FAIL}
<1>1. CASE inode \in Inode
  BY <1>1, InodesAssumption DEF read_data, Available
<1>2. CASE inode \notin Inode
  BY <1>2 DEF read_data
<1>3. QED
  BY <1>1, <1>2

LEMMA InitTable == Init => TableInv
  BY BlankType DEF Init, TableInv, TypeOK, StdFixed, DriverPresent, Reply, Blank

\* A call that writes one entry, and leaves the driver and the flag of the
\* two terminal descriptors alone.
LEMMA OneEntry ==
  ASSUME TableInv, NEW p \in Pid, NEW fd \in Fd, NEW e \in Entry,
         GoodEntry(e), p \in live,
         fd < 2 => e.file_op = fds[p][fd].file_op /\ e.flags = fds[p][fd].flags,
         fds' = [fds EXCEPT ![p][fd] = e], live' = live, reply'.ret \in Int
  PROVE  TableInv'
<1> USE DEF TableInv
<1>1. fds' \in [Pid -> [Fd -> Entry]]
  BY DEF TypeOK
<1>2. \A q \in Pid, g \in Fd :
         fds'[q][g] = IF q = p /\ g = fd THEN e ELSE fds[q][g]
  BY DEF TypeOK
<1>3. StdFixed'
  <2> SUFFICES ASSUME NEW q \in live
               PROVE  /\ fds'[q][0].file_op = "stdin" /\ fds'[q][0].flags = 1
                      /\ fds'[q][1].file_op = "stdout" /\ fds'[q][1].flags = 1
    BY DEF StdFixed
  <2>1. q \in Pid /\ 0 \in Fd /\ 1 \in Fd
    BY DEF TypeOK
  <2>2. /\ fds[q][0].file_op = "stdin" /\ fds[q][0].flags = 1
        /\ fds[q][1].file_op = "stdout" /\ fds[q][1].flags = 1
    BY DEF StdFixed
  <2>3. QED
    BY <1>2, <2>1, <2>2
<1>4. DriverPresent'
  BY <1>2 DEF DriverPresent, GoodEntry, TypeOK
<1>5. QED
  BY <1>1, <1>3, <1>4 DEF TypeOK

\* A call that writes no entry.
LEMMA NoEntry ==
  ASSUME TableInv, fds' = fds, live' \subseteq live, reply'.ret \in Int
  PROVE  TableInv'
  BY DEF TableInv, TypeOK, StdFixed, DriverPresent

LEMMA FreshType ==
  ASSUME NEW p \in Pid, NEW screen \in Screens
  PROVE  /\ Fresh(p, screen) \in [Fd -> Entry]
         /\ Fresh(p, screen)[0].file_op = "stdin" /\ Fresh(p, screen)[0].flags = 1
         /\ Fresh(p, screen)[1].file_op = "stdout"
         /\ Fresh(p, screen)[1].flags = 1
         /\ \A fd \in Fd : fd >= 2 => Fresh(p, screen)[fd] = Blank
<1>1. 0 \in Fd /\ 1 \in Fd /\ screen \in 0 .. WORD - 1
  OBVIOUS
<1>2. /\ InUse("stdin", NULL) \in Entry /\ InUse("stdout", NULL) \in Entry
      /\ Blank \in Entry
  BY BlankType DEF Driver
<1>3. [InUse("stdout", NULL) EXCEPT !.file_pos = screen] \in Entry
  BY <1>1, <1>2 DEF Entry
<1>4. QED
  BY <1>1, <1>2, <1>3 DEF Fresh, InUse

LEMMA ExecuteTable ==
  ASSUME TableInv, NEW p \in Pid, NEW screen \in Screens, Execute(p, screen)
  PROVE  TableInv'
<1>1. fds' \in [Pid -> [Fd -> Entry]]
  BY FreshType DEF Execute, TableInv, TypeOK
<1>2. \A q \in Pid : fds'[q] = IF q = p THEN Fresh(p, screen) ELSE fds[q]
  BY DEF Execute, TableInv, TypeOK
<1>3. live' \subseteq Pid
  BY DEF Execute, TableInv, TypeOK
<1>4. StdFixed'
  BY <1>2, <1>3, FreshType DEF StdFixed, Execute, TableInv
<1>5. DriverPresent'
  <2> SUFFICES ASSUME NEW q \in live', NEW fd \in Fd, fds'[q][fd].flags = 1
               PROVE  /\ fds'[q][fd].file_op # NULL
                      /\ fds'[q][fd].file_op = "file" =>
                            fds'[q][fd].inode_ptr \in Inode
    BY DEF DriverPresent
  <2>1. CASE q = p
    <3>1. fds'[q][fd] = Fresh(p, screen)[fd]
      BY <1>2, <2>1
    <3>2. fd = 0 \/ fd = 1
      <4>1. SUFFICES ASSUME fd >= 2 PROVE FALSE
        OBVIOUS
      <4>2. fds'[q][fd] = Blank
        BY <3>1, <4>1, FreshType
      <4>3. QED
        BY <4>2 DEF Blank
    <3>3. fds'[q][fd].file_op \in {"stdin", "stdout"}
      BY <3>1, <3>2, FreshType
    <3>4. QED
      BY <3>3, Nulls DEF Driver
  <2>2. CASE q # p
    <3>1. q \in live /\ q \in Pid
      BY <1>3, <2>2 DEF Execute
    <3>2. QED
      BY <1>2, <2>2, <3>1 DEF DriverPresent, TableInv
  <2>3. QED
    BY <2>1, <2>2
<1>6. QED
  BY <1>1, <1>3, <1>4, <1>5 DEF TableInv, TypeOK, Execute

LEMMA OpenTable ==
  ASSUME TableInv, NEW p \in Pid, NEW fname \in Names, Open(p, fname)
  PROVE  TableInv'
<1>1. CASE \E fd \in FirstFree(p), d \in read_dentry_by_name(fname) :
             \E entry \in Opened(d, fds[p][fd]) :
               /\ fds' = [fds EXCEPT ![p][fd] = entry]
               /\ reply' = Reply(OpenCall(p, fname), fd, NoBytes)
  <2>1. PICK fd \in FirstFree(p), d \in read_dentry_by_name(fname) :
             \E entry \in Opened(d, fds[p][fd]) :
               /\ fds' = [fds EXCEPT ![p][fd] = entry]
               /\ reply' = Reply(OpenCall(p, fname), fd, NoBytes)
    BY <1>1
  <2>2. PICK entry \in Opened(d, fds[p][fd]) :
               /\ fds' = [fds EXCEPT ![p][fd] = entry]
               /\ reply' = Reply(OpenCall(p, fname), fd, NoBytes)
    BY <2>1
  <2>3. entry \in Entry /\ GoodEntry(entry)
    <3>1. /\ entry \in Entry /\ entry.file_op \in {"rtc", "dir", "file"}
          /\ entry.file_op = "file" => entry.inode_ptr \in Inode
      BY OpenedType, Zenon
    <3>2. entry.file_op # NULL
      BY <3>1, Nulls DEF Driver
    <3>3. QED
      BY <3>1, <3>2 DEF GoodEntry
  <2>4. fd \in Fd /\ fds[p][fd].flags # 1
    BY DEF FirstFree
  <2>5. p \in live /\ live' = live
    BY DEF Open
  <2>6. ~(fd < 2)
    <3>1. fd # 0 /\ fd # 1
      BY <2>4, <2>5 DEF TableInv, StdFixed
    <3>2. fd \in Nat
      BY <2>4
    <3>3. QED
      BY <3>1, <3>2
  <2>7. reply'.ret \in Int
    BY <2>2, <2>4 DEF Reply
  <2>8. QED
    BY <2>2, <2>3, <2>4, <2>5, <2>6, <2>7, OneEntry
<1>2. CASE fds' = fds /\ reply' = Reply(OpenCall(p, fname), FAIL, NoBytes)
  BY <1>2, NoEntry DEF Open, Reply
<1>3. QED
  BY <1>1, <1>2 DEF Open

\* The entry a read leaves behind differs in its position only.
LEMMA MovedEntry ==
  ASSUME TableInv, NEW p \in live, NEW fd \in Fd, NEW pos \in 0 .. WORD - 1,
         fds' = [fds EXCEPT ![p][fd].file_pos = pos],
         live' = live, reply'.ret \in Int
  PROVE  TableInv'
<1> DEFINE e == [fds[p][fd] EXCEPT !.file_pos = pos]
<1>1. p \in Pid /\ fds[p][fd] \in Entry
  BY DEF TableInv, TypeOK
<1>2. e \in Entry /\ e.file_op = fds[p][fd].file_op
      /\ e.flags = fds[p][fd].flags /\ e.inode_ptr = fds[p][fd].inode_ptr
  BY <1>1 DEF Entry
<1>3. GoodEntry(e)
  BY <1>1, <1>2 DEF GoodEntry, TableInv, DriverPresent
<1>4. fds' = [fds EXCEPT ![p][fd] = e]
  BY <1>1 DEF TableInv, TypeOK
<1> HIDE DEF e
<1>5. QED
  BY <1>1, <1>2, <1>3, <1>4, OneEntry

LEMMA ReadTable ==
  ASSUME TableInv, NEW p \in Pid, NEW fd \in Numbers, NEW n \in Requests,
         Read(p, fd, n)
  PROVE  TableInv'
<1>1. p \in live /\ live' = live
  BY DEF Read
<1>2. CASE FileRead(p, fd, n)
  <2>1. /\ fd \in Fd /\ n \in Nat /\ fds[p][fd] \in Entry
    BY <1>2 DEF FileRead, Valid, TableInv, TypeOK
  <2> DEFINE result ==
        read_data(fds[p][fd].inode_ptr, fds[p][fd].file_pos, n)
             pos == NextPos(fds[p][fd], result.ret, n)
  <2>2. /\ fds' = [fds EXCEPT ![p][fd].file_pos = pos]
        /\ reply' = Reply(Call(p, "read", fd, n), result.ret, result.data)
    BY <1>2 DEF FileRead
  <2>3. result.ret \in Nat \cup {FAIL}
    BY <2>1, ReadDataType DEF Entry
  <2>4. pos \in 0 .. WORD - 1
    <3> HIDE DEF result
    <3>1. fds[p][fd].file_pos \in Nat /\ result.ret \in Int /\ WORD \in Nat \ {0}
      BY <2>1, <2>3 DEF Entry
    <3>2. QED
      BY <3>1 DEF NextPos
  <2>5. reply'.ret \in Int
    BY <2>2, <2>3 DEF Reply
  <2> HIDE DEF pos
  <2>6. QED
    BY <1>1, <2>1, <2>2, <2>4, <2>5, MovedEntry
<1>3. CASE DirRead(p, fd, n)
  <2>1. fd \in Fd /\ n \in Nat /\ fds[p][fd] \in Entry /\ p \in Pid
    BY <1>3 DEF DirRead, Valid, TableInv, TypeOK
  <2>2. CASE fds[p][fd].file_pos >= Len(dir_entries)
    <3>1. fds' = fds /\ reply'.ret = 0
      BY <1>3, <2>2 DEF DirRead, Reply
    <3>2. QED
      BY <1>1, <3>1, NoEntry
  <2>3. CASE ~(fds[p][fd].file_pos >= Len(dir_entries))
    <3> DEFINE pos == (fds[p][fd].file_pos + 1) % WORD
               name == dir_entries[fds[p][fd].file_pos + 1].file_name
               name_len == IF n > MAX_NAME_LENGTH THEN MAX_NAME_LENGTH ELSE n
               count == IF Len(name) < name_len THEN Len(name) ELSE name_len
    <3>1. /\ fds' = [fds EXCEPT ![p][fd].file_pos = (@ + 1) % WORD]
          /\ \E over \in Overrun : reply' =
                Reply(Call(p, "read", fd, n),
                      IF Len(name) < name_len THEN count ELSE count + over,
                      [k \in 0 .. count - 1 |-> name[k + 1]])
      BY <1>3, <2>3, Zenon DEF DirRead
    <3>2. fds' = [fds EXCEPT ![p][fd].file_pos = pos]
      BY <2>1, <3>1 DEF TableInv, TypeOK
    <3>3. fds[p][fd].file_pos \in Nat
      BY <2>1 DEF Entry
    <3>4. Len(name) \in Nat
      <4>1. fds[p][fd].file_pos + 1 \in DOMAIN dir_entries
        BY <2>3, <3>3, Directory
      <4>2. QED
        BY <4>1, Directory
    <3>5. name_len \in Nat /\ pos \in 0 .. WORD - 1
      BY <2>1, <3>3
    <3> HIDE DEF name, name_len, pos
    <3>6. reply'.ret \in Int
      <4>1. PICK over \in Overrun : reply'.ret =
               IF Len(name) < name_len THEN count ELSE count + over
        BY <3>1 DEF Reply
      <4>2. QED
        BY <3>4, <3>5, <4>1
    <3>7. QED
      BY <1>1, <2>1, <3>2, <3>5, <3>6, MovedEntry
  <2>4. QED
    BY <2>2, <2>3
<1>4. CASE OtherRead(p, fd, n)
  <2>1. fds' = fds /\ reply'.ret \in Int
    <3>1. fds' = fds
      BY <1>4 DEF OtherRead
    <3>2. reply'.ret \in {0, n, FAIL}
      <4> DEFINE ret == IF fds[p][fd].file_op = "rtc" THEN 0 ELSE n
      <4>1. CASE Valid(p, fd, n, HasRead)
        <5>1. reply' = Reply(Call(p, "read", fd, n), ret, NoBytes)
          BY <1>4, <4>1 DEF OtherRead
        <5>2. QED
          BY <5>1 DEF Reply
      <4>2. CASE ~Valid(p, fd, n, HasRead)
        <5>1. reply' = Reply(Call(p, "read", fd, n), FAIL, NoBytes)
          BY <1>4, <4>2 DEF OtherRead
        <5>2. QED
          BY <5>1 DEF Reply
      <4>3. QED
        BY <4>1, <4>2
    <3>3. QED
      BY <3>1, <3>2
  <2>2. QED
    BY <1>1, <2>1, NoEntry
<1>5. QED
  BY <1>2, <1>3, <1>4 DEF Read

LEMMA WriteTable ==
  ASSUME TableInv, NEW p \in Pid, NEW fd \in Numbers, NEW n \in Requests,
         Write(p, fd, n)
  PROVE  TableInv'
  BY NoEntry DEF Write, Reply

LEMMA CloseTable ==
  ASSUME TableInv, NEW p \in Pid, NEW fd \in Numbers, Close(p, fd)
  PROVE  TableInv'
<1>1. p \in live /\ live' = live /\ reply'.ret \in Int
  BY DEF Close, Reply
<1>2. CASE fds' = fds
  BY <1>1, <1>2, NoEntry
<1>3. CASE /\ fd \in Fd /\ fd >= 2
           /\ fds' = [fds EXCEPT ![p][fd] = ClosedEntry(@)]
  <2>1. fds[p][fd] \in Entry
    BY <1>3 DEF TableInv, TypeOK
  <2>2. ClosedEntry(fds[p][fd]) \in Entry /\ GoodEntry(ClosedEntry(fds[p][fd]))
    BY <2>1 DEF ClosedEntry, Entry, GoodEntry
  <2>3. fds' = [fds EXCEPT ![p][fd] = ClosedEntry(fds[p][fd])]
    BY <1>3 DEF TableInv, TypeOK
  <2>4. fd \in Fd /\ ~(fd < 2)
    BY <1>3
  <2>5. QED
    BY <1>1, <2>2, <2>3, <2>4, OneEntry
<1>4. QED
  BY <1>2, <1>3 DEF Close, FIRST_USER_FD

\* The file arrays are typed, the terminal descriptors fixed and no driver is
\* missing, on any image.
THEOREM TableInvariant == Spec => []TableInv
<1>1. TableInv /\ [Next]_vars => TableInv'
  <2> SUFFICES ASSUME TableInv, [Next]_vars PROVE TableInv'
    OBVIOUS
  <2>1. CASE UNCHANGED vars
    BY <2>1, NoEntry DEF vars, TableInv, TypeOK
  <2>2. CASE \E p \in Pid : Halt(p)
    BY <2>2, NoEntry DEF Halt, TableInv, TypeOK
  <2>3. QED
    BY <2>1, <2>2, ExecuteTable, OpenTable, ReadTable, WriteTable, CloseTable
       DEF Next
<1>2. QED
  BY <1>1, InitTable, PTL DEF Spec

\* Every variable keeps its type.
THEOREM TableTypes == Spec => []TypeOK
  BY TableInvariant, PTL DEF TableInv

\* Descriptors 0 and 1 stay the terminal of their process.
THEOREM StdStaysFixed == Spec => []StdFixed
  BY TableInvariant, PTL DEF TableInv

\* No call goes through a driver table that is not there.
THEOREM DriversPresent == Spec => []DriverPresent
  BY TableInvariant, PTL DEF TableInv
-----------------------------------------------------------------------------
(* On an intact image positions stay inside. *)

InsideEntry(e) ==
    e.flags = 1 =>
        /\ e.file_op = "file" => e.file_pos <= index_nodes[e.inode_ptr].length
        /\ e.file_op = "dir" => e.file_pos <= Len(dir_entries)

\* A read of a file whose blocks are all there hands out the next bytes of the
\* file, and none only if none was asked for or left.
LEMMA ReadStaysInside ==
  ASSUME ImageIntact, NEW inode \in Inode, NEW offset \in Nat, NEW n \in Nat,
         offset <= index_nodes[inode].length
  PROVE  LET count == Available(inode, offset, n) IN
         /\ read_data(inode, offset, n) =
               [ret |-> count, data |-> Bytes(inode, offset, count)]
         /\ read_data(inode, offset, n).ret = count
         /\ count \in Nat /\ count <= n
         /\ offset + count <= index_nodes[inode].length
         /\ count = 0 => n = 0 \/ offset = index_nodes[inode].length
<1> DEFINE count == Available(inode, offset, n)
<1>1. index_nodes[inode].length \in Nat
  BY InodesAssumption
<1>2. /\ count \in Nat /\ count <= n
      /\ offset + count <= index_nodes[inode].length
      /\ count = 0 => n = 0 \/ offset = index_nodes[inode].length
  BY <1>1 DEF Available
<1>3. \A x \in offset .. (offset + count) - 1 : Intact(inode, x)
  <2> HIDE DEF count
  <2>1. SUFFICES ASSUME NEW x \in offset .. (offset + count) - 1
                 PROVE  Intact(inode, x)
    OBVIOUS
  <2>2. x \in 0 .. index_nodes[inode].length - 1
    BY <1>1, <1>2
  <2>3. QED
    BY <2>2 DEF ImageIntact
<1>4. read_data(inode, offset, n) =
        [ret |-> count, data |-> Bytes(inode, offset, count)]
  <2> HIDE DEF count
  <2>1. QED
    BY <1>2, <1>3 DEF read_data, count
<1>5. read_data(inode, offset, n).ret = count
  BY <1>4
<1>6. QED
  BY <1>2, <1>4, <1>5

LEMMA OnePosition ==
  ASSUME TableInv, PositionInside, NEW p \in Pid, NEW fd \in Fd, NEW e,
         InsideEntry(e), fds' = [fds EXCEPT ![p][fd] = e], live' = live
  PROVE  PositionInside'
<1>1. \A q \in Pid, g \in Fd :
         fds'[q][g] = IF q = p /\ g = fd THEN e ELSE fds[q][g]
  BY DEF TableInv, TypeOK
<1>2. live \subseteq Pid
  BY DEF TableInv, TypeOK
<1>3. QED
  BY <1>1, <1>2 DEF PositionInside, InsideEntry

LEMMA ExecutePosition ==
  ASSUME TableInv, PositionInside, NEW p \in Pid, NEW screen \in Screens,
         Execute(p, screen)
  PROVE  PositionInside'
<1>1. \A q \in Pid : fds'[q] = IF q = p THEN Fresh(p, screen) ELSE fds[q]
  BY DEF Execute, TableInv, TypeOK
<1>2. \A fd \in Fd : \/ Fresh(p, screen)[fd].file_op \in {"stdin", "stdout"}
                     \/ Fresh(p, screen)[fd].flags = 0
  <2>1. \A fd \in Fd : fd = 0 \/ fd = 1 \/ fd >= 2
    OBVIOUS
  <2>2. QED
    BY <2>1, FreshType DEF Blank
<1>3. live' = live \cup {p} /\ live \subseteq Pid
  BY DEF Execute, TableInv, TypeOK
<1>4. SUFFICES ASSUME NEW q \in live', NEW fd \in Fd
               PROVE  InsideEntry(fds'[q][fd])
  BY DEF PositionInside, InsideEntry
<1>5. CASE q = p
  <2>1. fds'[q][fd] = Fresh(p, screen)[fd]
    BY <1>1, <1>5
  <2>2. InsideEntry(Fresh(p, screen)[fd])
    <3>1. CASE Fresh(p, screen)[fd].file_op \in {"stdin", "stdout"}
      BY <3>1 DEF InsideEntry
    <3>2. CASE Fresh(p, screen)[fd].flags = 0
      BY <3>2 DEF InsideEntry
    <3>3. QED
      BY <1>2, <3>1, <3>2
  <2>3. QED
    BY <2>1, <2>2
<1>6. CASE q # p
  <2>1. q \in live /\ fds'[q][fd] = fds[q][fd]
    BY <1>1, <1>3, <1>6
  <2>2. QED
    BY <2>1 DEF PositionInside, InsideEntry
<1>7. QED
  BY <1>5, <1>6

LEMMA OpenPosition ==
  ASSUME TableInv, PositionInside, NEW p \in Pid, NEW fname \in Names,
         Open(p, fname)
  PROVE  PositionInside'
<1>1. live' = live
  BY DEF Open
<1>2. CASE fds' = fds
  BY <1>1, <1>2 DEF PositionInside
<1>3. ASSUME NEW fd \in FirstFree(p), NEW d \in read_dentry_by_name(fname),
             NEW entry \in Opened(d, fds[p][fd]),
             fds' = [fds EXCEPT ![p][fd] = entry]
      PROVE  PositionInside'
  <2>1. /\ entry.file_op = "file" => entry.inode_ptr \in Inode
        /\ entry.file_pos = 0
    BY OpenedType
  <2>2. /\ \A i \in Inode : index_nodes[i].length \in Nat
        /\ Len(dir_entries) \in Nat
    BY InodesAssumption, Directory
  <2>3. InsideEntry(entry)
    BY <2>1, <2>2 DEF InsideEntry
  <2>4. fd \in Fd
    BY DEF FirstFree
  <2>5. QED
    BY <1>1, <1>3, <2>3, <2>4, OnePosition
<1>4. QED
  BY <1>2, <1>3 DEF Open

LEMMA ReadPosition ==
  ASSUME ImageIntact, TableInv, PositionInside,
         NEW p \in Pid, NEW fd \in Numbers, NEW n \in Requests, Read(p, fd, n)
  PROVE  PositionInside'
<1> DEFINE entry == fds[p][fd]
           Moved(pos) == [entry EXCEPT !.file_pos = pos]
<1>1. p \in live /\ live' = live
  BY DEF Read
<1>2. CASE fds' = fds
  BY <1>1, <1>2 DEF PositionInside
<1>3. ASSUME fd \in Fd
      PROVE  /\ entry \in Entry /\ entry.file_pos \in Nat
             /\ \A pos : /\ Moved(pos).flags = entry.flags
                         /\ Moved(pos).file_op = entry.file_op
                         /\ Moved(pos).inode_ptr = entry.inode_ptr
                         /\ Moved(pos).file_pos = pos
  <2>1. entry \in Entry
    BY <1>3 DEF TableInv, TypeOK
  <2> HIDE DEF entry
  <2>2. QED
    BY <2>1 DEF Entry
<1>4. CASE FileRead(p, fd, n)
  <2> DEFINE inode == entry.inode_ptr
             ret == read_data(inode, entry.file_pos, n).ret
             pos == (entry.file_pos + ret) % WORD
  <2>1. fd \in Fd /\ n \in Nat /\ entry.flags # 0 /\ entry.file_op = "file"
    BY <1>4 DEF FileRead, Valid
  <2>2. fds' = [fds EXCEPT ![p][fd].file_pos = pos]
    BY <1>4 DEF FileRead, NextPos
  <2>3. entry.flags = 1
    BY <1>3, <2>1 DEF Entry
  <2>4. inode \in Inode /\ entry.file_pos <= index_nodes[inode].length
    BY <1>1, <2>1, <2>3 DEF TableInv, DriverPresent, PositionInside
  <2>5. ret \in Nat /\ entry.file_pos + ret <= index_nodes[inode].length
    <3> HIDE DEF inode, entry
    <3>1. QED
      BY <1>3, <2>1, <2>4, ReadStaysInside
  <2>6. index_nodes[inode].length \in Nat /\ index_nodes[inode].length < WORD
    BY <2>4, InodesAssumption, WordAssumption
  <2>7. pos <= index_nodes[inode].length
    <3> HIDE DEF ret, inode, entry
    <3>1. entry.file_pos \in Nat
      BY <1>3, <2>1
    <3>2. QED
      BY <2>5, <2>6, <3>1
  <2> HIDE DEF pos
  <2>8. InsideEntry(Moved(pos))
    BY <1>3, <2>1, <2>7 DEF InsideEntry
  <2>9. fds' = [fds EXCEPT ![p][fd] = Moved(pos)]
    BY <2>1, <2>2 DEF TableInv, TypeOK
  <2>10. QED
    BY <1>1, <2>1, <2>8, <2>9, OnePosition
<1>5. CASE DirRead(p, fd, n)
  <2> DEFINE pos == (entry.file_pos + 1) % WORD
  <2>1. CASE entry.file_pos >= Len(dir_entries)
    BY <1>2, <1>5, <2>1 DEF DirRead
  <2>2. CASE ~(entry.file_pos >= Len(dir_entries))
    <3>1. fd \in Fd /\ entry.file_op = "dir"
      BY <1>5 DEF DirRead, Valid
    <3>2. fds' = [fds EXCEPT ![p][fd].file_pos = (@ + 1) % WORD]
      BY <1>5, <2>2 DEF DirRead
    <3>3. pos <= Len(dir_entries)
      <4> HIDE DEF entry
      <4>1. entry.file_pos \in Nat /\ Len(dir_entries) \in Nat
        BY <1>3, <3>1, Directory
      <4>2. Len(dir_entries) < WORD
        BY WordAssumption
      <4>3. QED
        BY <2>2, <4>1, <4>2
    <3>4. fds' = [fds EXCEPT ![p][fd] = Moved(pos)]
      BY <3>1, <3>2 DEF TableInv, TypeOK
    <3> HIDE DEF pos
    <3>5. InsideEntry(Moved(pos))
      BY <1>3, <3>1, <3>3 DEF InsideEntry
    <3>6. QED
      BY <1>1, <3>1, <3>4, <3>5, OnePosition
  <2>3. QED
    BY <2>1, <2>2
<1>6. CASE OtherRead(p, fd, n)
  BY <1>2, <1>6 DEF OtherRead
<1>7. QED
  BY <1>4, <1>5, <1>6 DEF Read

LEMMA ClosePosition ==
  ASSUME TableInv, PositionInside, NEW p \in Pid, NEW fd \in Numbers,
         Close(p, fd)
  PROVE  PositionInside'
<1>1. live' = live
  BY DEF Close
<1>2. CASE fds' = fds
  BY <1>1, <1>2 DEF PositionInside
<1>3. CASE /\ fd \in Fd
           /\ fds' = [fds EXCEPT ![p][fd] = ClosedEntry(@)]
  <2>1. fds[p][fd] \in Entry
    BY <1>3 DEF TableInv, TypeOK
  <2>2. InsideEntry(ClosedEntry(fds[p][fd]))
    BY <2>1 DEF ClosedEntry, Entry, InsideEntry
  <2>3. fds' = [fds EXCEPT ![p][fd] = ClosedEntry(fds[p][fd])]
    BY <1>3 DEF TableInv, TypeOK
  <2>4. QED
    BY <1>1, <1>3, <2>2, <2>3, OnePosition
<1>4. QED
  BY <1>2, <1>3 DEF Close

\* On an image whose blocks are all there, no position leaves its file or the
\* directory.
THEOREM PositionsInside ==
  ASSUME ImageIntact PROVE Spec => []PositionInside
<1>1. Init => PositionInside
  BY DEF Init, PositionInside
<1>2. TableInv /\ PositionInside /\ [Next]_vars => PositionInside'
  <2> SUFFICES ASSUME TableInv, PositionInside, [Next]_vars
               PROVE  PositionInside'
    OBVIOUS
  <2>1. CASE UNCHANGED vars
    BY <2>1 DEF vars, PositionInside
  <2>2. CASE \E p \in Pid : Halt(p)
    BY <2>2 DEF Halt, PositionInside
  <2>3. CASE \E p \in Pid, fd \in Numbers, n \in Requests : Write(p, fd, n)
    BY <2>3 DEF Write, PositionInside
  <2>4. QED
    BY <2>1, <2>2, <2>3, ExecutePosition, OpenPosition, ReadPosition,
       ClosePosition DEF Next
<1>3. QED
  BY <1>1, <1>2, TableInvariant, PTL DEF Spec

-----------------------------------------------------------------------------
(* The refinement: every step of FileTable is, on the handles that HandleOf *)
(* reads off the entries, a step of OpenFiles.                               *)
Table == [p \in Pid |-> [fd \in Fd |-> HandleOf(fds[p][fd])]]

USE Numerals DEF Inode, Table

\* OpenFiles speaks of the same image.
LEMMA SameFiles ==
  /\ Files!NoBytes = NoBytes /\ Files!Inode = Inode /\ Files!FAIL = FAIL
  /\ \A i, x, n : Files!Bytes(i, x, n) = Bytes(i, x, n)
  /\ \A fname : Files!read_dentry_by_name(fname) = read_dentry_by_name(fname)
  /\ Files!RTC = RTC /\ Files!DIRECTORY = DIRECTORY /\ Files!FILE = FILE
<1>1. \A name : Files!Capped(name) = Capped(name)
  BY DEF Files!Capped, Capped
<1>2. \A fname : Files!Matches(fname) = Matches(fname)
  BY <1>1 DEF Files!Matches, Matches
<1>3. \A fname : Files!read_dentry_by_name(fname) = read_dentry_by_name(fname)
  BY <1>2 DEF Files!read_dentry_by_name, read_dentry_by_name
<1>4. \A i, x, n : Files!Bytes(i, x, n) = Bytes(i, x, n)
  BY DEF Files!Bytes, Bytes, Files!ByteAt, ByteAt
<1>5. QED
  BY <1>3, <1>4 DEF Files!NoBytes, NoBytes, Files!Inode, Inode, Files!FAIL, FAIL,
       Files!RTC, RTC, Files!DIRECTORY, DIRECTORY, Files!FILE, FILE

\* A set of natural numbers that is not empty has a least element.
LEMMA Least ==
  ASSUME NEW S, S \subseteq Nat, S # {}
  PROVE  \E m \in S : \A k \in S : m <= k
<1>1. PICK m \in S : \A k \in S : ~(<<k, m>> \in OpToRel(<, Nat))
  BY NatLessThanWellFounded, WFMin, Zenon
<1>2. \A k \in S : ~(k < m)
  BY <1>1 DEF OpToRel
<1>3. QED
  BY <1>2

\* An entry that is not in use is a closed descriptor, one in use is not.
LEMMA OpenHandles ==
  ASSUME TableInv, NEW p \in live, NEW fd \in Fd
  PROVE  /\ Table[p][fd] = HandleOf(fds[p][fd])
         /\ fds[p][fd] \in Entry
         /\ HandleOf(fds[p][fd]) = Closed <=> fds[p][fd].flags = 0
<1>1. p \in Pid /\ fds[p][fd] \in Entry
  BY DEF TableInv, TypeOK
<1>2. CASE fds[p][fd].flags = 0
  BY <1>1, <1>2 DEF HandleOf
<1>3. CASE fds[p][fd].flags # 0
  <2>1. fds[p][fd].flags = 1
    BY <1>1, <1>3 DEF Entry
  <2>2. fds[p][fd].file_op # NULL
    BY <2>1 DEF TableInv, DriverPresent
  <2>3. HandleOf(fds[p][fd]).kind # Closed.kind
    BY <1>3, <2>2 DEF HandleOf, Closed
  <2>4. QED
    BY <1>1, <1>3, <2>3
<1>4. QED
  BY <1>2, <1>3

LEMMA OneHandle ==
  ASSUME TableInv, NEW p \in Pid, NEW fd \in Fd, NEW e,
         fds' = [fds EXCEPT ![p][fd] = e]
  PROVE  Table' = [Table EXCEPT ![p][fd] = HandleOf(e)]
<1>1. \A q \in Pid, g \in Fd :
         fds'[q][g] = IF q = p /\ g = fd THEN e ELSE fds[q][g]
  BY DEF TableInv, TypeOK
<1>2. Table' = [q \in Pid |-> [g \in Fd |->
                   IF q = p /\ g = fd THEN HandleOf(e) ELSE Table[q][g]]]
  BY <1>1
<1>3. QED
  BY <1>2

LEMMA InitRefines == Init => Files!Init
<1> SUFFICES ASSUME Init PROVE Files!Init
  OBVIOUS
<1>1. Table = [p \in Pid |-> [fd \in Fd |-> Closed]]
  BY DEF Init, HandleOf, Blank
<1>2. reply = Files!NoReply
  BY SameFiles DEF Init, Reply, Files!NoReply, Files!Reply
<1>3. QED
  BY <1>1, <1>2 DEF Init, Files!Init

LEMMA ExecuteRefines ==
  ASSUME TableInv, NEW p \in Pid, NEW screen \in Screens, Execute(p, screen)
  PROVE  Files!Start(p)
<1>1. \A q \in Pid : fds'[q] = IF q = p THEN Fresh(p, screen) ELSE fds[q]
  BY DEF Execute, TableInv, TypeOK
<1>2. \A fd \in Fd : HandleOf(Fresh(p, screen)[fd]) =
          IF fd = 0 THEN Files!Handle("stdin", 0)
          ELSE IF fd = 1 THEN Files!Handle("stdout", 0) ELSE Closed
  BY DEF Fresh, InUse, Blank, HandleOf, Files!Handle
<1>3. Table' = [Table EXCEPT ![p] = [fd \in Fd |->
                    IF fd = 0 THEN Files!Handle("stdin", 0)
                    ELSE IF fd = 1 THEN Files!Handle("stdout", 0) ELSE Closed]]
  BY <1>1, <1>2
<1>4. QED
  BY <1>3 DEF Files!Start, Execute

LEMMA HaltRefines ==
  ASSUME NEW p \in Pid, Halt(p)
  PROVE  Files!Stop(p)
  BY DEF Halt, Files!Stop

\* What a successful open writes into an entry is what the name stands for,
\* and a name that stands for nothing cannot be opened.
LEMMA OpenedNamed ==
  ASSUME NEW fname, NEW old
  PROVE  /\ \A d \in read_dentry_by_name(fname) : \A entry \in Opened(d, old) :
               HandleOf(entry) \in Files!Named(fname)
         /\ (\A d \in read_dentry_by_name(fname) : Opened(d, old) = {})
               => Files!Named(fname) = {}
<1> USE SameFiles DEF Files!Named, Opened, RTC, DIRECTORY, FILE
<1>0. \A k \in Nat : k \in Inode <=> k < num_inodes
  OBVIOUS
<1>1. ASSUME NEW d \in read_dentry_by_name(fname), NEW entry \in Opened(d, old)
      PROVE  HandleOf(entry) \in Files!Named(fname)
  <2>1. d.inode_num \in Nat
    BY DentryType
  <2>2. CASE d.file_type = RTC
    <3>1. HandleOf(entry) = Files!Handle("rtc", 0)
      BY <2>2 DEF HandleOf, InUse, Files!Handle
    <3>2. QED
      BY <2>2, <3>1
  <2>3. CASE d.file_type = DIRECTORY
    <3>1. HandleOf(entry) = Files!Handle("dir", 0)
      BY <2>3 DEF HandleOf, InUse, Files!Handle
    <3>2. QED
      BY <2>3, <3>1
  <2>4. CASE d.file_type = FILE /\ d.inode_num < num_inodes
    <3>1. HandleOf(entry) = Files!Handle("file", d.inode_num)
      BY <2>4 DEF HandleOf, InUse, Files!Handle
    <3>2. d.inode_num \in Inode
      BY <1>0, <2>1, <2>4, Zenon
    <3>3. QED
      BY <2>4, <3>1, <3>2
  <2>5. QED
    BY <2>2, <2>3, <2>4
<1>2. ASSUME \A d \in read_dentry_by_name(fname) : Opened(d, old) = {}
      PROVE  Files!Named(fname) = {}
  <2>1. \A d \in read_dentry_by_name(fname) :
           d.file_type # RTC /\ d.file_type # DIRECTORY
    BY <1>2
  <2>2. \A d \in read_dentry_by_name(fname) :
           d.file_type = FILE => d.inode_num \notin Inode
    <3>1. SUFFICES ASSUME NEW d \in read_dentry_by_name(fname),
                          d.file_type = FILE
                   PROVE  ~(d.inode_num < num_inodes)
      BY <1>0, DentryType, Zenon
    <3>2. Opened(d, old) = {}
      BY <1>2, Zenon
    <3>3. QED
      BY <3>1, <3>2
  <2>3. QED
    BY <2>1, <2>2
<1>3. QED
  BY <1>1, <1>2

LEMMA OpenRefines ==
  ASSUME TableInv, NEW p \in Pid, NEW fname \in Names, Open(p, fname)
  PROVE  Files!Open(p, fname)
<1>1. p \in live /\ live' = live
  BY DEF Open
<1>2. ASSUME NEW fd \in FirstFree(p), NEW d \in read_dentry_by_name(fname),
             NEW entry \in Opened(d, fds[p][fd]),
             fds' = [fds EXCEPT ![p][fd] = entry],
             reply' = Reply(OpenCall(p, fname), fd, NoBytes)
      PROVE  Files!Open(p, fname)
  <2>1. fd \in Fd /\ fds[p][fd].flags # 1
    BY DEF FirstFree
  <2>2. Table[p][fd] = Closed
    BY <1>1, <2>1, OpenHandles DEF Entry
  <2>3. Table' = [Table EXCEPT ![p][fd] = HandleOf(entry)]
    BY <1>2, <2>1, OneHandle
  <2>4. HandleOf(entry) \in Files!Named(fname)
    BY OpenedNamed
  <2>5. reply' = Files!Reply(Files!OpenCall(p, fname), fd, Files!NoBytes)
    BY <1>2, SameFiles DEF Reply, OpenCall, Files!Reply, Files!OpenCall
  <2>6. QED
    BY <1>1, <2>1, <2>2, <2>3, <2>4, <2>5, Zenon DEF Files!Open
<1>3. ASSUME \/ FirstFree(p) = {}
             \/ \A d \in read_dentry_by_name(fname), fd \in FirstFree(p) :
                   Opened(d, fds[p][fd]) = {},
             fds' = fds, reply' = Reply(OpenCall(p, fname), FAIL, NoBytes)
      PROVE  Files!Open(p, fname)
  <2>1. \/ Files!Named(fname) = {}
        \/ \A fd \in Fd : Table[p][fd] # Closed
    <3>1. CASE FirstFree(p) = {}
      <4> DEFINE Free == {fd \in Fd : fds[p][fd].flags # 1}
      <4>1. Free = {}
        <5>1. SUFFICES ASSUME Free # {} PROVE FALSE
          OBVIOUS
        <5>2. PICK m \in Free : \A k \in Free : m <= k
          <6>1. Free \subseteq Nat
            OBVIOUS
          <6> HIDE DEF Free
          <6>2. QED
            BY <5>1, <6>1, Least
        <5>3. m \in FirstFree(p)
          <6>1. m \in 0 .. NFD - 1 /\ NFD \in Nat
            BY <5>2, TableAssumption DEF Fd
          <6>2. \A e \in 0 .. m - 1 : e \in Fd /\ ~(m <= e)
            BY <6>1 DEF Fd
          <6>3. \A e \in 0 .. m - 1 : e \in Fd /\ e \notin Free
            BY <5>2, <6>2, Zenon
          <6>4. QED
            BY <5>2, <6>3 DEF FirstFree
        <5>4. QED
          BY <3>1, <5>3
      <4>2. \A fd \in Fd : fds[p][fd].flags # 0
        BY <4>1
      <4> HIDE DEF Free, Table
      <4>3. QED
        BY <1>1, <4>2, OpenHandles, Zenon
    <3>2. CASE FirstFree(p) # {}
      <4>1. PICK fd \in FirstFree(p) : TRUE
        BY <3>2
      <4>2. \A d \in read_dentry_by_name(fname) : Opened(d, fds[p][fd]) = {}
        BY <1>3, <3>2, <4>1
      <4>3. QED
        BY <4>2, OpenedNamed
    <3>3. QED
      BY <3>1, <3>2
  <2>2. Table' = Table
    BY <1>3
  <2>3. reply' = Files!Reply(Files!OpenCall(p, fname), Files!FAIL, Files!NoBytes)
    BY <1>3, SameFiles DEF Reply, OpenCall, Files!Reply, Files!OpenCall
  <2>4. QED
    BY <1>1, <2>1, <2>2, <2>3 DEF Files!Open
<1>4. QED
  BY <1>2, <1>3 DEF Open

\* Reading the bytes of a file.
LEMMA FileReadRefines ==
  ASSUME ImageIntact, TableInv, PositionInside,
         NEW p \in live, NEW fd \in Numbers, NEW n \in Requests,
         live' = live, FileRead(p, fd, n)
  PROVE  Files!ReadFile(p, fd, n)
<1> DEFINE entry == fds[p][fd]
           inode == entry.inode_ptr
           count == Available(inode, entry.file_pos, n)
           result == read_data(inode, entry.file_pos, n)
           moved == [entry EXCEPT !.file_pos = NextPos(entry, result.ret, n)]
<1>1. /\ p \in Pid /\ fd \in Fd /\ n \in Nat
      /\ entry.flags # 0 /\ entry.file_op = "file" /\ entry \in Entry
  BY DEF FileRead, Valid, TableInv, TypeOK
<1>2. entry.flags = 1 /\ entry.file_pos \in Nat
  BY <1>1 DEF Entry
<1>3. inode \in Inode /\ entry.file_pos <= index_nodes[inode].length
  BY <1>1, <1>2 DEF TableInv, DriverPresent, PositionInside
<1>4. /\ result = [ret |-> count, data |-> Bytes(inode, entry.file_pos, count)]
      /\ result.ret = count /\ count \in Nat /\ count <= n
      /\ entry.file_pos + count <= index_nodes[inode].length
      /\ count = 0 => n = 0 \/ entry.file_pos = index_nodes[inode].length
  <2> HIDE DEF inode, entry
  <2>1. QED
    BY <1>1, <1>2, <1>3, ReadStaysInside
<1>5. index_nodes[inode].length \in Nat /\ index_nodes[inode].length < WORD
  BY <1>3, InodesAssumption, WordAssumption
<1>6. NextPos(entry, result.ret, n) = entry.file_pos + count
  <2> HIDE DEF inode, entry, count, result
  <2>1. QED
    BY <1>2, <1>4, <1>5 DEF NextPos
<1>7. /\ Table[p][fd] = [kind |-> "file", file |-> inode, at |-> entry.file_pos]
      /\ Table[p][fd] # Closed
  <2>1. Table[p][fd] = HandleOf(entry)
    BY <1>1
  <2>2. HandleOf(entry) =
          [kind |-> "file", file |-> inode, at |-> entry.file_pos]
    BY <1>1 DEF HandleOf
  <2>3. HandleOf(entry) # Closed
    BY <1>1, OpenHandles
  <2>4. QED
    BY <2>1, <2>2, <2>3
<1>8. Table' = [Table EXCEPT ![p][fd].at = entry.file_pos + count]
  <2>1. fds' = [fds EXCEPT ![p][fd] = moved]
    BY <1>1 DEF FileRead, TableInv, TypeOK
  <2>2. HandleOf(moved) =
          [kind |-> "file", file |-> inode, at |-> entry.file_pos + count]
    <3>1. /\ moved.flags = 1 /\ moved.file_op = "file"
          /\ moved.inode_ptr = inode /\ moved.file_pos = entry.file_pos + count
      <4> HIDE DEF count, result
      <4>1. QED
        BY <1>1, <1>2, <1>6 DEF Entry
    <3> HIDE DEF moved, count
    <3>2. QED
      BY <3>1 DEF HandleOf
  <2> HIDE DEF moved
  <2>3. Table' = [Table EXCEPT ![p][fd] = HandleOf(moved)]
    BY <1>1, <2>1, OneHandle
  <2> HIDE DEF entry, inode, count
  <2>4. [Table[p][fd] EXCEPT !.at = entry.file_pos + count] = HandleOf(moved)
    <3> HIDE DEF Table
    <3>1. \A h : h = [kind |-> "file", file |-> inode, at |-> entry.file_pos] =>
             [h EXCEPT !.at = entry.file_pos + count] =
               [kind |-> "file", file |-> inode, at |-> entry.file_pos + count]
      OBVIOUS
    <3>2. QED
      BY <1>7, <2>2, <3>1
  <2>5. QED
    BY <1>1, <2>3, <2>4
<1>9. reply' = Files!Reply(Files!Call(p, "read", fd, n), count,
                           Files!Bytes(inode, entry.file_pos, count))
  <2>1. reply' = Reply(Call(p, "read", fd, n), result.ret, result.data)
    BY DEF FileRead
  <2>2. result.data = Bytes(inode, entry.file_pos, count)
    BY <1>4
  <2> HIDE DEF result, count, inode, entry
  <2>3. QED
    BY <1>4, <2>1, <2>2, SameFiles DEF Reply, Call, Files!Reply, Files!Call
<1>10. /\ Table[p][fd].kind = "file" /\ Table[p][fd].file = inode
       /\ Table[p][fd].at = entry.file_pos
  <2> HIDE DEF Table, inode, entry
  <2>1. QED
    BY <1>7
<1>11. Files!IsOpen(p, fd, "file")
  BY <1>1, <1>7, <1>10, Zenon DEF Files!IsOpen
<1>12. /\ count \in 0 .. index_nodes[inode].length - entry.file_pos
       /\ count = 0 => n = 0 \/ index_nodes[inode].length - entry.file_pos = 0
  <2> HIDE DEF count, inode, entry
  <2>1. QED
    BY <1>2, <1>4, <1>5
<1> HIDE DEF Table, count, inode, entry, result
<1>13. n >= 0 /\ count <= n
  BY <1>1, <1>4
<1>14. QED
  BY <1>8, <1>9, <1>10, <1>11, <1>12, <1>13, Zenon DEF Files!ReadFile, Table

\* Reading the next name of the directory.
LEMMA DirReadRefines ==
  ASSUME NamesTerminated, TableInv, PositionInside,
         NEW p \in live, NEW fd \in Numbers, NEW n \in Requests,
         live' = live, DirRead(p, fd, n)
  PROVE  Files!ReadName(p, fd, n)
<1> DEFINE entry == fds[p][fd]
           pos == entry.file_pos
           moved == [entry EXCEPT !.file_pos = pos + 1]
<1>1. /\ p \in Pid /\ fd \in Fd /\ n \in Nat
      /\ entry.flags # 0 /\ entry.file_op = "dir" /\ entry \in Entry
  BY DEF DirRead, Valid, TableInv, TypeOK
<1>2. entry.flags = 1 /\ pos \in Nat
  BY <1>1 DEF Entry
<1>3. Table[p][fd] = [kind |-> "dir", file |-> 0, at |-> pos]
      /\ Table[p][fd] # Closed
  <2>1. Table[p][fd] = HandleOf(entry)
    BY <1>1
  <2>2. HandleOf(entry) = [kind |-> "dir", file |-> 0, at |-> pos]
    BY <1>1 DEF HandleOf
  <2>3. HandleOf(entry) # Closed
    BY <1>1, OpenHandles
  <2>4. QED
    BY <2>1, <2>2, <2>3
<1>4. Table[p][fd].kind = "dir" /\ Table[p][fd].at = pos
  <2> HIDE DEF Table, entry
  <2>1. QED
    BY <1>3
<1>5. Files!IsOpen(p, fd, "dir") /\ n >= 0
  <2>1. n >= 0
    BY <1>1
  <2>2. QED
    BY <1>1, <1>3, <1>4, <2>1, Zenon DEF Files!IsOpen
<1>6. CASE pos >= Len(dir_entries)
  <2>1. reply' = Reply(Call(p, "read", fd, n), 0, NoBytes) /\ fds' = fds
    BY <1>6 DEF DirRead
  <2>2. Table' = Table
    BY <2>1
  <2>3. reply' = Files!Reply(Files!Call(p, "read", fd, n), 0, Files!NoBytes)
    BY <2>1, SameFiles DEF Reply, Call, Files!Reply, Files!Call
  <2> HIDE DEF Table, entry, pos
  <2>4. QED
    BY <1>4, <1>5, <1>6, <2>2, <2>3, Zenon DEF Files!ReadName, Table
<1>7. CASE ~(pos >= Len(dir_entries))
  <2> DEFINE name == dir_entries[pos + 1].file_name
             name_len == IF n > MAX_NAME_LENGTH THEN MAX_NAME_LENGTH ELSE n
             count == IF Len(name) < name_len THEN Len(name) ELSE name_len
             text == [k \in 0 .. count - 1 |-> name[k + 1]]
  <2>1. /\ fds' = [fds EXCEPT ![p][fd].file_pos = (@ + 1) % WORD]
        /\ \E over \in Overrun :
             reply' = Reply(Call(p, "read", fd, n),
                 IF Len(name) < name_len THEN count ELSE count + over, text)
    BY <1>7, Zenon DEF DirRead
  <2>2. PICK over \in Overrun :
             reply' = Reply(Call(p, "read", fd, n),
                 IF Len(name) < name_len THEN count ELSE count + over, text)
    BY <2>1
  <2>3. Len(name) \in Nat /\ name_len \in Nat /\ Len(dir_entries) \in Nat
    <3>1. pos + 1 \in DOMAIN dir_entries
      BY <1>2, <1>7, Directory
    <3>2. Len(name) \in Nat
      BY <3>1, Directory
    <3>3. QED
      BY <1>1, <3>2, Directory
  <2>4. Table' = [Table EXCEPT ![p][fd].at = pos + 1]
    <3>1. (pos + 1) % WORD = pos + 1
      <4> HIDE DEF pos
      <4>1. QED
        BY <1>2, <1>7, <2>3, WordAssumption
    <3>2. fds' = [fds EXCEPT ![p][fd] = [entry EXCEPT !.file_pos = (pos + 1) % WORD]]
      BY <1>1, <2>1 DEF TableInv, TypeOK
    <3>3. fds' = [fds EXCEPT ![p][fd] = moved]
      BY <3>1, <3>2
    <3>4. HandleOf(moved) = [kind |-> "dir", file |-> 0, at |-> pos + 1]
      <4>1. /\ moved.flags = 1 /\ moved.file_op = "dir"
            /\ moved.file_pos = pos + 1
        BY <1>1, <1>2 DEF Entry
      <4> HIDE DEF moved
      <4>2. QED
        BY <4>1 DEF HandleOf
    <3> HIDE DEF moved
    <3>5. Table' = [Table EXCEPT ![p][fd] = HandleOf(moved)]
      BY <1>1, <3>3, OneHandle
    <3>6. [Table[p][fd] EXCEPT !.at = pos + 1] = HandleOf(moved)
      <4> HIDE DEF Table
      <4>1. \A h : h = [kind |-> "dir", file |-> 0, at |-> pos] =>
               [h EXCEPT !.at = pos + 1] =
                 [kind |-> "dir", file |-> 0, at |-> pos + 1]
        OBVIOUS
      <4>2. QED
        BY <1>3, <3>4, <4>1
    <3>7. QED
      BY <1>1, <3>5, <3>6
  <2> HIDE DEF Table, entry, pos, name, name_len
  <2>5. Len(name) < MAX_NAME_LENGTH
    <3>1. pos + 1 \in DOMAIN dir_entries
      BY <1>2, <1>7, Directory
    <3>2. QED
      BY <3>1 DEF NamesTerminated, name
  <2>6. /\ count \in 0 .. Len(name)
        /\ n >= Len(name) => count = Len(name)
        /\ n > Len(name) => Len(name) < name_len
    BY <1>1, <2>3, <2>5 DEF name_len
  <2> DEFINE ret == IF Len(name) < name_len THEN count ELSE count + over
  <2>7. reply' = Files!Reply(Files!Call(p, "read", fd, n), ret, text)
    BY <2>2 DEF Reply, Call, Files!Reply, Files!Call
  <2>8. reply'.ret = ret
    BY <2>7 DEF Files!Reply
  <2>9. n > Len(name) => reply'.ret = count
    BY <2>6, <2>8
  <2> HIDE DEF ret, count
  <2>10. reply' = Files!Reply(Files!Call(p, "read", fd, n), reply'.ret, text)
    BY <2>7, <2>8
  <2>11. \E c \in 0 .. Len(name) :
            /\ n >= Len(name) => c = Len(name)
            /\ n > Len(name) => reply'.ret = c
            /\ reply' = Files!Reply(Files!Call(p, "read", fd, n), reply'.ret,
                                    [k \in 0 .. c - 1 |-> name[k + 1]])
    BY <2>6, <2>9, <2>10, Zenon
  <2>12. /\ Table' = [Table EXCEPT ![p][fd].at = Table[p][fd].at + 1]
         /\ name = dir_entries[Table[p][fd].at + 1].file_name
         /\ ~(Table[p][fd].at >= Len(dir_entries))
    BY <1>4, <1>7, <2>4 DEF name
  <2> HIDE DEF name
  <2>13. \E c \in 0 .. Len(dir_entries[Table[p][fd].at + 1].file_name) :
            /\ n >= Len(dir_entries[Table[p][fd].at + 1].file_name) =>
                  c = Len(dir_entries[Table[p][fd].at + 1].file_name)
            /\ n > Len(dir_entries[Table[p][fd].at + 1].file_name) =>
                  reply'.ret = c
            /\ reply' = Files!Reply(Files!Call(p, "read", fd, n), reply'.ret,
                  [k \in 0 .. c - 1 |->
                      dir_entries[Table[p][fd].at + 1].file_name[k + 1]])
    BY <2>11, <2>12, Zenon
  <2>14. QED
    BY <1>5, <2>12, <2>13, Zenon DEF Files!ReadName, Table
<1>8. QED
  BY <1>6, <1>7

\* Every other read, and every write.
LEMMA OtherRefines ==
  ASSUME TableInv, NEW p \in live, NEW fd, NEW n, NEW op, NEW ret,
         live' = live, fds' = fds,
         op = "read" /\ n >= 0 => ~Valid(p, fd, n, {"file", "dir"}),
         fd \notin Fd \/ fds[p][fd].flags = 0 => ret = FAIL,
         reply' = Reply(Call(p, op, fd, n), ret, NoBytes)
  PROVE  Files!Other(p, op, fd, n)
<1>1. Table' = Table
  OBVIOUS
<1>2. fd \notin Fd \/ Table[p][fd] = Closed => ret = Files!FAIL
  <2> HIDE DEF Table
  <2>1. QED
    BY OpenHandles, SameFiles
<1>3. reply'.ret = ret
  BY DEF Reply
<1>4. reply' = Files!Reply(Files!Call(p, op, fd, n), reply'.ret, Files!NoBytes)
  BY <1>3, SameFiles DEF Reply, Call, Files!Reply, Files!Call
<1>5. op = "read" /\ n >= 0 =>
         ~Files!IsOpen(p, fd, "file") /\ ~Files!IsOpen(p, fd, "dir")
  <2>1. SUFFICES ASSUME op = "read" /\ n >= 0, NEW kind \in {"file", "dir"},
                        Files!IsOpen(p, fd, kind)
                 PROVE  FALSE
    OBVIOUS
  <2>2. fd \in Fd /\ Table[p][fd] # Closed /\ Table[p][fd].kind = kind
    BY <2>1 DEF Files!IsOpen
  <2>3. fds[p][fd].flags # 0 /\ Table[p][fd] = HandleOf(fds[p][fd])
    <3> HIDE DEF Table
    <3>1. QED
      BY <2>2, OpenHandles
  <2>4. HandleOf(fds[p][fd]).kind = fds[p][fd].file_op
    BY <2>3 DEF HandleOf
  <2>5. fds[p][fd].file_op \in {"file", "dir"}
    <3> HIDE DEF Table
    <3>1. QED
      BY <2>2, <2>3, <2>4
  <2>6. QED
    BY <2>1, <2>2, <2>3, <2>5 DEF Valid
<1> HIDE DEF Table
<1>6. QED
  BY <1>1, <1>2, <1>3, <1>4, <1>5, Zenon DEF Files!Other, Table

LEMMA OtherReadRefines ==
  ASSUME TableInv, NEW p \in live, NEW fd \in Numbers, NEW n \in Requests,
         live' = live, OtherRead(p, fd, n)
  PROVE  Files!Other(p, "read", fd, n)
<1>1. fds' = fds /\ ~Valid(p, fd, n, {"file", "dir"})
  BY DEF OtherRead
<1>2. CASE Valid(p, fd, n, HasRead)
  <2> DEFINE ret == IF fds[p][fd].file_op = "rtc" THEN 0 ELSE n
  <2>1. reply' = Reply(Call(p, "read", fd, n), ret, NoBytes)
    BY <1>2 DEF OtherRead
  <2>2. fd \in Fd /\ fds[p][fd].flags # 0
    BY <1>2 DEF Valid
  <2> HIDE DEF ret
  <2>3. QED
    BY <1>1, <2>1, <2>2, OtherRefines, Zenon
<1>3. CASE ~Valid(p, fd, n, HasRead)
  <2>1. reply' = Reply(Call(p, "read", fd, n), FAIL, NoBytes)
    BY <1>3 DEF OtherRead
  <2>2. QED
    BY <1>1, <2>1, OtherRefines, Zenon
<1>4. QED
  BY <1>2, <1>3

LEMMA WriteRefines ==
  ASSUME TableInv, NEW p \in Pid, NEW fd \in Numbers, NEW n \in Requests,
         Write(p, fd, n)
  PROVE  Files!Other(p, "write", fd, n)
<1>1. p \in live /\ live' = live /\ fds' = fds
  BY DEF Write
<1>2. PICK ret \in {FAIL, 0, n} :
         /\ ~Valid(p, fd, n, HasWrite \ {"dir", "file"}) => ret = FAIL
         /\ reply' = Reply(Call(p, "write", fd, n), ret, NoBytes)
  BY DEF Write
<1>3. fd \notin Fd \/ fds[p][fd].flags = 0 => ret = FAIL
  BY <1>2 DEF Valid
<1>4. "write" # "read"
  OBVIOUS
<1>5. QED
  BY <1>1, <1>2, <1>3, <1>4, OtherRefines, Zenon

LEMMA CloseRefines ==
  ASSUME TableInv, NEW p \in Pid, NEW fd \in Numbers, Close(p, fd)
  PROVE  Files!Close(p, fd)
<1>1. p \in live /\ live' = live
  BY DEF Close
<1>2. fd \in Fd /\ ~(fd < 2) <=> fd \in Fd \ {0, 1}
  <2>1. CASE fd \in Fd
    <3>1. fd \in Nat
      BY <2>1
    <3>2. QED
      BY <3>1
  <2>2. QED
    BY <2>1
<1>3. CASE fd \notin Fd \ {0, 1} \/ fds[p][fd].flags = 0
  <2>1. fds' = fds /\ reply' = Reply(CloseCall(p, fd), FAIL, NoBytes)
    BY <1>2, <1>3 DEF Close, FIRST_USER_FD
  <2>2. Table' = Table
    BY <2>1
  <2>3. reply' = Files!Reply(Files!CloseCall(p, fd), Files!FAIL, Files!NoBytes)
    BY <2>1, SameFiles DEF Reply, CloseCall, Files!Reply, Files!CloseCall
  <2>4. fd \notin Fd \ {0, 1} \/ Table[p][fd] = Closed
    <3> HIDE DEF Table
    <3>1. QED
      BY <1>1, <1>3, OpenHandles
  <2> HIDE DEF Table
  <2>5. QED
    BY <1>1, <2>2, <2>3, <2>4, Zenon DEF Files!Close, Table
<1>4. CASE fd \in Fd \ {0, 1} /\ fds[p][fd].flags # 0
  <2>1. /\ fds' = [fds EXCEPT ![p][fd] = ClosedEntry(@)]
        /\ reply' = Reply(CloseCall(p, fd), 0, NoBytes)
    BY <1>2, <1>4 DEF Close, FIRST_USER_FD
  <2>2. fds[p][fd] \in Entry
    BY <1>1, <1>4, OpenHandles
  <2>3. fds' = [fds EXCEPT ![p][fd] = ClosedEntry(fds[p][fd])]
    BY <1>4, <2>1 DEF TableInv, TypeOK
  <2>4. HandleOf(ClosedEntry(fds[p][fd])) = Closed
    BY <2>2 DEF ClosedEntry, HandleOf, Entry
  <2>5. Table' = [Table EXCEPT ![p][fd] = Closed]
    BY <1>4, <2>3, <2>4, OneHandle
  <2>6. reply' = Files!Reply(Files!CloseCall(p, fd), 0, Files!NoBytes)
    BY <2>1, SameFiles DEF Reply, CloseCall, Files!Reply, Files!CloseCall
  <2>7. Table[p][fd] # Closed
    <3> HIDE DEF Table
    <3>1. QED
      BY <1>1, <1>4, OpenHandles
  <2> HIDE DEF Table
  <2>8. QED
    BY <1>1, <1>4, <2>5, <2>6, <2>7, Zenon DEF Files!Close, Table
<1>5. QED
  BY <1>3, <1>4

\* On an image whose blocks are all there and whose names are terminated, the
\* file arrays keep the promise of OpenFiles.
THEOREM TableImplements ==
  ASSUME ImageIntact, NamesTerminated PROVE Spec => OpenFilesSpec
<1>1. ASSUME TableInv, PositionInside, [Next]_vars
      PROVE  [Files!Next]_(Files!openVars)
  <2>1. CASE UNCHANGED vars
    BY <2>1 DEF vars, Files!openVars
  <2>2. ASSUME NEW p \in Pid, NEW screen \in Screens, Execute(p, screen)
        PROVE  Files!Next
    BY <1>1, <2>2, ExecuteRefines, Zenon DEF Files!Next
  <2>3. ASSUME NEW p \in Pid, Halt(p)
        PROVE  Files!Next
    BY <2>3, HaltRefines, Zenon DEF Files!Next
  <2>4. ASSUME NEW p \in Pid, NEW fname \in Names, Open(p, fname)
        PROVE  Files!Next
    BY <1>1, <2>4, OpenRefines, Zenon DEF Files!Next
  <2>5. ASSUME NEW p \in Pid, NEW fd \in Numbers, NEW n \in Requests,
               Read(p, fd, n)
        PROVE  Files!Next
    <3>1. p \in live /\ live' = live
      BY <2>5 DEF Read
    <3>2. \/ Files!ReadFile(p, fd, n) \/ Files!ReadName(p, fd, n)
          \/ Files!Other(p, "read", fd, n)
      BY <1>1, <2>5, <3>1, FileReadRefines, DirReadRefines, OtherReadRefines,
         Zenon DEF Read
    <3>3. QED
      BY <3>2, Zenon DEF Files!Next
  <2>6. ASSUME NEW p \in Pid, NEW fd \in Numbers, NEW n \in Requests,
               Write(p, fd, n)
        PROVE  Files!Next
    BY <1>1, <2>6, WriteRefines, Zenon DEF Files!Next
  <2>7. ASSUME NEW p \in Pid, NEW fd \in Numbers, Close(p, fd)
        PROVE  Files!Next
    BY <1>1, <2>7, CloseRefines, Zenon DEF Files!Next
  <2>8. QED
    BY <1>1, <2>1, <2>2, <2>3, <2>4, <2>5, <2>6, <2>7 DEF Next
<1>2. QED
  BY <1>1, InitRefines, TableInvariant, PositionsInside, PTL
     DEF Spec, OpenFilesSpec, Files!Spec
=============================================================================
