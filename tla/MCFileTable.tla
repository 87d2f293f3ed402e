---------------------------- MODULE MCFileTable -----------------------------
(* A directory with every kind of entry, one of them without an inode, and  *)
(* files that end inside a block and at the end of one.                     *)
EXTENDS FileTable, TLC

CONSTANTS a, b, c

Blocks(s) == [k \in 0 .. 1 |-> IF k < Len(s) THEN s[k + 1] ELSE 0]
File(len, s) == [length |-> len, data_block_nums |-> Blocks(s)]
Dentry(name, type, inode) ==
    [file_name |-> name, file_type |-> type, inode_num |-> inode]

MCEntries == << Dentry(<<a>>, DIRECTORY, 0), Dentry(<<b, a>>, FILE, 1),
    Dentry(<<b>>, RTC, 0), Dentry(<<c>>, FILE, 9) >>
MCInodes == (0 :> File(0, <<>>)) @@ (1 :> File(3, <<2, 0>>))
         @@ (2 :> File(4, <<1, 3>>))
MCNumbers == {-1, 1, 2, 3, 4}
MCRequests == {-1, 2}
MCNames == {<<a>>, <<b, a>>, <<b>>, <<c>>, <<a, c>>}
=============================================================================
