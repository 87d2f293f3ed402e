---- MODULE MCPrograms ----
(* Two text files, the clock, and every text of the longer file. *)
EXTENDS Programs, TLC
CONSTANTS dot, a, b, x, y
MCDot == <<dot>>
Dentry(name, type, inode) == [file_name |-> name, file_type |-> type, inode_num |-> inode]
MCEntries == << Dentry(MCDot, 1, 0), Dentry(<<a, b, a>>, 2, 0), Dentry(<<a>>, 0, 0),
                Dentry(<<b, b, a, b>>, 2, 1) >>
File(len, bs) == [length |-> len, data_block_nums |-> [k \in 0..2 |-> bs[k + 1]]]
MCInodes == (0 :> File(7, <<2, 0, 1>>)) @@ (1 :> File(3, <<3, 0, 0>>))
Cells == (0..3) \X (0..2)
Free == {c \in Cells : c[1] \in {0, 2} \/ c = <<1, 0>>}
MCContents ==
  {[c \in Cells |-> IF c \in Free THEN f[c] ELSE IF c = <<3, 1>> THEN NL ELSE x] :
     f \in {g \in [Free -> {x, y, NL}] : g[<<2, 0>>] # y /\ g[<<1, 0>>] # x}}
MCLaunches ==
  {[program |-> "cat", args |-> n] : n \in {<<a, b, a>>, <<b, b, a, b>>, <<a>>, <<dot>>, <<x>>}}
  \cup {[program |-> "grep", args |-> n] : n \in {<<x>>, <<x, y>>, <<y, y>>, <<>>}}
  \cup {[program |-> q, args |-> <<>>] : q \in {"ls", "syserr"}}
====
