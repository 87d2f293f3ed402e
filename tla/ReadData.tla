------------------------------ MODULE ReadData ------------------------------
(***************************************************************************)
(* The loop of read_data (filesys.c), one pass per step: it walks over the *)
(* data blocks of an inode, the first one from the middle, the last one to *)
(* the middle.  FileSystem!read_data says what it is to return.            *)
(***************************************************************************)
EXTENDS FileSystem

CONSTANT MaxRequest     \* bound on the offsets and lengths a caller passes

VARIABLES
    inode, offset, request,     \* the arguments
    length,                     \* request cut at the end of the file
    i, copied, buf,             \* the loop
    pc, ret

vars == <<inode, offset, request, length, i, copied, buf, pc, ret>>

ASSUME RequestAssumption == MaxRequest \in Nat

Init ==
    /\ inode \in 0 .. num_inodes
    /\ offset \in 0 .. MaxRequest /\ request \in 0 .. MaxRequest
    /\ length = request
    /\ i = 0 /\ copied = 0 /\ buf = NoBytes
    /\ pc = "check" /\ ret = 0

Return(value) == pc' = "done" /\ ret' = value

Check ==
    /\ pc = "check"
    /\ \/ inode >= num_inodes /\ Return(FAIL) /\ UNCHANGED length
       \/ /\ inode < num_inodes /\ offset >= index_nodes[inode].length
          /\ Return(0) /\ UNCHANGED length
       \/ /\ inode < num_inodes /\ offset < index_nodes[inode].length
          /\ length' = IF offset + request > index_nodes[inode].length
                         THEN index_nodes[inode].length - offset
                         ELSE request
          /\ pc' = "loop" /\ UNCHANGED ret
    /\ UNCHANGED <<inode, offset, request, i, copied, buf>>

\* The block of this pass, where the copy starts in it, and how much of it.
cur_data_block ==
    index_nodes[inode].data_block_nums[i + (offset \div BLOCKSIZE)]
StartAlwaysInside == offset % BLOCKSIZE \* slip: every block from the middle
data_start == IF i = 0 THEN offset % BLOCKSIZE ELSE 0
ShortBlock ==   \* slip: the last byte of every block but the first is left out
    IF i = 0
      THEN IF BLOCKSIZE - (offset % BLOCKSIZE) < length
             THEN BLOCKSIZE - (offset % BLOCKSIZE) ELSE length
      ELSE IF length - copied > BLOCKSIZE - 1 THEN BLOCKSIZE - 1
           ELSE length - copied
copy_len ==
    IF i = 0
      THEN IF BLOCKSIZE - (offset % BLOCKSIZE) < length
             THEN BLOCKSIZE - (offset % BLOCKSIZE) ELSE length
      ELSE IF length - copied > BLOCKSIZE THEN BLOCKSIZE ELSE length - copied

\* memcpy(buf, data_start, copy_len), buf advanced by what went before.
Copy ==
    /\ pc = "loop" /\ copied < length
    /\ IF cur_data_block >= num_data_blocks
         THEN Return(FAIL) /\ UNCHANGED <<i, copied, buf>>
         ELSE /\ buf' = [k \in 0 .. (copied + copy_len) - 1 |->
                            IF k < copied THEN buf[k]
                            ELSE << cur_data_block, data_start + (k - copied) >>]
              /\ copied' = copied + copy_len
              /\ i' = i + 1
              /\ UNCHANGED <<pc, ret>>
    /\ UNCHANGED <<inode, offset, request, length>>

FinishAtRequest ==  \* slip: waits for all that was asked for
    /\ pc = "loop" /\ copied >= request
    /\ Return(copied)
    /\ UNCHANGED <<inode, offset, request, length, i, copied, buf>>
Finish ==
    /\ pc = "loop" /\ copied >= length
    /\ Return(copied)
    /\ UNCHANGED <<inode, offset, request, length, i, copied, buf>>

Next == Check \/ Copy \/ Finish
Spec == Init /\ [][Next]_vars
FairSpec == Spec /\ WF_vars(Next)

-----------------------------------------------------------------------------
\* Every variable has its type, and a pass is at most one block.
TypeOK ==
    /\ inode \in 0 .. num_inodes
    /\ offset \in Nat /\ request \in Nat /\ length \in Nat
    /\ i \in Nat /\ copied \in 0 .. length
    /\ DOMAIN buf = 0 .. copied - 1
    /\ pc \in {"check", "loop", "done"} /\ ret \in Nat \cup {FAIL}

\* The loop, whatever the offset and length, returns what FileSystem says:
\* the bytes of the file from offset on, each once and in order, cut at the
\* end of the file, and -1 exactly when one of their blocks is out of range.
ReturnsFileBytes ==
    pc = "done" =>
        LET result == read_data(inode, offset, request) IN
        /\ ret = result.ret
        /\ ret > 0 => buf = result.data

\* The index into data_block_nums stays inside the inode.
BlockIndexInInode ==
    pc = "loop" /\ copied < length => i + (offset \div BLOCKSIZE) < MAX_BLOCKS

\* Every call comes back.
Returns == <>(pc = "done")
=============================================================================
