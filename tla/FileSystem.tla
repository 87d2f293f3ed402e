----------------------------- MODULE FileSystem -----------------------------
(***************************************************************************)
(* The read-only file system of FireballOS (filesys.c): a boot block with  *)
(* the directory, an array of inodes and an array of data blocks, loaded   *)
(* by the boot loader and never written.  A name is a sequence of          *)
(* characters, a byte is named by where it lies: <<block, index>>.         *)
(* read_data appears here by its result; module ReadData is its loop.      *)
(***************************************************************************)
EXTENDS Integers, Sequences, FiniteSets

CONSTANTS
    BLOCKSIZE,          \* 4096 in the kernel
    MAX_NAME_LENGTH,    \* 32
    MAX_BLOCKS,         \* block numbers in an inode: 1023
    CHAR,               \* characters a name is made of, without NUL
    num_inodes, num_data_blocks,
    dir_entries,        \* the directory
    index_nodes         \* the inodes

Inode == 0 .. num_inodes - 1
Name == Seq(CHAR)
RTC == 0
DIRECTORY == 1
FILE == 2

ASSUME SizesAssumption ==
    /\ BLOCKSIZE \in Nat \ {0} /\ MAX_NAME_LENGTH \in Nat \ {0}
    /\ MAX_BLOCKS \in Nat /\ num_inodes \in Nat /\ num_data_blocks \in Nat
ASSUME DirectoryAssumption ==
    /\ dir_entries \in Seq([file_name : Name, file_type : Nat, inode_num : Nat])
    /\ \A i \in DOMAIN dir_entries :
          Len(dir_entries[i].file_name) <= MAX_NAME_LENGTH
ASSUME InodesAssumption ==
    /\ index_nodes \in [Inode -> [length : Nat,
                                  data_block_nums : [0 .. MAX_BLOCKS - 1 -> Nat]]]
    /\ \A i \in Inode : index_nodes[i].length <= MAX_BLOCKS * BLOCKSIZE

FAIL == -1

-----------------------------------------------------------------------------
(* The directory *)

\* strlen capped at MAX_NAME_LENGTH - 1, then strncmp over that many
\* characters: two names are the same when they agree that far.
Capped(name) ==
    IF Len(name) > MAX_NAME_LENGTH - 1
      THEN SubSeq(name, 1, MAX_NAME_LENGTH - 1) ELSE name

Matches(fname) ==
    {i \in DOMAIN dir_entries :
        Capped(dir_entries[i].file_name) = Capped(fname)}

\* The first entry that matches; -1 is the empty set of entries.
read_dentry_by_name(fname) ==
    {dir_entries[i] : i \in {j \in Matches(fname) :
                                \A k \in Matches(fname) : j <= k}}

\* Entries are counted from 0.
read_dentry_by_index(index) ==
    IF index >= Len(dir_entries) THEN {} ELSE {dir_entries[index + 1]}

-----------------------------------------------------------------------------
(* The files *)

ByteAt(inode, x) ==
    << index_nodes[inode].data_block_nums[x \div BLOCKSIZE], x % BLOCKSIZE >>
Intact(inode, x) ==
    index_nodes[inode].data_block_nums[x \div BLOCKSIZE] < num_data_blocks
Bytes(inode, offset, n) == [k \in 0 .. n - 1 |-> ByteAt(inode, offset + k)]
NoBytes == [k \in {} |-> <<0, 0>>]

\* What is left of a request of n bytes at an offset.
Available(inode, offset, n) ==
    IF offset >= index_nodes[inode].length THEN 0
    ELSE IF offset + n > index_nodes[inode].length
      THEN index_nodes[inode].length - offset ELSE n

\* The number of bytes copied and the bytes; a block number out of range
\* fails the call however much has been copied before.
read_data(inode, offset, n) ==
    LET count == Available(inode, offset, n) IN
    IF inode \notin Inode THEN [ret |-> FAIL, data |-> NoBytes]
    ELSE IF \A x \in offset .. offset + count - 1 : Intact(inode, x)
      THEN [ret |-> count, data |-> Bytes(inode, offset, count)]
    ELSE [ret |-> FAIL, data |-> NoBytes]

\* An image as createfs makes it: every block of every file is there.
ImageIntact ==
    \A i \in Inode : \A x \in 0 .. index_nodes[i].length - 1 : Intact(i, x)

\* No name fills its field: each is followed by a zero.
NamesTerminated ==
    \A i \in DOMAIN dir_entries :
        Len(dir_entries[i].file_name) < MAX_NAME_LENGTH
=============================================================================
