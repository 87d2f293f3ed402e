---------------------------- MODULE MCFileSystem ----------------------------
(* A small image: blocks of three bytes, files that end inside a block, at  *)
(* its end and just behind it, an empty file, files that share no block.    *)
EXTENDS ReadData, TLC

Blocks(s) == [b \in 0 .. 3 |-> IF b < Len(s) THEN s[b + 1] ELSE 0]
File(len, s) == [length |-> len, data_block_nums |-> Blocks(s)]

NoEntries == <<>>
MCInodes == (0 :> File(0, <<>>)) @@ (1 :> File(1, <<4>>))
         @@ (2 :> File(3, <<2>>)) @@ (3 :> File(4, <<7, 1>>))
         @@ (4 :> File(8, <<9, 0, 5>>)) @@ (5 :> File(12, <<3, 8, 6, 10>>))
\* The same with a block number that does not exist in the middle of a file.
MCDamaged == [MCInodes EXCEPT ![4].data_block_nums[1] = 11]
=============================================================================
