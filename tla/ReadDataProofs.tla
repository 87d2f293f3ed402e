--------------------------- MODULE ReadDataProofs ---------------------------
(***************************************************************************)
(* The loop of read_data returns the bytes of the file, for every block    *)
(* size, image, offset and length.  The loop invariant says that the       *)
(* buffer holds the bytes copied so far and that the next byte of the      *)
(* request lies in the block of this pass, at data_start.                  *)
(***************************************************************************)
EXTENDS ReadData, TLAPS

\* A number is a multiple of BLOCKSIZE and a rest in one way only.
LEMMA DivModUnique ==
  ASSUME NEW B \in Nat \ {0}, NEW q \in Nat, NEW r \in 0 .. B - 1
  PROVE  (q * B + r) \div B = q /\ (q * B + r) % B = r
  OBVIOUS

LEMMA DivMod ==
  ASSUME NEW B \in Nat \ {0}, NEW x \in Nat
  PROVE  /\ x \div B \in Nat /\ x % B \in 0 .. B - 1
         /\ x = (x \div B) * B + (x % B)
  OBVIOUS

\* Fewer than m whole blocks fit below a position in the first m blocks.
LEMMA BlockBound ==
  ASSUME NEW B \in Nat \ {0}, NEW m \in Nat, NEW q \in Nat, NEW r \in Nat,
         q * B + r < m * B
  PROVE  q < m
  OBVIOUS

Arguments ==
    /\ inode \in 0 .. num_inodes /\ offset \in Nat /\ request \in Nat
    /\ length \in Nat /\ i \in Nat /\ copied \in Nat /\ copied <= length
    /\ pc \in {"check", "loop", "done"} /\ ret \in Nat \cup {FAIL}
    /\ DOMAIN buf = 0 .. copied - 1

AtStart == i = 0 /\ copied = 0 /\ buf = NoBytes /\ length = request

\* The loop invariant.
AtBlock == copied < length =>
    offset + copied = (i + (offset \div BLOCKSIZE)) * BLOCKSIZE + data_start
InLoop ==
    /\ inode \in Inode /\ offset < index_nodes[inode].length
    /\ length = Available(inode, offset, request)
    /\ i = 0 => copied = 0
    /\ AtBlock
    /\ buf = Bytes(inode, offset, copied)
    /\ \A x \in offset .. offset + copied - 1 : Intact(inode, x)
AtEnd ==
    LET result == read_data(inode, offset, request) IN
    ret = result.ret /\ (ret > 0 => buf = result.data)

LoopInv ==
    /\ Arguments
    /\ pc = "check" => AtStart
    /\ pc = "loop" => InLoop
    /\ pc = "done" => AtEnd

USE SizesAssumption, InodesAssumption, RequestAssumption DEF Inode, FAIL

LEMMA InodeType ==
  ASSUME inode \in Inode
  PROVE  /\ index_nodes[inode].length \in Nat
         /\ index_nodes[inode].length <= MAX_BLOCKS * BLOCKSIZE
         /\ \A b \in 0 .. MAX_BLOCKS - 1 :
               index_nodes[inode].data_block_nums[b] \in Nat
  OBVIOUS

LEMMA NoBytesEmpty == /\ DOMAIN NoBytes = 0 .. -1
                      /\ \A x \in Nat : NoBytes = Bytes(inode, x, 0)
  BY DEF NoBytes, Bytes

LEMMA InitInv == Init => LoopInv
  BY NoBytesEmpty DEF Init, LoopInv, Arguments, AtStart

\* Where the pass of the loop stands: the block and the rest.
LEMMA Position ==
  ASSUME Arguments, InLoop, copied < length
  PROVE  /\ i + (offset \div BLOCKSIZE) \in Nat
         /\ i + (offset \div BLOCKSIZE) < MAX_BLOCKS
         /\ data_start \in 0 .. BLOCKSIZE - 1
         /\ cur_data_block \in Nat
         /\ \A d \in Nat : data_start + d < BLOCKSIZE =>
               ByteAt(inode, offset + copied + d)
                 = << cur_data_block, data_start + d >>
         /\ \A d \in Nat : data_start + d < BLOCKSIZE =>
               (Intact(inode, offset + copied + d)
                 <=> cur_data_block < num_data_blocks)
<1> DEFINE q == i + (offset \div BLOCKSIZE)
<1>1. /\ q \in Nat /\ data_start \in Nat /\ data_start \in 0 .. BLOCKSIZE - 1
      /\ BLOCKSIZE \in Nat \ {0} /\ MAX_BLOCKS \in Nat
  <2>1. offset \div BLOCKSIZE \in Nat /\ offset % BLOCKSIZE \in 0 .. BLOCKSIZE - 1
    BY DivMod DEF Arguments
  <2>2. QED
    BY <2>1 DEF Arguments, data_start
<1>2. offset + copied = q * BLOCKSIZE + data_start
  BY DEF InLoop, AtBlock
<1>3. length <= index_nodes[inode].length - offset
  BY InodeType DEF InLoop, Available, Arguments
<1>4. q * BLOCKSIZE + data_start < MAX_BLOCKS * BLOCKSIZE
  BY <1>1, <1>2, <1>3, InodeType DEF InLoop, Arguments
<1>5. q < MAX_BLOCKS
  BY <1>1, <1>4, BlockBound, Zenon
<1>6. cur_data_block = index_nodes[inode].data_block_nums[q]
  BY DEF cur_data_block
<1>7. cur_data_block \in Nat
  BY <1>1, <1>5, <1>6, InodeType DEF InLoop
<1>8. ASSUME NEW d \in Nat, data_start + d < BLOCKSIZE
      PROVE  /\ (offset + copied + d) \div BLOCKSIZE = q
             /\ (offset + copied + d) % BLOCKSIZE = data_start + d
  <2>1. data_start + d \in 0 .. BLOCKSIZE - 1
    BY <1>1, <1>8
  <2> HIDE DEF q
  <2>2. offset + copied + d = q * BLOCKSIZE + (data_start + d)
    <3>1. q * BLOCKSIZE \in Nat
      BY <1>1
    <3>2. QED
      BY <1>1, <1>2, <3>1 DEF Arguments
  <2>3. QED
    BY <1>1, <2>1, <2>2, DivModUnique, ZenonT(60)
<1>9. QED
  BY <1>1, <1>5, <1>6, <1>7, <1>8 DEF ByteAt, Intact

LEMMA CheckStep ==
  ASSUME LoopInv, Check
  PROVE  LoopInv'
<1> USE DEF LoopInv
<1>1. Arguments /\ AtStart
  BY DEF Check
<1>2. CASE inode >= num_inodes /\ Return(FAIL) /\ UNCHANGED length
  <2>1. inode' \notin Inode
    BY <1>1, <1>2 DEF Check, Arguments
  <2>2. AtEnd'
    BY <1>2, <2>1 DEF AtEnd, Return, read_data
  <2>3. QED
    BY <1>1, <1>2, <2>2 DEF Check, Arguments, Return
<1>3. CASE inode < num_inodes /\ offset >= index_nodes[inode].length
           /\ Return(0) /\ UNCHANGED length
  <2>1. inode' \in Inode /\ Available(inode', offset', request') = 0
    BY <1>1, <1>3 DEF Check, Arguments, Available
  <2>2. \A x \in offset' .. offset' + 0 - 1 : Intact(inode', x)
    BY <1>1 DEF Check, Arguments
  <2>3. read_data(inode', offset', request').ret = 0
    BY <2>1, <2>2 DEF read_data
  <2>4. AtEnd'
    BY <1>3, <2>3 DEF AtEnd, Return
  <2>5. QED
    BY <1>1, <1>3, <2>4 DEF Check, Arguments, Return
<1>4. CASE /\ inode < num_inodes /\ offset < index_nodes[inode].length
           /\ length' = IF offset + request > index_nodes[inode].length
                          THEN index_nodes[inode].length - offset
                          ELSE request
           /\ pc' = "loop" /\ UNCHANGED ret
  <2> USE DEF Check
  <2>1. inode' \in Inode /\ offset' < index_nodes[inode'].length
    BY <1>1, <1>4 DEF Arguments
  <2>2. length' = Available(inode', offset', request') /\ length' \in Nat
    BY <1>1, <1>4, <2>1, InodeType DEF Available, Arguments
  <2>3. i' = 0 /\ copied' = 0 /\ buf' = Bytes(inode', offset', copied')
    BY <1>1, NoBytesEmpty DEF AtStart, Arguments, Bytes, NoBytes
  <2>4. AtBlock'
    <3>1. /\ offset \div BLOCKSIZE \in Nat /\ offset % BLOCKSIZE \in Nat
          /\ offset = (offset \div BLOCKSIZE) * BLOCKSIZE + (offset % BLOCKSIZE)
      <4>1. offset \in Nat /\ BLOCKSIZE \in Nat \ {0} /\ BLOCKSIZE \in Nat
        BY <1>1 DEF Arguments
      <4>2. /\ offset \div BLOCKSIZE \in Nat
            /\ offset % BLOCKSIZE \in 0 .. BLOCKSIZE - 1
            /\ offset = (offset \div BLOCKSIZE) * BLOCKSIZE + (offset % BLOCKSIZE)
        BY ONLY <4>1
      <4>3. offset % BLOCKSIZE \in Nat
        BY <4>1, <4>2
      <4>4. QED
        BY <4>2, <4>3, Zenon
    <3>2. offset' = offset /\ i' = 0 /\ copied' = 0
      BY <2>3
    <3>3. offset' + copied' = (offset \div BLOCKSIZE) * BLOCKSIZE
                               + (offset % BLOCKSIZE)
      BY <1>1, <3>1, <3>2 DEF Arguments
    <3>4. i' + (offset' \div BLOCKSIZE) = offset \div BLOCKSIZE
      BY <3>1, <3>2
    <3>5. data_start' = offset % BLOCKSIZE
      BY <3>2 DEF data_start
    <3>6. QED
      BY <3>3, <3>4, <3>5, Zenon DEF AtBlock
  <2>5. \A x \in offset' .. offset' + copied' - 1 : Intact(inode', x)
    BY <1>1, <2>3 DEF Arguments
  <2>6. Arguments'
    BY <1>1, <1>4, <2>2, <2>3 DEF Arguments, AtStart
  <2>7. QED
    BY <1>4, <2>1, <2>2, <2>3, <2>4, <2>5, <2>6 DEF InLoop
<1>5. QED
  BY <1>2, <1>3, <1>4 DEF Check

LEMMA CopyStep ==
  ASSUME LoopInv, Copy
  PROVE  LoopInv'
<1> USE DEF LoopInv
<1>1. Arguments /\ InLoop /\ copied < length /\ pc = "loop"
  BY DEF Copy
<1>2. UNCHANGED <<inode, offset, request, length>>
  BY DEF Copy
<1>3. CASE cur_data_block >= num_data_blocks
  <2>1. Return(FAIL) /\ UNCHANGED <<i, copied, buf>>
    BY <1>3 DEF Copy
  <2>2. ~Intact(inode, offset + copied)
    <3>1. /\ data_start + 0 < BLOCKSIZE /\ offset + copied + 0 = offset + copied
          /\ ~(cur_data_block < num_data_blocks)
      BY <1>1, <1>3, Position DEF Arguments
    <3>2. Intact(inode, offset + copied + 0) <=> cur_data_block < num_data_blocks
      BY <1>1, <3>1, Position
    <3>3. QED
      BY <3>1, <3>2
  <2>3. /\ offset + copied \in
              offset .. offset + Available(inode, offset, request) - 1
        /\ inode \in Inode
    BY <1>1 DEF Arguments, InLoop
  <2>4. read_data(inode, offset, request).ret = FAIL
    BY <2>2, <2>3 DEF read_data
  <2>5. AtEnd'
    BY <1>2, <2>1, <2>4 DEF AtEnd, Return
  <2>6. Arguments'
    BY <1>1, <1>2, <2>1 DEF Arguments, Return
  <2>7. QED
    BY <2>1, <2>5, <2>6 DEF Return
<1>4. CASE ~(cur_data_block >= num_data_blocks)
  <2>1. /\ buf' = [k \in 0 .. (copied + copy_len) - 1 |->
                      IF k < copied THEN buf[k]
                      ELSE << cur_data_block, data_start + (k - copied) >>]
        /\ copied' = copied + copy_len /\ i' = i + 1
        /\ UNCHANGED <<pc, ret>>
    BY <1>1, <1>4 DEF Copy
  <2>2. /\ copy_len \in Nat /\ copied + copy_len <= length
        /\ data_start + copy_len <= BLOCKSIZE
        /\ copied + copy_len < length => data_start + copy_len = BLOCKSIZE
    <3>1. data_start \in 0 .. BLOCKSIZE - 1
      BY <1>1, Position
    <3>2. CASE i = 0
      BY <1>1, <3>1, <3>2 DEF copy_len, data_start, InLoop, Arguments
    <3>3. CASE i # 0
      BY <1>1, <3>1, <3>3 DEF copy_len, data_start, InLoop, Arguments
    <3>4. QED
      BY <3>2, <3>3
  <2>3. ASSUME NEW k \in Nat, copied <= k, k < copied + copy_len
        PROVE  /\ ByteAt(inode, offset + k)
                    = << cur_data_block, data_start + (k - copied) >>
               /\ Intact(inode, offset + k)
    <3>1. /\ k - copied \in Nat /\ offset + copied + (k - copied) = offset + k
          /\ data_start + (k - copied) < BLOCKSIZE
          /\ cur_data_block < num_data_blocks
      BY <1>1, <1>4, <2>2, <2>3, Position DEF Arguments
    <3>2. /\ ByteAt(inode, offset + copied + (k - copied))
               = << cur_data_block, data_start + (k - copied) >>
          /\ Intact(inode, offset + copied + (k - copied))
      BY <1>1, <3>1, Position
    <3>3. QED
      BY <3>1, <3>2
  <2>4. buf' = Bytes(inode, offset, copied + copy_len)
    <3>1. \A k \in 0 .. (copied + copy_len) - 1 :
             (IF k < copied THEN buf[k]
              ELSE << cur_data_block, data_start + (k - copied) >>)
                = ByteAt(inode, offset + k)
      <4> TAKE k \in 0 .. (copied + copy_len) - 1
      <4>1. CASE k < copied
        <5>1. k \in 0 .. copied - 1
          BY <1>1, <2>2, <4>1 DEF Arguments
        <5>2. buf = [j \in 0 .. copied - 1 |-> ByteAt(inode, offset + j)]
          BY <1>1, Zenon DEF InLoop, Bytes
        <5>3. QED
          BY <4>1, <5>1, <5>2
      <4>2. CASE ~(k < copied)
        <5>1. k \in Nat /\ copied <= k /\ k < copied + copy_len
          BY <1>1, <2>2, <4>2 DEF Arguments
        <5>2. QED
          BY <4>2, <5>1, <2>3
      <4>3. QED
        BY <4>1, <4>2
    <3>2. Bytes(inode, offset, copied + copy_len)
            = [k \in 0 .. (copied + copy_len) - 1 |-> ByteAt(inode, offset + k)]
      BY DEF Bytes
    <3>3. buf' = [k \in 0 .. (copied + copy_len) - 1 |->
                     IF k < copied THEN buf[k]
                     ELSE << cur_data_block, data_start + (k - copied) >>]
      BY <2>1, Zenon
    <3>4. QED
      BY <3>1, <3>2, <3>3
  <2>5. \A x \in offset .. offset + (copied + copy_len) - 1 : Intact(inode, x)
    <3> TAKE x \in offset .. offset + (copied + copy_len) - 1
    <3>1. CASE x < offset + copied
      BY <1>1, <2>2, <3>1 DEF InLoop, Arguments
    <3>2. CASE ~(x < offset + copied)
      <4>1. /\ x - offset \in Nat /\ copied <= x - offset
            /\ x - offset < copied + copy_len /\ offset + (x - offset) = x
        BY <1>1, <2>2, <3>2 DEF Arguments
      <4>2. Intact(inode, offset + (x - offset))
        BY <4>1, <2>3
      <4>3. QED
        BY <4>1, <4>2
    <3>3. QED
      BY <3>1, <3>2
  <2>6. AtBlock'
    <3> DEFINE q == i + (offset \div BLOCKSIZE)
    <3>1. q \in Nat /\ BLOCKSIZE \in Nat /\ data_start \in Nat
      BY <1>1, Position
    <3>2. offset + copied = q * BLOCKSIZE + data_start
      BY <1>1 DEF InLoop, AtBlock
    <3>3. i' + (offset' \div BLOCKSIZE) = q + 1
      <4>1. i \in Nat /\ offset \div BLOCKSIZE \in Nat
        BY <1>1, DivMod DEF Arguments
      <4>2. QED
        BY <1>2, <2>1, <4>1
    <3>4. data_start' = 0
      BY <1>1, <2>1 DEF data_start, Arguments
    <3> HIDE DEF q
    <3>5. (q + 1) * BLOCKSIZE = q * BLOCKSIZE + BLOCKSIZE
          /\ q * BLOCKSIZE \in Nat
      BY <3>1
    <3>6. SUFFICES ASSUME copied' < length'
                   PROVE  offset' + copied' = (q + 1) * BLOCKSIZE + 0
      BY <3>3, <3>4 DEF AtBlock
    <3>7. data_start + copy_len = BLOCKSIZE
      BY <1>2, <2>1, <2>2, <3>6
    <3>8. offset + (copied + copy_len) = q * BLOCKSIZE + BLOCKSIZE
      BY <1>1, <2>2, <3>1, <3>2, <3>5, <3>7 DEF Arguments
    <3>9. QED
      BY <1>2, <2>1, <3>5, <3>8
  <2>7. Arguments'
    <3>1. DOMAIN buf' = 0 .. (copied + copy_len) - 1
      BY <2>4, Zenon DEF Bytes
    <3>2. QED
      BY <1>1, <1>2, <2>1, <2>2, <3>1 DEF Arguments
  <2>8. InLoop'
    <3>1. buf' = Bytes(inode', offset', copied')
      BY <1>2, <2>1, <2>4
    <3>2. \A x \in offset' .. offset' + copied' - 1 : Intact(inode', x)
      BY <1>2, <2>1, <2>5 DEF Intact
    <3>3. i' # 0
      BY <1>1, <2>1 DEF Arguments
    <3>4. QED
      BY <1>1, <1>2, <2>6, <3>1, <3>2, <3>3 DEF InLoop, Available
  <2>9. QED
    BY <1>1, <2>1, <2>7, <2>8
<1>5. QED
  BY <1>3, <1>4

LEMMA FinishStep ==
  ASSUME LoopInv, Finish
  PROVE  LoopInv'
<1> USE DEF LoopInv
<1>1. Arguments /\ InLoop /\ copied = length /\ pc = "loop"
  BY DEF Finish, Arguments
<1>2. /\ Return(copied)
      /\ UNCHANGED <<inode, offset, request, length, i, copied, buf>>
  BY DEF Finish
<1>3. /\ read_data(inode, offset, request).ret = copied
      /\ read_data(inode, offset, request).data = buf
  <2>1. /\ inode \in Inode /\ Available(inode, offset, request) = copied
        /\ \A x \in offset .. offset + copied - 1 : Intact(inode, x)
        /\ buf = Bytes(inode, offset, copied)
    BY <1>1 DEF InLoop
  <2>2. QED
    BY <2>1 DEF read_data
<1>4. AtEnd'
  BY <1>2, <1>3 DEF AtEnd, Return
<1>5. Arguments'
  BY <1>1, <1>2 DEF Arguments, Return
<1>6. QED
  BY <1>2, <1>4, <1>5 DEF Return

\* The three facts that make LoopInv an invariant.
THEOREM LoopInvariant == Spec => []LoopInv
<1>1. LoopInv /\ [Next]_vars => LoopInv'
  <2>1. LoopInv /\ UNCHANGED vars => LoopInv'
    BY DEF LoopInv, vars, Arguments, AtStart, InLoop, AtBlock, AtEnd,
           data_start, Available, read_data, Bytes, Intact
  <2>2. QED
    BY <2>1, CheckStep, CopyStep, FinishStep DEF Next
<1>2. QED
  BY <1>1, InitInv, PTL DEF Spec

\* read_data returns the bytes of the file: what read, program_load and
\* execute rely on.
THEOREM ReadDataCorrect == Spec => []ReturnsFileBytes
<1>1. LoopInv => ReturnsFileBytes
  BY DEF LoopInv, AtEnd, ReturnsFileBytes
<1>2. QED
  BY <1>1, LoopInvariant, PTL

\* The loop never indexes past the block numbers of an inode.
THEOREM ReadDataInBounds == Spec => []BlockIndexInInode
<1>1. LoopInv => BlockIndexInInode
  BY Position DEF LoopInv, BlockIndexInInode
<1>2. QED
  BY <1>1, LoopInvariant, PTL

\* Every variable of the loop keeps its type.
THEOREM ReadDataTypes == Spec => []TypeOK
<1>1. LoopInv => TypeOK
  BY DEF LoopInv, Arguments, TypeOK
<1>2. QED
  BY <1>1, LoopInvariant, PTL
=============================================================================
