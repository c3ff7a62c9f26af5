----------------------------- MODULE ImgOpProofs -----------------------------
(***************************************************************************)
(* mcuboot_img_op for every partition, buffer and file size, and that its  *)
(* copy is the one FwUpdate assumes, however an image is cut into chunks.  *)
(***************************************************************************)
EXTENDS ImgOpChunks, TLAPS

(* The padding completes a write block.                                    *)
LEMMA PaddingCompletes ==
    ASSUME NEW n \in Nat
    PROVE  /\ Padding(n) \in 0..3
           /\ (n + Padding(n)) % 4 = 0
           /\ n % 4 = 0 => Padding(n) = 0
<1>1. PICK q \in Nat, r \in 0..3 : n = 4 * q + r /\ n % 4 = r
  OBVIOUS
<1>2. CASE r = 0
  BY <1>1, <1>2 DEF Padding
<1>3. CASE r # 0
  <2>1. Padding(n) = 4 - r
    BY <1>1, <1>3 DEF Padding
  <2>2. n + Padding(n) = 4 * (q + 1)
    BY <1>1, <2>1
  <2> QED
    BY <1>1, <1>3, <2>1, <2>2
<1> QED
  BY <1>1, <1>2, <1>3

LEMMA PaddingFits ==
    ASSUME NEW n \in Nat, NEW m \in Nat, n <= m, m % 4 = 0
    PROVE  n + Padding(n) <= m
<1>1. PICK q \in Nat, r \in 0..3 : n = 4 * q + r /\ n % 4 = r
  OBVIOUS
<1>2. PICK k \in Nat : m = 4 * k
  OBVIOUS
<1>3. CASE r = 0
  BY <1>1, <1>3 DEF Padding
<1>4. CASE r # 0
  <2>1. n + Padding(n) = 4 * (q + 1)
    BY <1>1, <1>4 DEF Padding
  <2>2. q + 1 <= k
    BY <1>1, <1>2, <1>4
  <2> QED
    BY <1>2, <2>1, <2>2
<1> QED
  BY <1>1, <1>3, <1>4

LEMMA PaddingShift ==
    ASSUME NEW a \in Nat, NEW n \in Nat, a % 4 = 0
    PROVE  Padding(a + n) = Padding(n)
<1>1. (a + n) % 4 = n % 4
  OBVIOUS
<1> QED
  BY <1>1 DEF Padding

LEMMA BlocksAdd ==
    ASSUME NEW a \in Nat, NEW n \in Nat, a % 4 = 0, n % 4 = 0
    PROVE  (a + n) % 4 = 0
<1>1. PICK j \in Nat : a = 4 * j
  OBVIOUS
<1>2. PICK k \in Nat : n = 4 * k
  OBVIOUS
<1> QED
  BY <1>1, <1>2

-----------------------------------------------------------------------------

(* What the loop has done so far.  A copy leaves a prefix of the file in   *)
(* erased flash, a comparison has found that prefix there.                 *)
Progress ==
    /\ pc = "call" => offset = 0 /\ rem_len = size
    /\ pc = "loop" =>
          /\ ok
          /\ size <= FaSize
          /\ offset + rem_len = size
          /\ rem_len > 0 => offset % 4 = 0
          /\ op = "copy" => \A a \in FlashAddr : flash[a] = IF a < offset THEN file[a] ELSE FF
          /\ op = "cmp" => /\ \A a \in 0..(offset - 1) : flash[a] = file[a]
                           /\ rem_len = 0 => Matches

IInv == TypeOK /\ Progress /\ SuccessMeansInstalled

(* The block in hand lies within the buffer and within the partition.      *)
LEMMA BlockFacts ==
    ASSUME TypeOK, Progress, pc = "loop", rem_len > 0
    PROVE  /\ len \in 1..BufSize /\ len <= rem_len
           /\ Padding(len) \in 0..3
           /\ (len + Padding(len)) % 4 = 0
           /\ len + Padding(len) <= BufSize
           /\ offset + len + Padding(len) <= FaSize
           /\ Padding(offset + len) = Padding(len)
           /\ len < rem_len => len = BufSize /\ Padding(len) = 0 /\ (offset + len) % 4 = 0
<1> USE SizeAssumption DEF TypeOK
<1>1. len \in 1..BufSize /\ len <= rem_len /\ len \in Nat /\ (len < rem_len => len = BufSize)
  BY DEF len
<1>2. /\ offset % 4 = 0 /\ offset \in Nat /\ offset + len \in Nat
      /\ offset + len <= size /\ size <= FaSize
  BY <1>1 DEF Progress
<1>3. Padding(len) \in 0..3 /\ (len + Padding(len)) % 4 = 0
  BY <1>1, PaddingCompletes
<1>4. len + Padding(len) <= BufSize
  BY <1>1, PaddingFits
<1>5. Padding(offset + len) = Padding(len)
  BY <1>1, <1>2, PaddingShift
<1>6. offset + len + Padding(offset + len) <= FaSize
  BY <1>2, PaddingFits
<1>7. ASSUME len < rem_len PROVE Padding(len) = 0 /\ (offset + len) % 4 = 0
  <2>1. len \in Nat /\ len % 4 = 0
    BY <1>1, <1>7
  <2>2. Padding(len) = 0
    BY <2>1, PaddingCompletes
  <2>3. (offset + len) % 4 = 0
    BY <2>1, <1>2, BlocksAdd
  <2> QED
    BY <2>2, <2>3
<1> QED
  BY <1>1, <1>3, <1>4, <1>5, <1>6, <1>7

LEMMA LoopFacts ==
    ASSUME TypeOK, Progress, pc = "loop", rem_len > 0
    PROVE  /\ len \in Nat /\ len <= rem_len /\ Padding(len) \in Nat
           /\ offset \in Nat /\ rem_len \in Nat /\ size \in Nat
           /\ offset + rem_len = size /\ offset + len <= size /\ size <= FaSize /\ FaSize \in Nat
           /\ len < rem_len => (offset + len) % 4 = 0
           /\ Padding(offset + len) = Padding(len)
           /\ offset + len + Padding(len) <= FaSize
<1>1. offset \in Nat /\ rem_len \in Nat /\ size \in Nat /\ FaSize \in Nat /\ BufSize \in Nat
  BY SizeAssumption DEF TypeOK
<1>2. offset + rem_len = size /\ size <= FaSize
  BY DEF Progress
<1>3. /\ len \in 1..BufSize /\ len <= rem_len
      /\ Padding(len) \in 0..3
      /\ Padding(offset + len) = Padding(len)
      /\ offset + len + Padding(len) <= FaSize
      /\ len < rem_len => (offset + len) % 4 = 0
  BY BlockFacts
<1>4. len \in Nat /\ Padding(len) \in Nat
  BY <1>1, <1>3
<1>5. offset + len <= size
  BY <1>1, <1>2, <1>3, <1>4
<1> QED
  BY <1>1, <1>2, <1>3, <1>4, <1>5

LEMMA InitInv == Init => IInv
<1> SUFFICES ASSUME Init PROVE IInv
  OBVIOUS
<1>1. TypeOK
  <2>1. flash \in [FlashAddr -> Byte]
    BY BeforeAssumption DEF Init, FlashAddr
  <2>2. size \in 0..MaxSize /\ offset \in Nat /\ rem_len \in Nat
    BY SizeAssumption DEF Init
  <2>3. file \in [0..(size - 1) -> Byte]
    BY DEF Init
  <2>4. pc \in {"call", "loop", "done"} /\ op \in {"copy", "cmp"}
    BY DEF Init
  <2>5. ok \in BOOLEAN
    BY DEF Init
  <2> QED
    BY <2>1, <2>2, <2>3, <2>4, <2>5 DEF TypeOK
<1>2. Progress /\ SuccessMeansInstalled
  BY DEF Init, Progress, SuccessMeansInstalled
<1> QED
  BY <1>1, <1>2 DEF IInv

LEMMA StepInv == IInv /\ [Next]_vars => IInv'
<1> SUFFICES ASSUME IInv, [Next]_vars PROVE IInv'
  OBVIOUS
<1> USE DEF IInv
<1>1. CASE GiveUp \/ Differ
  <2>1. /\ pc' = "done" /\ ~ok' /\ ok' \in BOOLEAN
        /\ UNCHANGED <<op, size, file, flash, offset, rem_len>>
    BY <1>1 DEF GiveUp, Differ, Return
  <2> QED
    BY <2>1 DEF TypeOK, Progress, SuccessMeansInstalled
<1>2. CASE EraseFails
  <2>1. /\ pc' = "done" /\ ok' = FALSE
        /\ UNCHANGED <<op, size, file, offset, rem_len>>
    BY <1>2 DEF EraseFails, Return
  <2>2. flash' \in [FlashAddr -> Byte]
    BY <1>2, ByteAssumption DEF EraseFails, TypeOK
  <2> QED
    BY <2>1, <2>2 DEF TypeOK, Progress, SuccessMeansInstalled
<1>3. CASE Start
  <2>1. /\ pc = "call" /\ pc' = "loop" /\ ok' = TRUE /\ size <= FaSize
        /\ UNCHANGED <<op, size, file, offset, rem_len>>
        /\ flash' = IF op = "copy" THEN [a \in FlashAddr |-> FF] ELSE flash
    BY <1>3 DEF Start
  <2>2. flash' \in [FlashAddr -> Byte]
    BY <2>1, ByteAssumption DEF TypeOK
  <2>3. TypeOK'
    BY <2>1, <2>2 DEF TypeOK
  <2>4. offset = 0 /\ rem_len = size /\ size \in Nat
    BY <2>1, SizeAssumption DEF Progress, TypeOK
  <2>5. op = "copy" => \A a \in FlashAddr : flash'[a] = IF a < offset THEN file[a] ELSE FF
    BY <2>1, <2>4 DEF FlashAddr
  <2>6. size = 0 => Padding(size) = 0
    BY PaddingCompletes
  <2>7. (rem_len = 0 => Matches)'
    BY <2>1, <2>4, <2>6 DEF Matches, Padding
  <2>8. Progress'
    BY <2>1, <2>4, <2>5, <2>7 DEF Progress
  <2> QED
    BY <2>1, <2>3, <2>8 DEF SuccessMeansInstalled
<1>4. CASE Write
  <2>1. /\ pc = "loop" /\ rem_len > 0 /\ op = "copy" /\ ok /\ UNCHANGED <<pc, op, size, file, ok>>
        /\ offset' = offset + len /\ rem_len' = rem_len - len
        /\ flash' = [a \in FlashAddr |-> IF a \in Block THEN BlockByte(a) ELSE flash[a]]
    BY <1>4 DEF Write, Advance, Progress
  <2>2. /\ len \in Nat /\ len <= rem_len /\ Padding(len) \in Nat /\ offset \in Nat /\ rem_len \in Nat
        /\ offset + rem_len = size /\ size \in Nat
        /\ len < rem_len => (offset + len) % 4 = 0
    BY <2>1, LoopFacts
  <2>3. ASSUME NEW a \in FlashAddr
        PROVE  /\ flash'[a] = IF a < offset' THEN file[a] ELSE FF
               /\ flash'[a] \in Byte
    <3>1. a \in Int /\ a >= 0 /\ flash[a] = IF a < offset THEN file[a] ELSE FF
      BY <2>1 DEF Progress, FlashAddr
    <3>2. flash'[a] = IF a < offset + len THEN file[a] ELSE FF
      BY <2>1, <2>2, <3>1 DEF Block, BlockByte
    <3>3. a < offset + len => file[a] \in Byte
      BY <2>2, <3>1 DEF TypeOK
    <3> QED
      BY <2>1, <3>2, <3>3, ByteAssumption
  <2>4. flash' \in [FlashAddr -> Byte]
    BY <2>1, <2>3
  <2>5. TypeOK'
    BY <2>1, <2>2, <2>4 DEF TypeOK
  <2>6. Progress'
    BY <2>1, <2>2, <2>3 DEF Progress
  <2> QED
    BY <2>1, <2>5, <2>6 DEF SuccessMeansInstalled
<1>5. CASE Compare
  <2>1. /\ pc = "loop" /\ rem_len > 0 /\ op = "cmp" /\ Same
        /\ UNCHANGED <<pc, op, size, file, flash, ok>>
        /\ offset' = offset + len /\ rem_len' = rem_len - len
    BY <1>5 DEF Compare, Advance
  <2>2. /\ len \in Nat /\ len <= rem_len /\ Padding(len) \in Nat /\ offset \in Nat /\ rem_len \in Nat
        /\ offset + rem_len = size /\ size \in Nat
        /\ len < rem_len => (offset + len) % 4 = 0
        /\ Padding(offset + len) = Padding(len)
    BY <2>1, LoopFacts
  <2>3. \A a \in 0..(offset + len + Padding(len) - 1) :
           flash[a] = IF a < offset + len THEN file[a] ELSE FF
    <3> SUFFICES ASSUME NEW a \in 0..(offset + len + Padding(len) - 1)
                 PROVE  flash[a] = IF a < offset + len THEN file[a] ELSE FF
      OBVIOUS
    <3>1. CASE a < offset
      BY <2>1, <2>2, <3>1 DEF Progress
    <3>2. CASE a >= offset
      BY <2>1, <2>2, <3>2 DEF Same, Block, BlockByte
    <3> QED
      BY <2>2, <3>1, <3>2
  <2>4. \A a \in 0..(offset' - 1) : flash'[a] = file'[a]
    BY <2>1, <2>2, <2>3
  <2>5. rem_len' = 0 => offset + len = size
    BY <2>1, <2>2
  <2>6. (rem_len = 0 => Matches)'
    BY <2>1, <2>2, <2>3, <2>5 DEF Matches, Padding
  <2>7. TypeOK'
    BY <2>1, <2>2 DEF TypeOK
  <2>8. Progress'
    BY <2>1, <2>2, <2>4, <2>6 DEF Progress
  <2> QED
    BY <2>1, <2>7, <2>8 DEF SuccessMeansInstalled
<1>6. CASE LoopFails
  <2>1. /\ pc = "loop" /\ rem_len > 0 /\ pc' = "done" /\ ok' = FALSE
        /\ UNCHANGED <<op, size, file, offset, rem_len>>
    BY <1>6 DEF LoopFails, Return
  <2>2. flash' \in [FlashAddr -> Byte]
    <3>1. CASE flash' = flash
      BY <3>1 DEF TypeOK
    <3>2. ASSUME NEW n \in 0..(len - 1),
                 flash' = [a \in FlashAddr |->
                             IF a \in offset..(offset + n) THEN BlockByte(a) ELSE flash[a]]
          PROVE  flash' \in [FlashAddr -> Byte]
      <4>1. len \in Nat /\ offset \in Nat /\ offset + len <= size /\ size \in Nat
        BY <2>1, LoopFacts
      <4>2. ASSUME NEW a \in FlashAddr, a \in offset..(offset + n) PROVE BlockByte(a) \in Byte
        BY <4>1, <4>2 DEF BlockByte, TypeOK
      <4> QED
        BY <3>2, <4>2 DEF TypeOK
    <3> QED
      BY <1>6, <3>1, <3>2 DEF LoopFails
  <2> QED
    BY <2>1, <2>2 DEF TypeOK, Progress, SuccessMeansInstalled
<1>7. CASE Finish
  <2>1. /\ pc = "loop" /\ rem_len = 0 /\ pc' = "done" /\ ok' = ok
        /\ UNCHANGED <<op, size, file, flash, offset, rem_len>>
    BY <1>7 DEF Finish, Return
  <2>2. offset = size /\ size \in Nat
    BY <2>1, SizeAssumption DEF Progress, TypeOK
  <2>3. IF op = "copy" THEN Installed ELSE Matches
    BY <2>1, <2>2 DEF Progress, Installed, TypeOK
  <2>4. SuccessMeansInstalled'
    BY <2>1, <2>3 DEF SuccessMeansInstalled, Installed, Matches, Padding
  <2> QED
    BY <2>1, <2>4 DEF TypeOK, Progress
<1>8. CASE NextCall
  <2>1. /\ pc' = "call" /\ ok' = FALSE /\ op' \in {"copy", "cmp"} /\ offset' = 0 /\ rem_len' = size
        /\ UNCHANGED <<size, file, flash>>
    BY <1>8 DEF NextCall
  <2>2. offset' \in Nat /\ rem_len' \in Nat /\ size \in Nat
    BY <2>1, SizeAssumption DEF TypeOK
  <2>3. ok' \in BOOLEAN
    BY <2>1
  <2>4. TypeOK'
    BY <2>1, <2>2, <2>3 DEF TypeOK, FlashAddr
  <2>5. Progress'
    BY <2>1 DEF Progress
  <2>6. SuccessMeansInstalled'
    BY <2>1 DEF SuccessMeansInstalled
  <2> QED
    BY <2>4, <2>5, <2>6
<1>9. CASE UNCHANGED vars
  BY <1>9 DEF vars, TypeOK, Progress, SuccessMeansInstalled, Installed, Matches, FlashAddr, Padding
<1> QED
  BY <1>1, <1>2, <1>3, <1>4, <1>5, <1>6, <1>7, <1>8, <1>9 DEF Next

LEMMA Inductive == Spec => []IInv
BY InitInv, StepInv, PTL DEF Spec

(* The types of the loop's state.                                          *)
THEOREM TypeCorrect == Spec => []TypeOK
<1>1. IInv => TypeOK
  BY DEF IInv
<1> QED
  BY <1>1, Inductive, PTL

(* When mcuboot_img_op_copy returns true the partition is the file padded  *)
(* with erased flash; when mcuboot_img_op_cmp does, it starts with it.     *)
THEOREM CopyIsFaithful == Spec => []SuccessMeansInstalled
<1>1. IInv => SuccessMeansInstalled
  BY DEF IInv
<1> QED
  BY <1>1, Inductive, PTL

(* The padded block never leaves the 256-byte buffer or the partition, and *)
(* is always written at a write-block boundary.                            *)
THEOREM NoOutOfBoundsBlock == Spec => []BlocksInBounds
<1>1. IInv => BlocksInBounds
  BY BlockFacts DEF IInv, BlocksInBounds, Progress
<1> QED
  BY <1>1, Inductive, PTL

(* A copy writes erased flash only.                                        *)
THEOREM NoByteWrittenTwice == Spec => WriteOnce
<1>1. IInv => [Write => \A a \in Block : flash[a] = FF]_vars
  <2> SUFFICES ASSUME IInv, Write, NEW a \in Block PROVE flash[a] = FF
    OBVIOUS
  <2>1. pc = "loop" /\ rem_len > 0 /\ op = "copy"
    BY DEF Write
  <2>2. /\ len \in Nat /\ Padding(len) \in Nat /\ offset \in Nat /\ FaSize \in Nat
        /\ offset + len + Padding(len) <= FaSize
    BY <2>1, LoopFacts DEF IInv
  <2>3. a \in FlashAddr /\ a >= offset
    BY <2>2 DEF Block, FlashAddr
  <2> QED
    BY <2>1, <2>3, <2>2 DEF IInv, Progress, FlashAddr
<1> QED
  BY <1>1, Inductive, PTL DEF WriteOnce

-----------------------------------------------------------------------------
(* The copy seen chunk by chunk.                                           *)

(* How far a copy is.  It stands in front of a full buffer, inside the     *)
(* chunk in hand, or has come to the end of the file.                      *)
CopyProgress ==
    pc = "loop" /\ op = "copy" =>
        /\ begun /\ have = 1..(chunk - 1)
        /\ rem_len > 0 => /\ chunk <= NChunks
                          /\ \E m \in Nat : offset = m * BufSize
                          /\ chunk < NChunks => offset < ChunkEnd(chunk)
        /\ \A c \in have : c < NChunks => ChunkEnd(c) <= offset
        /\ NChunks \in have => rem_len = 0
        /\ AllChunks /\ rem_len = 0 => chunk = NChunks + 1

ChunkTypeOK ==
    /\ begun \in BOOLEAN
    /\ have \subseteq Chunks
    /\ chunk \in 1..(NChunks + 1)

CInv == IInv /\ ChunkTypeOK /\ ChunksAreInFlash /\ CopyProgress

(* A number of full buffers less than another one is less by a buffer.     *)
LEMMA FullBuffers ==
    ASSUME NEW m \in Nat, NEW n \in Nat
    PROVE  /\ m * BufSize \in Nat
           /\ m * BufSize < n * BufSize => m * BufSize + BufSize <= n * BufSize
           /\ m < n => m * BufSize < n * BufSize
           /\ m * BufSize + BufSize = (m + 1) * BufSize
<1>1. BufSize \in Nat /\ BufSize > 0
  BY SizeAssumption
<1>2. ASSUME NEW a \in Nat, NEW b \in Nat, a <= b PROVE a * BufSize <= b * BufSize
  <2>1. PICK d \in Nat : b = a + d
    BY <1>2
  <2>2. b * BufSize = a * BufSize + d * BufSize /\ d * BufSize >= 0
    BY <1>1, <2>1
  <2> QED
    BY <1>1, <2>2
<1>3. (m + 1) * BufSize = m * BufSize + BufSize
  BY <1>1
<1>4. m < n => (m + 1) * BufSize <= n * BufSize
  BY <1>2
<1>5. n <= m => n * BufSize <= m * BufSize
  BY <1>2
<1>6. m * BufSize \in Nat /\ n * BufSize \in Nat
  BY <1>1
<1> QED
  BY <1>1, <1>3, <1>4, <1>5, <1>6

LEMMA ChunkEnds ==
    ASSUME NEW c \in Chunks, c < NChunks
    PROVE  /\ ChunkEnd(c) \in Nat /\ ChunkEnd(c) > 0
           /\ \E n \in Nat : ChunkEnd(c) = n * BufSize
           /\ c + 1 < NChunks => ChunkEnd(c) < ChunkEnd(c + 1)
           /\ NChunks > 1 /\ ChunkStart(NChunks) = ChunkEnd(NChunks - 1)
           /\ ChunkEnd(c) <= ChunkStart(NChunks)
<1>1. NChunks \in Nat /\ c \in 1..(NChunks - 1)
  BY ChunksAssumption DEF Chunks
<1>2. \A k \in 1..(NChunks - 1) :
         /\ ChunkBlocks[k] \in Nat \ {0}
         /\ ChunkEnd(k) = ChunkBlocks[k] * BufSize
  BY <1>1, ChunksAssumption DEF ChunkEnd
<1>3. ASSUME NEW j \in 1..(NChunks - 1), NEW k \in 1..(NChunks - 1), j < k
      PROVE  ChunkEnd(j) < ChunkEnd(k)
  <2>1. ChunkBlocks[j] \in Nat /\ ChunkBlocks[k] \in Nat /\ ChunkBlocks[j] < ChunkBlocks[k]
    BY <1>2, <1>3, ChunksAssumption
  <2> QED
    BY <1>2, <2>1, FullBuffers
<1>4. ChunkEnd(c) \in Nat /\ ChunkEnd(c) > 0
  <2>1. 0 < ChunkBlocks[c] /\ ChunkBlocks[c] \in Nat
    BY <1>1, <1>2
  <2>2. 0 * BufSize < ChunkBlocks[c] * BufSize /\ ChunkBlocks[c] * BufSize \in Nat
    BY <2>1, FullBuffers
  <2>3. 0 * BufSize = 0
    BY SizeAssumption
  <2> QED
    BY <1>1, <1>2, <2>2, <2>3
<1>5. c + 1 < NChunks => ChunkEnd(c) < ChunkEnd(c + 1)
  BY <1>1, <1>3
<1>6. NChunks > 1 /\ ChunkStart(NChunks) = ChunkEnd(NChunks - 1)
  BY <1>1 DEF ChunkStart
<1>7. ChunkEnd(c) <= ChunkEnd(NChunks - 1)
  <2>1. CASE c = NChunks - 1
    BY <1>4, <2>1
  <2>2. CASE c < NChunks - 1
    <3>1. NChunks - 1 \in 1..(NChunks - 1)
      BY <1>1
    <3>2. ChunkEnd(NChunks - 1) \in Nat
      <4>1. ChunkBlocks[NChunks - 1] \in Nat
        BY <1>2, <3>1
      <4> QED
        BY <4>1, <3>1, <1>2, FullBuffers
    <3>3. ChunkEnd(c) < ChunkEnd(NChunks - 1)
      BY <1>1, <1>3, <2>2, <3>1
    <3> QED
      BY <1>4, <3>2, <3>3
  <2> QED
    BY <1>1, <2>1, <2>2
<1> QED
  BY <1>1, <1>2, <1>4, <1>5, <1>6, <1>7

LEMMA ChunkInitInv == ChunkInit => CInv
<1> SUFFICES ASSUME ChunkInit PROVE CInv
  OBVIOUS
<1>1. IInv
  BY InitInv DEF ChunkInit
<1>2. ChunkTypeOK
  <2>1. 1 \in 1..(NChunks + 1)
    BY ChunksAssumption
  <2> QED
    BY <2>1 DEF ChunkInit, ChunkTypeOK
<1>3. ChunksAreInFlash /\ CopyProgress
  BY DEF ChunkInit, Init, ChunksAreInFlash, CopyProgress
<1> QED
  BY <1>1, <1>2, <1>3 DEF CInv

LEMMA ChunkStepNext == [ChunkNext]_callVars => [Next]_vars
BY DEF ChunkNext, ChunkGiveUp, ChunkEraseFails, ChunkStartCopy, ChunkWrite, ChunkWritePart, ChunkOther,
       Next, callVars, vars

(* One turn of a copy: the chunk in hand ends with this buffer or after it.*)
LEMMA WriteFacts ==
    ASSUME CInv, Write
    PROVE  /\ pc = "loop" /\ op = "copy" /\ pc' = "loop" /\ UNCHANGED <<op, size, file, ok>>
           /\ offset \in Nat /\ rem_len \in Nat /\ size \in Nat /\ len \in Nat
           /\ offset' = offset + len /\ rem_len' = rem_len - len /\ len > 0 /\ len <= rem_len
           /\ offset + rem_len = size /\ size <= FaSize
           /\ rem_len' > 0 => \E m \in Nat : offset' = m * BufSize
           /\ chunk \in Chunks
           /\ chunk < NChunks => offset + len <= ChunkEnd(chunk)
           /\ Completes <=> offset' = IF chunk < NChunks THEN ChunkEnd(chunk) ELSE size
           /\ chunk = NChunks => (Completes <=> rem_len' = 0)
<1>1. /\ pc = "loop" /\ op = "copy" /\ rem_len > 0 /\ UNCHANGED <<pc, op, size, file, ok>>
      /\ offset' = offset + len /\ rem_len' = rem_len - len
  BY DEF Write, Advance
<1>2. TypeOK /\ Progress
  BY DEF CInv, IInv
<1>3. /\ len \in 1..BufSize /\ len <= rem_len
      /\ len < rem_len => len = BufSize
  BY <1>1, <1>2, BlockFacts
<1>4. /\ offset \in Nat /\ rem_len \in Nat /\ size \in Nat /\ BufSize \in Nat
      /\ offset + rem_len = size /\ size <= FaSize /\ FaSize \in Nat
  BY <1>1, <1>2, SizeAssumption DEF TypeOK, Progress
<1>5. PICK m \in Nat : offset = m * BufSize
  BY <1>1 DEF CInv, CopyProgress
<1>6. rem_len' > 0 => offset' = (m + 1) * BufSize /\ m + 1 \in Nat
  <2>1. m * BufSize + BufSize = (m + 1) * BufSize
    BY <1>5, FullBuffers
  <2> QED
    BY <1>1, <1>3, <1>4, <1>5, <2>1
<1>7. chunk \in Chunks
  BY <1>1, ChunksAssumption DEF CInv, CopyProgress, ChunkTypeOK, Chunks
<1>8. ASSUME chunk < NChunks PROVE offset + len <= ChunkEnd(chunk) /\ ChunkEnd(chunk) \in Nat
  <2>1. offset < ChunkEnd(chunk)
    BY <1>1, <1>8 DEF CInv, CopyProgress
  <2>2. PICK n \in Nat : ChunkEnd(chunk) = n * BufSize
    BY <1>7, <1>8, ChunkEnds
  <2>3. ChunkEnd(chunk) \in Nat
    BY <1>7, <1>8, ChunkEnds
  <2>4. offset + BufSize <= ChunkEnd(chunk)
    BY <1>5, <2>1, <2>2, FullBuffers
  <2> QED
    BY <1>3, <1>4, <2>3, <2>4
<1>9. chunk < NChunks \/ chunk = NChunks
  BY <1>7, ChunksAssumption DEF Chunks
<1>10. chunk = NChunks => ~(chunk < NChunks)
  BY ChunksAssumption
<1>11. Completes <=> offset' = IF chunk < NChunks THEN ChunkEnd(chunk) ELSE size
  BY <1>1, <1>3, <1>4, <1>8 DEF Completes
<1>12. chunk = NChunks => (Completes <=> rem_len' = 0)
  BY <1>1, <1>3, <1>4, <1>10, <1>11
<1>13. rem_len' > 0 => \E k \in Nat : offset' = k * BufSize
  BY <1>6
<1>14. rem_len > 0 /\ len > 0 /\ len \in Nat
  BY <1>1, <1>3
<1> QED
  BY <1>1, <1>3, <1>4, <1>7, <1>8, <1>11, <1>12, <1>13, <1>14

(* While a copy is under way, what lies before offset is in flash.         *)
CopyShows == pc = "loop" /\ op = "copy" /\ IInv /\ ChunkTypeOK /\ CopyProgress => ChunksAreInFlash

LEMMA InFlashOfProgress == CopyShows
<1> SUFFICES ASSUME pc = "loop", op = "copy", IInv, ChunkTypeOK, CopyProgress,
                    NEW c \in have, NEW a \in ChunkBytes(c)
             PROVE  flash[a] = IF a < size THEN file[a] ELSE FF
  BY DEF CopyShows, ChunksAreInFlash
<1>1. /\ a \in FlashAddr /\ a < ChunkEnd(c) /\ a \in Nat
      /\ c \in Chunks
  BY DEF ChunkBytes, FlashAddr, ChunkTypeOK
<1>2. /\ flash[a] = IF a < offset THEN file[a] ELSE FF
      /\ offset \in Nat /\ rem_len \in Nat /\ size \in Nat /\ offset + rem_len = size
  BY <1>1 DEF IInv, TypeOK, Progress
<1>3. c < NChunks \/ c = NChunks
  BY <1>1, ChunksAssumption DEF Chunks
<1>4. CASE c < NChunks
  <2>1. ChunkEnd(c) <= offset /\ ChunkEnd(c) \in Nat
    BY <1>1, <1>4, ChunkEnds DEF CopyProgress
  <2> QED
    BY <1>1, <1>2, <2>1
<1>5. CASE c = NChunks
  <2>1. rem_len = 0
    BY <1>5 DEF CopyProgress
  <2> QED
    BY <1>2, <2>1
<1> QED
  BY <1>3, <1>4, <1>5

LEMMA InFlashNext == CopyShows'
BY InFlashOfProgress, PTL

(* A step of a copy that has not completed the last chunk is not at the    *)
(* end of a file that reaches into it.                                     *)
LEMMA ChunkWriteInv == CInv /\ (ChunkWrite \/ ChunkWritePart) => CInv'
<1> SUFFICES ASSUME CInv, ChunkWrite \/ ChunkWritePart PROVE CInv'
  OBVIOUS
<1>1. Write /\ begun' = begun
  BY DEF ChunkWrite, ChunkWritePart, chunkVars
<1>2. /\ pc = "loop" /\ op = "copy" /\ pc' = "loop" /\ UNCHANGED <<op, size, file, ok>>
      /\ offset \in Nat /\ rem_len \in Nat /\ size \in Nat /\ len \in Nat
      /\ offset' = offset + len /\ rem_len' = rem_len - len /\ len > 0 /\ len <= rem_len
      /\ offset + rem_len = size /\ size <= FaSize
      /\ rem_len' > 0 => \E m \in Nat : offset' = m * BufSize
      /\ chunk \in Chunks
      /\ chunk < NChunks => offset + len <= ChunkEnd(chunk)
      /\ Completes <=> offset' = IF chunk < NChunks THEN ChunkEnd(chunk) ELSE size
      /\ chunk = NChunks => (Completes <=> rem_len' = 0)
  BY <1>1, WriteFacts
<1>3. IInv'
  BY <1>1, StepInv DEF CInv, Next
<1>4. NChunks \in Nat /\ chunk \in 1..NChunks
  BY <1>2, ChunksAssumption DEF Chunks
<1>5. /\ begun /\ have = 1..(chunk - 1)
      /\ \A c \in have : c < NChunks => ChunkEnd(c) <= offset
  BY <1>2 DEF CInv, CopyProgress
<1>6. \A c \in Chunks : ChunkEnd(c)' = ChunkEnd(c)
  BY DEF ChunkEnd
<1>7. \A c \in Chunks : c < NChunks => ChunkEnd(c) \in Nat
  BY ChunkEnds
<1>8. AllChunks' = AllChunks /\ (chunk < NChunks /\ AllChunks => ChunkEnd(chunk) < size)
  <2>1. AllChunks' = AllChunks
    BY <1>2 DEF AllChunks
  <2>2. ASSUME chunk < NChunks, AllChunks PROVE ChunkEnd(chunk) < size
    <3>1. ChunkEnd(chunk) <= ChunkStart(NChunks) /\ ChunkStart(NChunks) \in Nat /\ ChunkEnd(chunk) \in Nat
      <4>1. NChunks - 1 \in Chunks /\ NChunks - 1 < NChunks
        BY <1>4, <2>2 DEF Chunks
      <4> QED
        BY <1>2, <2>2, <4>1, ChunkEnds
    <3> QED
      BY <1>2, <2>2, <3>1 DEF AllChunks
  <2> QED
    BY <2>1, <2>2
<1>9. CASE ChunkWritePart
  <2>1. ~Completes /\ have' = have /\ chunk' = chunk
    BY <1>9 DEF ChunkWritePart, chunkVars
  <2>2. chunk < NChunks => offset' < ChunkEnd(chunk)
    BY <1>2, <1>7, <2>1
  <2>3. chunk = NChunks => rem_len' > 0
    BY <1>2, <2>1
  <2>4. AllChunks => rem_len' > 0
    BY <1>2, <1>4, <1>7, <1>8, <2>2, <2>3
  <2>5. CopyProgress'
    <3>1. \A c \in have : c \in Chunks /\ (c < NChunks => ChunkEnd(c) <= offset')
      BY <1>2, <1>4, <1>5, <1>7 DEF Chunks
    <3>2. NChunks \notin have
      BY <1>4, <1>5
    <3> QED
      BY <1>1, <1>2, <1>4, <1>5, <1>6, <1>8, <2>1, <2>2, <2>4, <3>1, <3>2 DEF CopyProgress
  <2>6. ChunkTypeOK'
    BY <1>1, <2>1 DEF CInv, ChunkTypeOK, Chunks
  <2> QED
    BY <1>2, <1>3, <2>5, <2>6, InFlashNext DEF CInv, CopyShows
<1>10. CASE ChunkWrite
  <2>1. Completes /\ have' = have \cup {chunk} /\ chunk' = chunk + 1
    BY <1>10 DEF ChunkWrite
  <2>2. have' = 1..(chunk' - 1)
    BY <1>4, <1>5, <2>1
  <2>3. ASSUME chunk < NChunks
        PROVE  /\ offset' = ChunkEnd(chunk)
               /\ AllChunks => rem_len' > 0
               /\ chunk' < NChunks => offset' < ChunkEnd(chunk')
    BY <1>2, <1>4, <1>7, <1>8, <2>1, <2>3, ChunkEnds
  <2>4. chunk = NChunks => rem_len' = 0
    BY <1>2, <2>1
  <2>5. CopyProgress'
    <3>1. \A c \in have' : c \in Chunks /\ (c < NChunks => ChunkEnd(c) <= offset')
      BY <1>2, <1>4, <1>5, <1>7, <2>1, <2>3 DEF Chunks
    <3>2. NChunks \in have' => rem_len' = 0
      BY <1>4, <1>5, <2>1, <2>4
    <3>3. rem_len' > 0 => chunk' <= NChunks
      BY <1>4, <2>1, <2>4
    <3>4. AllChunks /\ rem_len' = 0 => chunk' = NChunks + 1
      BY <1>4, <2>1, <2>3
    <3>5. chunk' < NChunks => offset' < ChunkEnd(chunk')
      BY <1>4, <2>1, <2>3
    <3> QED
      BY <1>1, <1>2, <1>5, <1>6, <1>8, <2>2, <3>1, <3>2, <3>3, <3>4, <3>5 DEF CopyProgress, ChunkEnd
  <2>6. ChunkTypeOK'
    BY <1>1, <1>2, <1>4, <2>1 DEF CInv, ChunkTypeOK, Chunks
  <2> QED
    BY <1>2, <1>3, <2>5, <2>6, InFlashNext DEF CInv, CopyShows
<1> QED
  BY <1>9, <1>10

(* Erasing leaves what it did not touch.                                   *)
LEMMA ChunkEraseInv == CInv /\ (ChunkEraseFails \/ ChunkStartCopy) => CInv'
<1> SUFFICES ASSUME CInv, ChunkEraseFails \/ ChunkStartCopy PROVE CInv'
  OBVIOUS
<1>1. EraseFails \/ Start
  BY DEF ChunkEraseFails, ChunkStartCopy
<1>2. IInv'
  BY <1>1, StepInv DEF CInv, Next
<1>3. CASE ChunkEraseFails
  <2>1. /\ pc' = "done" /\ UNCHANGED <<size, file, begun, chunk>>
        /\ have' = {c \in have : \A a \in ChunkBytes(c) : flash'[a] = flash[a]}
    BY <1>3 DEF ChunkEraseFails, EraseFails, Return, chunkVars
  <2>2. ChunkTypeOK'
    BY <2>1 DEF CInv, ChunkTypeOK, Chunks
  <2>3. \A c \in have : ChunkBytes(c)' = ChunkBytes(c)
    BY DEF ChunkBytes, ChunkStart, ChunkEnd, FlashAddr
  <2>4. ChunksAreInFlash'
    <3> SUFFICES ASSUME begun', NEW c \in have', NEW a \in ChunkBytes(c)'
                 PROVE  flash'[a] = IF a < size' THEN file'[a] ELSE FF
      BY DEF ChunksAreInFlash
    <3>1. c \in have /\ a \in ChunkBytes(c) /\ flash'[a] = flash[a]
      BY <2>1, <2>3
    <3> QED
      BY <2>1, <3>1 DEF CInv, ChunksAreInFlash
  <2>5. CopyProgress'
    BY <2>1 DEF CopyProgress
  <2> QED
    BY <1>2, <2>2, <2>4, <2>5 DEF CInv
<1>4. CASE ChunkStartCopy
  <2>1. /\ pc = "call" /\ pc' = "loop" /\ op = "copy" /\ UNCHANGED <<op, size, file, offset, rem_len>>
        /\ begun' = TRUE /\ have' = {} /\ chunk' = 1
    BY <1>4 DEF ChunkStartCopy, Start
  <2>2. ChunkTypeOK'
    <3>1. chunk' \in 1..(NChunks + 1)
      BY <2>1, ChunksAssumption
    <3> QED
      BY <2>1, <3>1 DEF ChunkTypeOK
  <2>3. ChunksAreInFlash'
    BY <2>1 DEF ChunksAreInFlash
  <2>4. offset = 0 /\ rem_len = size /\ size \in Nat
    BY <2>1, SizeAssumption DEF CInv, IInv, Progress, TypeOK
  <2>5. NChunks \in Nat /\ NChunks >= 1
    BY ChunksAssumption
  <2>6. 1 < NChunks => 0 < ChunkBlocks[1] * BufSize
    BY <2>5, ChunkEnds DEF Chunks, ChunkEnd
  <2>7. 0 * BufSize = 0
    BY SizeAssumption
  <2>8. ~(AllChunks /\ size = 0)
    <3>1. ChunkStart(NChunks) \in Nat
      <4>1. CASE NChunks = 1
        BY <4>1 DEF ChunkStart
      <4>2. CASE NChunks > 1
        <5>1. NChunks - 1 \in Chunks /\ NChunks - 1 < NChunks
          BY <2>5, <4>2 DEF Chunks
        <5> QED
          BY <5>1, ChunkEnds
      <4> QED
        BY <2>5, <4>1, <4>2
    <3> QED
      BY <3>1 DEF AllChunks
  <2>9. CopyProgress'
    <3>1. have' = 1..(chunk' - 1) /\ begun'
      BY <2>1
    <3>2. chunk' <= NChunks /\ (\E m \in Nat : offset' = m * BufSize)
      BY <2>1, <2>4, <2>5, <2>7
    <3>3. (chunk < NChunks => offset < ChunkEnd(chunk))'
      BY <2>1, <2>4, <2>6 DEF ChunkEnd
    <3>4. ~(AllChunks' /\ rem_len' = 0)
      <4>1. AllChunks' = AllChunks
        BY <2>1 DEF AllChunks
      <4> QED
        BY <2>1, <2>4, <2>8, <4>1
    <3> QED
      BY <2>1, <3>1, <3>2, <3>3, <3>4 DEF CopyProgress
  <2> QED
    BY <1>2, <2>2, <2>3, <2>9 DEF CInv
<1> QED
  BY <1>3, <1>4

(* A write that fails stays within the chunk in hand.                      *)
LEMMA ChunkOtherInv == CInv /\ (ChunkGiveUp \/ ChunkOther) => CInv'
<1> SUFFICES ASSUME CInv, ChunkGiveUp \/ ChunkOther PROVE CInv'
  OBVIOUS
<1>1. /\ GiveUp \/ (Start /\ op = "cmp") \/ Compare \/ Differ \/ LoopFails \/ Finish \/ NextCall
      /\ UNCHANGED chunkVars
  BY DEF ChunkGiveUp, ChunkOther
<1>2. IInv'
  BY <1>1, StepInv DEF CInv, Next
<1>3. UNCHANGED <<size, file>> /\ ~(pc' = "loop" /\ op' = "copy")
  BY <1>1 DEF GiveUp, Start, Compare, Differ, LoopFails, Finish, NextCall, Return
<1>4. ChunkTypeOK'
  BY <1>1 DEF CInv, ChunkTypeOK, Chunks, chunkVars
<1>5. CopyProgress'
  BY <1>3 DEF CopyProgress
<1>6. ASSUME NEW c \in have, NEW a \in ChunkBytes(c), begun PROVE flash'[a] = flash[a]
  <2>1. CASE flash' = flash
    BY <2>1
  <2>2. ASSUME LoopFails, op = "copy", NEW n \in 0..(len - 1),
               flash' = [b \in FlashAddr |->
                           IF b \in offset..(offset + n) THEN BlockByte(b) ELSE flash[b]]
        PROVE  flash'[a] = flash[a]
    <3>1. pc = "loop" /\ rem_len > 0
      BY <2>2 DEF LoopFails
    <3>2. /\ c \in Chunks /\ c # NChunks /\ ChunkEnd(c) <= offset /\ offset \in Nat
      <4>1. c \in Chunks /\ c # NChunks
        BY <2>2, <3>1 DEF CInv, ChunkTypeOK, CopyProgress
      <4>2. c < NChunks
        BY <4>1, ChunksAssumption DEF Chunks
      <4> QED
        BY <2>2, <3>1, <4>1, <4>2 DEF CInv, CopyProgress, IInv, TypeOK
    <3>3. c < NChunks /\ ChunkEnd(c) \in Nat
      BY <3>2, ChunksAssumption, ChunkEnds DEF Chunks
    <3>4. a \in FlashAddr /\ a < ChunkEnd(c) /\ a \in Nat
      BY DEF ChunkBytes, FlashAddr
    <3>5. a \notin offset..(offset + n)
      BY <3>2, <3>3, <3>4
    <3> QED
      BY <2>2, <3>4, <3>5
  <2> QED
    BY <1>1, <2>1, <2>2 DEF GiveUp, Start, Compare, Differ, LoopFails, Finish, NextCall
<1>7. ChunksAreInFlash'
  <2> SUFFICES ASSUME begun', NEW c \in have', NEW a \in ChunkBytes(c)'
               PROVE  flash'[a] = IF a < size' THEN file'[a] ELSE FF
    BY DEF ChunksAreInFlash
  <2>1. c \in have /\ a \in ChunkBytes(c) /\ begun
    BY <1>1 DEF chunkVars, ChunkBytes, ChunkStart, ChunkEnd, FlashAddr
  <2> QED
    BY <1>3, <1>6, <2>1 DEF CInv, ChunksAreInFlash
<1> QED
  BY <1>2, <1>4, <1>5, <1>7 DEF CInv

LEMMA ChunkStepInv == CInv /\ [ChunkNext]_callVars => CInv'
<1>1. ASSUME CInv, UNCHANGED callVars PROVE CInv'
  <2>1. UNCHANGED vars /\ UNCHANGED chunkVars
    BY <1>1 DEF callVars, vars, chunkVars
  <2>2. IInv'
    BY <1>1, <2>1, StepInv DEF CInv
  <2>3. ChunkTypeOK' /\ ChunksAreInFlash' /\ CopyProgress'
    BY <1>1, <2>1 DEF CInv, ChunkTypeOK, ChunksAreInFlash, CopyProgress, AllChunks, Chunks, ChunkBytes,
                      ChunkStart, ChunkEnd, FlashAddr, vars, chunkVars
  <2> QED
    BY <2>2, <2>3 DEF CInv
<1> QED
  BY <1>1, ChunkWriteInv, ChunkEraseInv, ChunkOtherInv DEF ChunkNext

LEMMA ChunkInductive == ChunkSpec => []CInv
BY ChunkInitInv, ChunkStepInv, PTL DEF ChunkSpec

(* What FwUpdate takes to be in flash after copies, failures and retries   *)
(* of mcuboot_img_op_copy is there byte by byte.                           *)
THEOREM ChunksReallyThere == ChunkSpec => []ChunksAreInFlash
<1>1. CInv => ChunksAreInFlash
  BY DEF CInv
<1> QED
  BY <1>1, ChunkInductive, PTL

-----------------------------------------------------------------------------
(* Every step of a copy is one of FwUpdate's.                              *)

LEMMA TaskIsPrimary == Update!task = [file |-> "app", dst |-> "primary", update |-> TRUE]
BY DEF Update!task, Update!Task

LEMMA SeenFile == SeenFs["app"] = Image /\ (Image.fits <=> size <= FaSize)
BY DEF SeenFs, Files, Image, FileImage, FactoryImage

(* What FwUpdate sees changes with what it depends on.                     *)
LEMMA SeenSame ==
    ASSUME UNCHANGED <<size, begun>>
    PROVE  /\ UNCHANGED <<SeenImg, SeenValid, SeenFs, Image>>
           /\ UNCHANGED have => UNCHANGED SeenHave
           /\ UNCHANGED have => UNCHANGED Update!parts
<1>1. UNCHANGED Image
  BY DEF Image
<1>2. UNCHANGED SeenImg
  BY <1>1 DEF SeenImg
<1>3. UNCHANGED SeenFs /\ UNCHANGED SeenValid
  BY <1>1 DEF SeenFs, SeenValid
<1>4. UNCHANGED have => UNCHANGED SeenHave
  BY DEF SeenHave
<1> QED
  BY <1>1, <1>2, <1>3, <1>4 DEF Update!parts

(* A call that fails although the file fits is one fault.                  *)
LEMMA FailsOnce ==
    ASSUME pc # "done", pc' = "done", ok' = FALSE, size' = size
    PROVE  /\ size <= FaSize => Update!Fault
           /\ ~(size <= FaSize) => Update!NoFault
BY DEF Failed, SeenFaults, Update!Fault, Update!NoFault

LEMMA DoesNotFail ==
    ASSUME pc # "done", pc' = "done" => ok'
    PROVE  ~Failed /\ Update!NoFault
BY DEF Failed, SeenFaults, Update!NoFault

LEMMA GiveUpIsCopyGivesUp == CInv /\ ChunkGiveUp => Update!CopyGivesUp
<1> SUFFICES ASSUME CInv, ChunkGiveUp PROVE Update!CopyGivesUp
  OBVIOUS
<1>1. /\ pc = "call" /\ pc' = "done" /\ ok' = FALSE /\ size' = size
      /\ UNCHANGED <<begun, have, chunk>>
  BY DEF ChunkGiveUp, GiveUp, Return, chunkVars
<1>2. SeenPc = "erase" /\ SeenPc' = "finish"
  BY <1>1 DEF SeenPc
<1>3. UNCHANGED <<Update!parts, SeenFs>>
  BY <1>1, SeenSame
<1>4. \/ ~SeenFs[Update!task.file].fits /\ Update!NoFault
      \/ Update!Fault
  BY <1>1, FailsOnce, SeenFile, TaskIsPrimary
<1> QED
  BY <1>1, <1>2, <1>3, <1>4 DEF Update!CopyGivesUp, Update!file

LEMMA StartIsErase == CInv /\ ChunkStartCopy => Update!Erase
<1> SUFFICES ASSUME CInv, ChunkStartCopy PROVE Update!Erase
  OBVIOUS
<1>1. /\ pc = "call" /\ pc' = "loop" /\ size <= FaSize /\ UNCHANGED size
      /\ begun' = TRUE /\ have' = {} /\ chunk' = 1
  BY DEF ChunkStartCopy, Start
<1>2. SeenPc = "erase" /\ SeenPc' = "copy"
  BY <1>1 DEF SeenPc
<1>3. Image' = Image /\ SeenFs' = SeenFs
  BY <1>1 DEF Image, SeenFs
<1>4. SeenHave' = [SeenHave EXCEPT !["primary"] = {}]
  BY <1>1 DEF SeenHave, Parts
<1>5. SeenImg' = [SeenImg EXCEPT !["primary"] = Image]
  BY <1>1, <1>3 DEF SeenImg, Parts
<1>6. SeenValid' = [SeenValid EXCEPT !["primary"] = TRUE]
  BY DEF SeenValid, Parts
<1>7. UNCHANGED <<~Failed, SeenFaults>>
  BY <1>1, DoesNotFail DEF Update!NoFault
<1>8. SeenFs["app"].fits
  BY <1>1, SeenFile
<1> QED
  BY <1>1, <1>2, <1>3, <1>4, <1>5, <1>6, <1>7, <1>8, SeenFile, TaskIsPrimary DEF Update!Erase, Update!budgets, Update!file

LEMMA EraseFailsAsSeen == CInv /\ ChunkEraseFails => Update!EraseFails
<1> SUFFICES ASSUME CInv, ChunkEraseFails PROVE Update!EraseFails
  OBVIOUS
<1>1. /\ pc = "call" /\ pc' = "done" /\ ok' = FALSE /\ size <= FaSize /\ UNCHANGED <<size, begun, chunk>>
      /\ have' \in SUBSET have
  BY DEF ChunkEraseFails, EraseFails, Return
<1>2. SeenPc = "erase" /\ SeenPc' = "finish"
  BY <1>1 DEF SeenPc
<1>3. UNCHANGED <<SeenImg, SeenValid, SeenFs>>
  BY <1>1, SeenSame
<1>4. SeenHave["primary"] = have /\ SeenHave' = [SeenHave EXCEPT !["primary"] = have']
  BY DEF SeenHave, Parts
<1>5. Update!PartlyErased("primary")
  BY <1>1, <1>4 DEF Update!PartlyErased
<1>6. Update!Fault
  BY <1>1, FailsOnce
<1>7. SeenFs["app"].fits
  BY <1>1, SeenFile
<1> QED
  BY <1>1, <1>2, <1>3, <1>5, <1>6, <1>7, TaskIsPrimary DEF Update!EraseFails, Update!file

LEMMA WriteIsCopyChunk == CInv /\ ChunkWrite => Update!CopyChunk
<1> SUFFICES ASSUME CInv, ChunkWrite PROVE Update!CopyChunk
  OBVIOUS
<1>1. /\ have' = have \cup {chunk} /\ chunk' = chunk + 1 /\ begun' = begun
      /\ Write
  BY DEF ChunkWrite
<1>2. /\ pc = "loop" /\ pc' = "loop" /\ UNCHANGED size
      /\ chunk \in Chunks
  BY <1>1, WriteFacts
<1>3. SeenPc = "copy" /\ SeenPc' = "copy"
  BY <1>2 DEF SeenPc
<1>4. UNCHANGED <<SeenImg, SeenValid, SeenFs>>
  BY <1>1, <1>2, SeenSame
<1>5. SeenHave' = [SeenHave EXCEPT !["primary"] = @ \cup {chunk}]
  BY <1>1 DEF SeenHave, Parts
<1>6. UNCHANGED <<~Failed, SeenFaults>>
  BY <1>2, DoesNotFail DEF Update!NoFault
<1>7. chunk <= NChunks
  BY <1>2 DEF Chunks
<1> QED
  BY <1>1, <1>3, <1>4, <1>5, <1>6, <1>7, TaskIsPrimary DEF Update!CopyChunk, Update!budgets

LEMMA SeenStutter ==
    ASSUME UNCHANGED <<size, begun, have, chunk, pc, ok>>
    PROVE  UNCHANGED Update!vars
<1>1. UNCHANGED <<SeenImg, SeenHave, SeenValid, SeenFs>>
  BY SeenSame
<1>2. UNCHANGED <<SeenPc, ~Failed, SeenFaults>>
  BY DEF SeenPc, Failed, SeenFaults
<1> QED
  BY <1>1, <1>2 DEF Update!vars

LEMMA FailureIsCopyFails == CInv /\ op = "copy" /\ LoopFails /\ UNCHANGED chunkVars => Update!CopyFails
<1> SUFFICES ASSUME CInv, op = "copy", LoopFails, UNCHANGED chunkVars PROVE Update!CopyFails
  OBVIOUS
<1>1. /\ pc = "loop" /\ pc' = "done" /\ ok' = FALSE /\ rem_len > 0 /\ UNCHANGED size
      /\ UNCHANGED <<begun, have, chunk>>
  BY DEF LoopFails, Return, chunkVars
<1>2. SeenPc = "copy" /\ SeenPc' = "finish"
  BY <1>1 DEF SeenPc
<1>3. UNCHANGED <<Update!parts, SeenFs>>
  BY <1>1, SeenSame
<1>4. size <= FaSize /\ chunk <= NChunks
  BY <1>1 DEF CInv, IInv, Progress, CopyProgress
<1>5. Update!Fault
  BY <1>1, <1>4, FailsOnce
<1> QED
  BY <1>1, <1>2, <1>3, <1>4, <1>5 DEF Update!CopyFails

LEMMA FinishIsCopyEnds ==
    CInv /\ op = "copy" /\ AllChunks /\ Finish /\ UNCHANGED chunkVars => Update!CopyEnds
<1> SUFFICES ASSUME CInv, op = "copy", AllChunks, Finish, UNCHANGED chunkVars PROVE Update!CopyEnds
  OBVIOUS
<1>1. /\ pc = "loop" /\ pc' = "done" /\ ok' /\ rem_len = 0 /\ UNCHANGED size
      /\ UNCHANGED <<begun, have, chunk>>
  BY DEF Finish, Return, chunkVars, CInv, IInv, Progress
<1>2. SeenPc = "copy" /\ SeenPc' = "finish"
  BY <1>1 DEF SeenPc
<1>3. UNCHANGED <<Update!parts, SeenFs>>
  BY <1>1, SeenSame
<1>4. chunk > NChunks
  <2>1. chunk = NChunks + 1
    BY <1>1 DEF CInv, CopyProgress
  <2> QED
    BY <2>1, ChunksAssumption
<1>5. UNCHANGED <<~Failed, SeenFaults>>
  BY <1>1, DoesNotFail DEF Update!NoFault
<1> QED
  BY <1>1, <1>2, <1>3, <1>4, <1>5 DEF Update!CopyEnds, Update!boot, Update!budgets

(* Each of the calls of ImgOp is the one FwUpdate takes it for.            *)
LEMMA CallIsCopyStep ==
    ASSUME CInv, [ChunkNext]_callVars, op = "copy", AllChunks, pc # "done"
    PROVE  CopyStep \/ UNCHANGED Update!vars
<1>1. CASE ChunkGiveUp \/ ChunkEraseFails \/ ChunkStartCopy \/ ChunkWrite
  BY <1>1, GiveUpIsCopyGivesUp, EraseFailsAsSeen, StartIsErase, WriteIsCopyChunk DEF CopyStep
<1>2. CASE ChunkWritePart
  <2>1. UNCHANGED <<size, begun, have, chunk, pc, ok>>
    BY <1>2 DEF ChunkWritePart, Write, chunkVars
  <2> QED
    BY <2>1, SeenStutter
<1>3. CASE ChunkOther
  <2>1. (LoopFails \/ Finish) /\ UNCHANGED chunkVars
    BY <1>3 DEF ChunkOther, Compare, Differ, NextCall
  <2> QED
    BY <2>1, FailureIsCopyFails, FinishIsCopyEnds DEF CopyStep
<1>4. CASE UNCHANGED callVars
  <2>1. UNCHANGED <<size, begun, have, chunk, pc, ok>>
    BY <1>4 DEF callVars
  <2> QED
    BY <2>1, SeenStutter
<1> QED
  BY <1>1, <1>2, <1>3, <1>4 DEF ChunkNext

(* A copy of a file that reaches into every chunk is, for every size of    *)
(* chunk, buffer and partition, what FwUpdate says of a copy.              *)
THEOREM CopyIsByChunks == ChunkSpec => CopiesByChunks
<1>1. CInv /\ [ChunkNext]_callVars
        => [op = "copy" /\ AllChunks /\ pc # "done" => CopyStep \/ UNCHANGED Update!vars]_callVars
  BY CallIsCopyStep
<1> QED
  BY <1>1, ChunkInductive, PTL DEF ChunkSpec, CopiesByChunks

=============================================================================
