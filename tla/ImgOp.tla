-------------------------------- MODULE ImgOp --------------------------------
(***************************************************************************)
(* mcuboot_img_op.c: copying a file to a flash partition, or comparing the *)
(* two, one buffer at a time.  The last buffer is padded with 0xFF to the  *)
(* flash's write block of four bytes.  Any call may fail.                  *)
(***************************************************************************)
EXTENDS Integers

CONSTANTS
    Byte,       \* what a byte of flash or of a file can be
    FF,         \* the value of an erased byte, UINT8_MAX
    FaSize,     \* size of the partition, p_fa_dst->fa_size
    BufSize,    \* TMP_BUF_SIZE
    MaxSize,    \* bound on the size of a file
    Before      \* what the partition may hold before the first call

ASSUME ByteAssumption == FF \in Byte
ASSUME SizeAssumption ==
    /\ FaSize \in Nat /\ FaSize % 4 = 0
    /\ BufSize \in Nat \ {0} /\ BufSize % 4 = 0
    /\ MaxSize \in Nat
ASSUME BeforeAssumption == Before \subseteq [0..(FaSize - 1) -> Byte]

VARIABLES
    pc,       \* "call", "loop", "done"
    op,       \* "copy" or "cmp"
    size,     \* src_file_size
    file,     \* the file's bytes
    flash,    \* the partition's bytes
    offset,   \* next byte to process
    rem_len,  \* bytes left
    ok        \* is_success, and the result once done

vars == <<pc, op, size, file, flash, offset, rem_len, ok>>

FlashAddr == 0..(FaSize - 1)

TypeOK ==
    /\ pc \in {"call", "loop", "done"}
    /\ op \in {"copy", "cmp"}
    /\ size \in 0..MaxSize
    /\ file \in [0..(size - 1) -> Byte]
    /\ flash \in [FlashAddr -> Byte]
    /\ offset \in Nat
    /\ rem_len \in Nat
    /\ ok \in BOOLEAN

Init ==
    /\ pc = "call"
    /\ op \in {"copy", "cmp"}
    /\ size \in 0..MaxSize
    /\ file \in [0..(size - 1) -> Byte]
    /\ flash \in Before
    /\ offset = 0
    /\ rem_len = size
    /\ ok = FALSE

-----------------------------------------------------------------------------

Return(result) == pc' = "done" /\ ok' = result

(* flash_area_open or fs_seek fails, or the file is too large.             *)
GiveUp ==
    /\ pc = "call"
    /\ Return(FALSE)
    /\ UNCHANGED <<op, size, file, flash, offset, rem_len>>

(* Only a copy erases, page by page; a failing erase stops somewhere.      *)
EraseFails ==
    /\ pc = "call" /\ op = "copy" /\ size <= FaSize
    /\ \E n \in 0..FaSize :
          flash' = [a \in FlashAddr |-> IF a < n THEN FF ELSE flash[a]]
    /\ Return(FALSE)
    /\ UNCHANGED <<op, size, file, offset, rem_len>>

(* Faulty: a copy does not erase.                                          *)
StartUnerased ==
    /\ pc = "call" /\ size <= FaSize
    /\ pc' = "loop"
    /\ ok' = TRUE
    /\ UNCHANGED <<op, size, file, flash, offset, rem_len>>

Start ==
    /\ pc = "call" /\ size <= FaSize
    /\ flash' = IF op = "copy" THEN [a \in FlashAddr |-> FF] ELSE flash
    /\ pc' = "loop"
    /\ ok' = TRUE
    /\ UNCHANGED <<op, size, file, offset, rem_len>>

-----------------------------------------------------------------------------
(* One turn of the loop.                                                   *)

len == IF rem_len > BufSize THEN BufSize ELSE rem_len

(* Faulty: the padding is what is missing to a multiple of four, except    *)
(* that none is missing when len is one already.                           *)
PaddingOfFour(n) == 4 - (n % 4)

Padding(n) == IF n % 4 # 0 THEN 4 - (n % 4) ELSE 0

(* Faulty: every block is the first of the file.                           *)
BlockByteOfFirst(a) == IF a < offset + len THEN file[a - offset] ELSE FF

(* The buffer, padded, as a function of the address it belongs at.         *)
Block == offset..(offset + len + Padding(len) - 1)
BlockByte(a) == IF a < offset + len THEN file[a] ELSE FF

Advance ==
    /\ offset' = offset + len
    /\ rem_len' = rem_len - len

Write ==
    /\ pc = "loop" /\ rem_len > 0 /\ op = "copy"
    /\ flash' = [a \in FlashAddr |-> IF a \in Block THEN BlockByte(a) ELSE flash[a]]
    /\ Advance
    /\ UNCHANGED <<pc, op, size, file, ok>>

Same == \A a \in Block : flash[a] = BlockByte(a)

Compare ==
    /\ pc = "loop" /\ rem_len > 0 /\ op = "cmp"
    /\ Same
    /\ Advance
    /\ UNCHANGED <<pc, op, size, file, flash, ok>>

Differ ==
    /\ pc = "loop" /\ rem_len > 0 /\ op = "cmp"
    /\ ~Same
    /\ Return(FALSE)
    /\ UNCHANGED <<op, size, file, flash, offset, rem_len>>

(* Faulty: a buffer that could not be read is left out.                    *)
LoopSkips ==
    /\ pc = "loop" /\ rem_len > 0
    /\ Advance
    /\ UNCHANGED <<pc, op, size, file, flash, ok>>

(* fs_read fails or comes back short, or the flash cannot be read; a write *)
(* that fails leaves part of the block written.                            *)
LoopFails ==
    /\ pc = "loop" /\ rem_len > 0
    /\ \/ UNCHANGED flash
       \/ /\ op = "copy"
          /\ \E n \in 0..(len - 1) :
                flash' = [a \in FlashAddr |->
                             IF a \in offset..(offset + n) THEN BlockByte(a) ELSE flash[a]]
    /\ Return(FALSE)
    /\ UNCHANGED <<op, size, file, offset, rem_len>>

Finish ==
    /\ pc = "loop" /\ rem_len = 0
    /\ Return(ok)
    /\ UNCHANGED <<op, size, file, flash, offset, rem_len>>

(* Another call with the same partition and file: a retry, or a comparison *)
(* after the copy.                                                         *)
NextCall ==
    /\ pc = "done"
    /\ pc' = "call"
    /\ ok' = FALSE
    /\ op' \in {"copy", "cmp"}
    /\ offset' = 0
    /\ rem_len' = size
    /\ UNCHANGED <<size, file, flash>>

Next ==
    \/ GiveUp \/ EraseFails \/ Start
    \/ Write \/ Compare \/ Differ \/ LoopFails \/ Finish
    \/ NextCall

Spec == Init /\ [][Next]_vars

-----------------------------------------------------------------------------

(* What a call that succeeded guarantees: after a copy the partition is    *)
(* the file followed by erased flash; after a comparison it starts with    *)
(* the file and has erased padding up to the next multiple of four.        *)
Installed == \A a \in FlashAddr : flash[a] = IF a < size THEN file[a] ELSE FF
Matches   == \A a \in 0..(size + Padding(size) - 1) : flash[a] = IF a < size THEN file[a] ELSE FF

SuccessMeansInstalled ==
    pc = "done" /\ ok => IF op = "copy" THEN Installed ELSE Matches

(* Flash and buffer are only accessed within their bounds, and flash in    *)
(* whole aligned write blocks.                                             *)
BlocksInBounds ==
    pc = "loop" /\ rem_len > 0 =>
        /\ offset % 4 = 0
        /\ (len + Padding(len)) % 4 = 0
        /\ len + Padding(len) <= BufSize
        /\ offset + len + Padding(len) <= FaSize

(* NOR flash: between two erases no byte is written twice.                 *)
WriteOnce ==
    [][Write => \A a \in Block : flash[a] = FF]_vars

=============================================================================
