----------------------------- MODULE ImgOpChunks -----------------------------
(***************************************************************************)
(* FwUpdate takes a copy of a file for a few steps that put chunks of an   *)
(* image into a partition.  This module says which chunks the copy of      *)
(* ImgOp, byte by byte, has put there, and that each of its steps is one   *)
(* of FwUpdate's or none.  The partition is the primary one; which one it  *)
(* is makes no difference to the copy.                                     *)
(***************************************************************************)
EXTENDS ImgOp

CONSTANTS
    NChunks,       \* as in FwUpdate
    ChunkBlocks    \* the k-th chunk but the last ends with this full buffer

(* A chunk is made of whole buffers; the last one is the rest.             *)
ASSUME ChunksAssumption ==
    /\ NChunks \in Nat \ {0}
    /\ ChunkBlocks \in [1..(NChunks - 1) -> Nat \ {0}]
    /\ \A j, k \in 1..(NChunks - 1) : j < k => ChunkBlocks[j] < ChunkBlocks[k]

VARIABLES
    begun,    \* the image in the partition is the file's
    have,     \* chunks of that image that are in flash
    chunk     \* next chunk to complete

chunkVars  == <<begun, have, chunk>>
callVars   == <<pc, op, size, file, flash, offset, rem_len, ok, begun, have, chunk>>

Chunks == 1..NChunks

(* The chunks as parts of the partition.                                   *)
ChunkEnd(c)   == IF c < NChunks THEN ChunkBlocks[c] * BufSize ELSE FaSize
ChunkStart(c) == IF c = 1 THEN 0 ELSE ChunkEnd(c - 1)
ChunkBytes(c) == {a \in FlashAddr : ChunkStart(c) <= a /\ a < ChunkEnd(c)}

(* The file reaches into every chunk.                                      *)
AllChunks == size > ChunkStart(NChunks)

-----------------------------------------------------------------------------

(* Before the first call the partition holds another image.                *)
ChunkInit ==
    /\ Init
    /\ begun = FALSE
    /\ have = Chunks
    /\ chunk = 1

(* The chunk in hand is through with this buffer.                          *)
Completes == offset' >= (IF chunk < NChunks THEN ChunkEnd(chunk) ELSE size)

ChunkGiveUp == GiveUp /\ UNCHANGED chunkVars

ChunkEraseFails ==
    /\ EraseFails
    /\ have' = {c \in have : \A a \in ChunkBytes(c) : flash'[a] = flash[a]}
    /\ UNCHANGED <<begun, chunk>>

ChunkStartCopy ==
    /\ Start /\ op = "copy"
    /\ begun' = TRUE
    /\ have' = {}
    /\ chunk' = 1

ChunkWrite ==
    /\ Write
    /\ Completes
    /\ have' = have \cup {chunk}
    /\ chunk' = chunk + 1
    /\ UNCHANGED begun

ChunkWritePart == Write /\ ~Completes /\ UNCHANGED chunkVars

ChunkOther ==
    /\ (Start /\ op = "cmp") \/ Compare \/ Differ \/ LoopFails \/ Finish \/ NextCall
    /\ UNCHANGED chunkVars

ChunkNext ==
    \/ ChunkGiveUp \/ ChunkEraseFails \/ ChunkStartCopy
    \/ ChunkWrite \/ ChunkWritePart
    \/ ChunkOther

ChunkSpec == ChunkInit /\ [][ChunkNext]_callVars

-----------------------------------------------------------------------------

(* What FwUpdate sees.  A copy looks at no fact of an image but whether it *)
(* fits; the file brings another version than the factory wrote.           *)
FactoryImage(p) ==
    [link |-> p, b0 |-> TRUE, sig |-> TRUE, hdr |-> TRUE, fits |-> TRUE, hwid |-> TRUE,
     verok |-> TRUE, hw |-> "none", info |-> 1, ver |-> 1]
FileImage(fits) == [FactoryImage("primary") EXCEPT !.fits = fits, !.ver = 2]
Image == FileImage(size <= FaSize)

(* The call in hand has failed, not for want of room.                      *)
Failed == pc = "done" /\ ~ok /\ size <= FaSize

Parts == {"s0", "s1", "primary", "secondary"}
Files == {"mcuboot0", "mcuboot1", "loader", "app"}

SeenImg    == [p \in Parts |-> IF p = "primary" /\ begun THEN Image ELSE FactoryImage(p)]
SeenHave   == [p \in Parts |-> IF p = "primary" THEN have ELSE Chunks]
SeenValid  == [p \in Parts |-> TRUE]
SeenFs     == [f \in Files |-> Image]
SeenPc     == IF pc = "call" THEN "erase" ELSE IF pc = "loop" THEN "copy" ELSE "finish"
SeenFaults == IF Failed THEN 1 ELSE 0

(* s0 is running and has come to the fourth check, for the application.    *)
Update == INSTANCE FwUpdate WITH
    img <- SeenImg, have <- SeenHave, valid <- SeenValid, fs <- SeenFs,
    pc <- SeenPc, active <- "s0", step <- 4, clean <- ~Failed, faults <- SeenFaults,
    hw <- "none", found <- FALSE, buf <- "garbage", cuts <- 0, uploads <- 0,
    MaxFaults <- 1, MaxCuts <- 0, MaxUploads <- 0, InfoChunk <- 1,
    Images <- {FactoryImage(p) : p \in Parts} \cup {FileImage(b) : b \in BOOLEAN},
    Factory <- [p \in Parts |-> FactoryImage(p)],
    HwNames <- {}, DowngradePrevention <- FALSE, NoFile <- "nofile", Deliverable <- {},
    Garbage <- "garbage", Prefix <- {}

CopyStep ==
    \/ Update!CopyGivesUp \/ Update!Erase \/ Update!EraseFails
    \/ Update!CopyChunk \/ Update!CopyFails \/ Update!CopyEnds

(* A copy of a file that reaches into every chunk does, seen chunk by      *)
(* chunk, nothing but what FwUpdate says of a copy: it erases before it    *)
(* writes, completes the chunks in order and one at a time, fails only     *)
(* before the last one is there and ends only behind it.                   *)
CopiesByChunks ==
    [][op = "copy" /\ AllChunks /\ pc # "done" => CopyStep \/ UNCHANGED Update!vars]_callVars

(* The chunks that FwUpdate takes to be in flash are there byte by byte,   *)
(* whatever failed calls and retries left them, padding included.          *)
ChunksAreInFlash ==
    begun => \A c \in have : \A a \in ChunkBytes(c) : flash[a] = IF a < size THEN file[a] ELSE FF

=============================================================================
