------------------------------ MODULE MCImgOp ------------------------------
(* A partition of three buffers, each of one write block, files that fit,  *)
(* that leave every possible rest, and that do not fit.                    *)
EXTENDS ImgOpChunks

(* Erased, blank, and one that happens to start like some of the files.    *)
MCBefore ==
    {[a \in FlashAddr |-> FF], [a \in FlashAddr |-> 0],
     [a \in FlashAddr |-> IF a \in {0, 5} THEN 0 ELSE FF]}

(* The first chunk takes two buffers, the second what is left.             *)
MCChunkBlocks == [k \in {1} |-> 2]

=============================================================================
