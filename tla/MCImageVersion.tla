--------------------------- MODULE MCImageVersion ---------------------------
(* Every version of four numbers, three of them from 0..2.                 *)
EXTENDS ImageVersion

MCVersions ==
    [iv_major : 0..2, iv_minor : 0..1, iv_revision : 0..1, iv_build_num : 0..1]

=============================================================================
