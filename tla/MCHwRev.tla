------------------------------- MODULE MCHwRev -------------------------------
(***************************************************************************)
(* Protected sections of up to three entries: numbers of which every part  *)
(* differs, a number 0, names of no, the greatest and a too great length,  *)
(* a name that starts with a 0, an entry of another type; before an        *)
(* unprotected section that holds a hardware revision too, or before the   *)
(* end of the image.                                                       *)
(***************************************************************************)
EXTENDS HwRev

CONSTANTS N1, N2, N3    \* names

Id(len, val)   == [it_type |-> "id", it_len |-> len, val |-> val]
Name(len, val) == [it_type |-> "name", it_len |-> len, val |-> val]

Kinds == {Id(4, 16909060), Id(4, 0), Id(3, 7), Name(0, NoName), Name(3, NoName), Name(3, N1), Name(15, N2),
          Name(16, N3), [it_type |-> "other", it_len |-> 2]}

SmallAreas ==
    {[prot |-> p, unprot |-> u, it_magic |-> m,
      ih_protect_tlv_size |-> IF p = <<>> THEN 0 ELSE Total(p)] :
        p \in UNION {[1 .. n -> Kinds] : n \in 0 .. 3},
        u \in {<<Id(4, 5), Name(3, N3)>>}, m \in {TRUE}}
    \cup
    {[prot |-> p, unprot |-> <<>>, it_magic |-> FALSE,
      ih_protect_tlv_size |-> IF p = <<>> THEN 0 ELSE Total(p)] :
        p \in UNION {[1 .. n -> Kinds] : n \in 0 .. 2}}

=============================================================================
