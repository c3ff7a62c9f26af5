------------------------------ MODULE MCTlvIter ------------------------------
(* Up to two protected and three unprotected entries of two types, with    *)
(* and without a payload, and images whose two section headers are wrong.  *)
EXTENDS TlvIter

Entry == [it_type : Types, it_len : {0, 4}]

MCAreas ==
    LET Area(p, u) == [prot |-> p, unprot |-> u, ih_protect_tlv_size |-> 0, it_magic |-> TRUE]
        Good(a)    == [a EXCEPT !.ih_protect_tlv_size = ProtTot(a)]
        Sections   == {<<p, u>> : p \in BoundedSeq(Entry, 2), u \in BoundedSeq(Entry, 3)}
        Goods      == {Good(Area(s[1], s[2])) : s \in Sections}
        some       == [it_type |-> CHOOSE t \in Types : TRUE, it_len |-> 4]
    IN  Goods \cup
        {Area(<<some>>, <<some>>),
         [Good(Area(<<some>>, <<some>>)) EXCEPT !.it_magic = FALSE],
         [Area(<<>>, <<some>>) EXCEPT !.ih_protect_tlv_size = 8]}

=============================================================================
