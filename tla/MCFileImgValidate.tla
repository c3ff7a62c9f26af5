-------------------------- MODULE MCFileImgValidate --------------------------
(* TLV areas of every order of up to three TLVs of any kind, of up to four *)
(* of the kinds that matter together, and the ones with two signatures.    *)
EXTENDS FileImgValidate

E(type, len, hash, key, sig) ==
    [it_type |-> type, it_len |-> len, hash |-> hash, key |-> key, sig |-> sig]

Hash(len, hash) == E(HashTlv, len, hash, NoKey, {})
Key(len, key)   == E(KeyTlv, len, FALSE, key, {})
Sig(len, sig)   == E(SigTlv, len, FALSE, NoKey, sig)
Other(type, n)  == E(type, n, FALSE, NoKey, {})

Ruuvi(n) == Other("IMAGE_TLV_RUUVI_HW_REV_NAME", n)

Core ==
    {Hash(32, TRUE), Hash(32, FALSE), Key(32, 0), Key(32, 1), Key(32, NoKey),
     Sig(72, {}), Sig(72, {0}), Sig(72, {1})}
Odd ==
    {Hash(20, FALSE), Key(0, NoKey), Key(33, NoKey), Sig(129, {}),
     Other("IMAGE_TLV_ENC", 0), Ruuvi(4)}

Area(p, u) == [prot |-> p, unprot |-> u, ih_protect_tlv_size |-> 0, it_magic |-> TRUE]
Good(p, u) == [Area(p, u) EXCEPT !.ih_protect_tlv_size = ProtTot(Area(p, u))]

MCCandidates ==
    {Good(<<>>, u) : u \in BoundedSeq(Core \cup Odd, 3) \cup BoundedSeq(Core, 4)} \cup
    {Good(p, u) : p \in {<<Ruuvi(4)>>, <<Ruuvi(4), Ruuvi(0)>>, <<Hash(32, FALSE), Ruuvi(4)>>},
                  u \in BoundedSeq(Core, 3)} \cup
    {Good(<<>>, <<Hash(32, TRUE), k1, Sig(72, s1), k2, Sig(72, s2)>>) :
                  k1, k2 \in {Key(32, 0), Key(32, NoKey)}, s1, s2 \in {{}, {0}}} \cup
    {Area(<<Ruuvi(4)>>, <<>>), [Good(<<>>, <<>>) EXCEPT !.it_magic = FALSE]}

=============================================================================
