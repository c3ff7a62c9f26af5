------------------------------- MODULE FileTlv -------------------------------
(***************************************************************************)
(* The TLV area that follows an image in an update file, and file_tlv.c's  *)
(* iterator over it.  Offsets are counted in bytes from the start of the   *)
(* area.  An image i has                                                   *)
(*   i.prot, i.unprot       the entries of the two sections, in order      *)
(*   i.ih_protect_tlv_size  what its header says of the protected one      *)
(*   i.it_magic             the unprotected section starts with its magic  *)
(* The protected section, with its own image_tlv_info, is there unless it  *)
(* is empty.  An entry e has e.it_type and e.it_len.                       *)
(***************************************************************************)
EXTENDS Integers, SequencesExt

SizeofInfo == 4    \* sizeof(struct image_tlv_info)
SizeofTlv  == 4    \* sizeof(struct image_tlv)

AnyType == "any"   \* IMAGE_TLV_ANY

(* The bytes that the first k of the entries es take, for each k.          *)
Taken(es) ==
    LET taken[k \in 0 .. Len(es)] ==
            IF k = 0 THEN 0 ELSE taken[k - 1] + SizeofTlv + es[k].it_len
    IN  taken

Total(es)    == SizeofInfo + Taken(es)[Len(es)]
ProtTot(i)   == IF i.prot = <<>> THEN 0 ELSE Total(i.prot)
UnprotTot(i) == Total(i.unprot)

(* All entries of the file in order, and where the header of the k-th is.  *)
(* The offset behind the last one has a number too.                        *)
Entries(i) == i.prot \o i.unprot

EntryOff(i, k) ==
    IF k <= Len(i.prot)
    THEN SizeofInfo + Taken(i.prot)[k - 1]
    ELSE ProtTot(i) + SizeofInfo + Taken(i.unprot)[k - Len(i.prot) - 1]

(* Every entry of the file with the offset of its header.                  *)
Placed(i) == {[off |-> EntryOff(i, k), tlv |-> Entries(i)[k]] : k \in DOMAIN Entries(i)}

(* What the modules on top assume of an image.                             *)
IsArea(i) ==
    /\ LET es == Range(i.prot) \cup Range(i.unprot)
       IN  i.prot \in Seq(es) /\ i.unprot \in Seq(es) /\ \A e \in es : e.it_len \in Nat
    /\ i.ih_protect_tlv_size \in Nat
    /\ i.it_magic \in BOOLEAN

-----------------------------------------------------------------------------

(* file_tlv_iter_begin accepts the two image_tlv_info headers.             *)
InfoOK(i) == i.ih_protect_tlv_size = ProtTot(i) /\ i.it_magic

file_tlv_iter_begin(i, type, prot) ==
    [type |-> type, prot |-> prot,
     prot_end |-> i.ih_protect_tlv_size,
     tlv_end |-> i.ih_protect_tlv_size + UnprotTot(i),
     tlv_off |-> SizeofInfo]

(* One turn of file_tlv_iter_next's loop.                                  *)

AtEnd(it) == it.tlv_off >= it.tlv_end

(* Faulty: the second image_tlv_info is taken for an entry.                *)
HeaderOffNoSkip(i, it) == it.tlv_off

(* The iterator steps over the unprotected section's image_tlv_info.       *)
HeaderOff(i, it) ==
    IF i.ih_protect_tlv_size > 0 /\ it.tlv_off = it.prot_end
    THEN it.tlv_off + SizeofInfo ELSE it.tlv_off

(* Reading 4 bytes there yields an entry's header; after the last entry    *)
(* the file ends and the read comes back short.                            *)
Loads(i, it) == \E p \in Placed(i) : p.off = HeaderOff(i, it)
Tlv(i, it)   == (CHOOSE p \in Placed(i) : p.off = HeaderOff(i, it)).tlv

PastProtected(i, it) == it.prot /\ HeaderOff(i, it) >= it.prot_end

Wanted(it, tlv) == it.type \in {AnyType, tlv.it_type}

PayloadOff(i, it) == HeaderOff(i, it) + SizeofTlv

(* Faulty: an entry of another type is never stepped over.                 *)
PassedIfWanted(i, it) ==
    IF Wanted(it, Tlv(i, it))
    THEN [it EXCEPT !.tlv_off = PayloadOff(i, it) + Tlv(i, it).it_len] ELSE it

(* Faulty: the entry's own header is not stepped over.                     *)
PassedPayload(i, it) == [it EXCEPT !.tlv_off = HeaderOff(i, it) + Tlv(i, it).it_len]

Passed(i, it) == [it EXCEPT !.tlv_off = PayloadOff(i, it) + Tlv(i, it).it_len]

(* Faulty: there is no protected section.                                  *)
IsNeverProt(it, off) == FALSE

file_tlv_iter_is_prot(it, off) == off < it.prot_end

=============================================================================
