--------------------------- MODULE FileImgValidate ---------------------------
(***************************************************************************)
(* file_img_validate: MCUboot's own verification of an update file.  The   *)
(* image is hashed, then the TLVs are taken in the order of the file; what *)
(* a TLV means depends on those before it.  Any read may fail.             *)
(*                                                                         *)
(* Besides its type and length an entry e has e.hash (its value is the     *)
(* hash of the image), e.key (the index in bootutil_keys of the key whose  *)
(* hash it holds, or NoKey) and e.sig (the keys under which it verifies).  *)
(***************************************************************************)
EXTENDS FileTlv

CONSTANTS
    Candidates,   \* the images that are validated
    FaSize        \* room for the TLV area in the partition

ASSUME FaSizeAssumption == FaSize \in Nat

bootutil_key_cnt == 2
Keys  == 0..(bootutil_key_cnt - 1)
NoKey == -1

ASSUME CandidatesAssumption ==
    \A i \in Candidates :
        IsArea(i) /\ \A k \in DOMAIN Entries(i) : Entries(i)[k].key \in Keys \cup {NoKey}

IMAGE_HASH_SIZE == 32
KEY_BUF_SIZE    == IMAGE_HASH_SIZE
SIG_BUF_SIZE    == 128

HashTlv == "EXPECTED_HASH_TLV"
KeyTlv  == "EXPECTED_KEY_TLV"
SigTlv  == "EXPECTED_SIG_TLV"

(* IMAGE_TLV_ENC stands for the types that are allowed and ignored.        *)
allowed_unprot_tlvs == {HashTlv, KeyTlv, SigTlv, "IMAGE_TLV_ENC"}

VARIABLES
    image,              \* the file
    pc,                 \* "hash", "begin", "loop", "done"
    it,                 \* the TLV iterator
    key_id,             \* the key the next signature is checked with
    image_hash_valid,
    valid_signature,
    rc,                 \* 0 when file_img_validate returns valid_signature
    clean               \* no read has failed

vars   == <<image, pc, it, key_id, image_hash_valid, valid_signature, rc, clean>>
checks == <<key_id, image_hash_valid, valid_signature>>

Init ==
    /\ image \in Candidates
    /\ pc = "hash"
    /\ it = file_tlv_iter_begin(image, AnyType, FALSE)
    /\ key_id = NoKey
    /\ image_hash_valid = FALSE
    /\ valid_signature = FALSE
    /\ rc = 0
    /\ clean = TRUE

Return(result) == pc' = "done" /\ rc' = result

-----------------------------------------------------------------------------

file_img_hash ==
    /\ pc = "hash"
    /\ pc' = "begin"
    /\ UNCHANGED <<image, it, checks, rc, clean>>

Begin ==
    /\ pc = "begin"
    /\ InfoOK(image)
    /\ file_tlv_iter_begin(image, AnyType, FALSE).tlv_end <= FaSize
    /\ pc' = "loop"
    /\ it' = file_tlv_iter_begin(image, AnyType, FALSE)
    /\ UNCHANGED <<image, checks, rc, clean>>

BeginRefuses ==
    /\ pc = "begin"
    /\ \/ ~InfoOK(image)
       \/ file_tlv_iter_begin(image, AnyType, FALSE).tlv_end > FaSize
    /\ Return(-1)
    /\ UNCHANGED <<image, it, checks, clean>>

(* The hash, the TLV headers and the payloads are all read from the file.  *)
ReadFails ==
    /\ pc \in {"hash", "begin"} \/ (pc = "loop" /\ ~AtEnd(it))
    /\ Return(-1)
    /\ clean' = FALSE
    /\ UNCHANGED <<image, it, checks>>

-----------------------------------------------------------------------------
(* file_image_validate_tlv, one TLV.                                       *)

tlv == Tlv(image, it)

Allowed ==
    \/ file_tlv_iter_is_prot(it, PayloadOff(image, it))
    \/ tlv.it_type \in allowed_unprot_tlvs

HasTlv == pc = "loop" /\ ~AtEnd(it) /\ Loads(image, it)

Taking(type) == HasTlv /\ Allowed /\ tlv.it_type = type

NextTlv == it' = Passed(image, it) /\ UNCHANGED <<image, pc, rc, clean>>

Refuse == Return(-1) /\ UNCHANGED <<image, it, checks, clean>>

RefuseUnprotected == HasTlv /\ ~Allowed /\ Refuse

(* Reading beyond the last entry, see TlvIter.                             *)
NothingToLoad == pc = "loop" /\ ~AtEnd(it) /\ ~Loads(image, it) /\ Refuse

(* Faulty: only the length is looked at.                                   *)
HashLengthOK == tlv.it_len = IMAGE_HASH_SIZE

HashOK == tlv.it_len = IMAGE_HASH_SIZE /\ tlv.hash

TakeHash ==
    /\ Taking(HashTlv) /\ HashOK
    /\ image_hash_valid' = TRUE
    /\ UNCHANGED <<key_id, valid_signature>>
    /\ NextTlv

RefuseHash == Taking(HashTlv) /\ ~HashOK /\ Refuse

(* Faulty: the search ends one past the last key.                          *)
FindPastLast(e) == IF e.key = NoKey THEN bootutil_key_cnt ELSE e.key

(* Only it_len bytes are compared: with none, the first key will do.       *)
file_img_find_key(e) == IF e.it_len = 0 THEN 0 ELSE e.key

TakeKey ==
    /\ Taking(KeyTlv) /\ tlv.it_len <= KEY_BUF_SIZE
    /\ key_id' = file_img_find_key(tlv)
    /\ UNCHANGED <<image_hash_valid, valid_signature>>
    /\ NextTlv

RefuseKey == Taking(KeyTlv) /\ tlv.it_len > KEY_BUF_SIZE /\ Refuse

bootutil_verify_sig(e, k) == k \in e.sig

(* Faulty: a key serves more than one signature.                           *)
TakeSigKeepsKey ==
    /\ Taking(SigTlv) /\ key_id \in Keys /\ tlv.it_len <= SIG_BUF_SIZE
    /\ valid_signature' = bootutil_verify_sig(tlv, key_id)
    /\ UNCHANGED <<key_id, image_hash_valid>>
    /\ NextTlv

(* A signature is checked with the key named last before it.               *)
TakeSig ==
    /\ Taking(SigTlv) /\ key_id \in Keys /\ tlv.it_len <= SIG_BUF_SIZE
    /\ valid_signature' = bootutil_verify_sig(tlv, key_id)
    /\ key_id' = NoKey
    /\ UNCHANGED image_hash_valid
    /\ NextTlv

RefuseSig == Taking(SigTlv) /\ key_id \in Keys /\ tlv.it_len > SIG_BUF_SIZE /\ Refuse

Ignore ==
    /\ HasTlv /\ Allowed /\ tlv.it_type \notin {HashTlv, KeyTlv, SigTlv}
    /\ UNCHANGED checks
    /\ NextTlv

(* The loop's end, after the last TLV or at a signature without a key:     *)
(* file_image_validate_tlv returns 1 for both.                             *)
Ends == IF image_hash_valid THEN 0 ELSE -1

EndOfTlvs ==
    /\ pc = "loop" /\ AtEnd(it)
    /\ Return(Ends)
    /\ UNCHANGED <<image, it, checks, clean>>

SigWithoutKey ==
    /\ Taking(SigTlv) /\ key_id \notin Keys
    /\ key_id' = NoKey
    /\ it' = Passed(image, it)
    /\ Return(Ends)
    /\ UNCHANGED <<image, image_hash_valid, valid_signature, clean>>

-----------------------------------------------------------------------------

Step ==
    \/ file_img_hash \/ Begin \/ BeginRefuses
    \/ RefuseUnprotected \/ NothingToLoad
    \/ TakeHash \/ RefuseHash
    \/ TakeKey \/ RefuseKey
    \/ TakeSig \/ RefuseSig \/ SigWithoutKey
    \/ Ignore
    \/ EndOfTlvs

Next == Step \/ ReadFails

Spec == Init /\ [][Next]_vars /\ WF_vars(Step)

-----------------------------------------------------------------------------

Accepted == pc = "done" /\ rc = 0 /\ valid_signature

Tlvs == Entries(image)

(* Entry k is a signature that verifies under the key entry j names, and   *)
(* no other key or signature comes between the two.                        *)
SignedBy(j, k) ==
    /\ Tlvs[j].it_type = KeyTlv /\ Tlvs[k].it_type = SigTlv /\ j < k
    /\ file_img_find_key(Tlvs[j]) \in Tlvs[k].sig \cap Keys
    /\ \A m \in (j + 1)..(k - 1) : Tlvs[m].it_type \notin {KeyTlv, SigTlv}

TypeOK ==
    /\ pc \in {"hash", "begin", "loop", "done"}
    /\ it.tlv_off \in Nat /\ it.prot_end \in Nat /\ it.tlv_end \in Nat
    /\ key_id \in Keys \cup {NoKey}
    /\ image_hash_valid \in BOOLEAN /\ valid_signature \in BOOLEAN /\ clean \in BOOLEAN
    /\ rc \in {-1, 0}

(* A file that is accepted has the hash of its image among its TLVs and a  *)
(* signature that verifies under the known key named just before it.       *)
AcceptedMeansSigned ==
    Accepted =>
        /\ \E h \in DOMAIN Tlvs : Tlvs[h].it_type = HashTlv /\ Tlvs[h].hash
        /\ \E j, k \in DOMAIN Tlvs : SignedBy(j, k)

(* No hash TLV ahead of the signature that counted disagrees with the      *)
(* image, wherever the TLV stands.                                         *)
NoHashDisagrees ==
    Accepted =>
        \E k \in DOMAIN Tlvs :
            /\ \E j \in DOMAIN Tlvs : SignedBy(j, k)
            /\ \A h \in 1..k : Tlvs[h].it_type = HashTlv => Tlvs[h].hash

Fits == InfoOK(image) /\ file_tlv_iter_begin(image, AnyType, FALSE).tlv_end <= FaSize

IsHash(e)     == e.it_type = HashTlv /\ e.it_len = IMAGE_HASH_SIZE /\ e.hash
IsKey(e, k)   == e.it_type = KeyTlv /\ e.it_len = KEY_BUF_SIZE /\ e.key = k
IsSig(e)      == e.it_type = SigTlv /\ e.it_len <= SIG_BUF_SIZE
Signs(e1, e2) == \E k \in Keys : IsKey(e1, k) /\ IsSig(e2) /\ k \in e2.sig

(* An image as the build writes it: the hash, the key and the signature,   *)
(* and other TLVs in the protected section only.                           *)
SignedOnce ==
    /\ Fits
    /\ \A h \in DOMAIN image.prot : image.prot[h].it_type \notin {HashTlv, KeyTlv, SigTlv}
    /\ Len(image.unprot) = 3
    /\ IsHash(image.unprot[1])
    /\ Signs(image.unprot[2], image.unprot[3])

(* Such an image is accepted unless a read fails, whatever it has in its   *)
(* protected section.  The one exception: a last protected TLV without a   *)
(* payload counts as unprotected, where its type is not allowed.           *)
OrdinaryAccepted ==
    /\ pc = "done" /\ clean /\ SignedOnce
    /\ image.prot # <<>> => image.prot[Len(image.prot)].it_len > 0
    => Accepted

(* Validation comes to an end, whatever the lengths of the TLVs.           *)
Decides == <>(pc = "done")

=============================================================================
