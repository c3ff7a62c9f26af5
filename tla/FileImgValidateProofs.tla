------------------------ MODULE FileImgValidateProofs ------------------------
(***************************************************************************)
(* What the verification of an update file accepts, for any image, with    *)
(* TLVs of any number, order, types and lengths.                           *)
(*                                                                         *)
(* The inductive invariant says what the loop's four variables mean in     *)
(* front of the k-th TLV, in terms of the TLVs before it.                  *)
(***************************************************************************)
EXTENDS FileImgValidate, FileTlvProofs

N == EntryCount(image)

IsKeyOrSig(e) == e.it_type \in {KeyTlv, SigTlv}

(* In front of the k-th TLV.                                               *)
Position(k) == it = IterAt(image, AnyType, FALSE, k)

(* key_id is that of the last key TLV, if no signature has used it up.     *)
KeyNamed(k) ==
    key_id # NoKey =>
        \E j \in 1 .. k - 1 :
            /\ Tlvs[j].it_type = KeyTlv
            /\ key_id = file_img_find_key(Tlvs[j])
            /\ \A m \in j + 1 .. k - 1 : ~IsKeyOrSig(Tlvs[m])

(* A signature that counted stands behind its key.                         *)
SignatureSeen(k) ==
    valid_signature => \E j, s \in 1 .. k - 1 : SignedBy(j, s)

HashSeen(k) ==
    image_hash_valid => \E h \in 1 .. k - 1 : Tlvs[h].it_type = HashTlv /\ Tlvs[h].hash

(* No hash has disagreed.                                                  *)
HashesAgree(k) == \A h \in 1 .. k - 1 : Tlvs[h].it_type = HashTlv => Tlvs[h].hash

LastHasPayload(es) == es # <<>> => es[Len(es)].it_len > 0

(* The image is as the build writes it and no read has failed.             *)
Ordinary ==
    /\ clean /\ SignedOnce
    /\ LastHasPayload(image.prot)

(* How far the checks of such an image are.                                *)
OnTrack(k) ==
    /\ image_hash_valid <=> k > ProtCount(image) + 1
    /\ k = ProtCount(image) + 3 =>
          key_id \in Keys /\ key_id \in Tlvs[ProtCount(image) + 3].sig
    /\ valid_signature <=> k > ProtCount(image) + 3

Walked(k) ==
    /\ Position(k)
    /\ KeyNamed(k) /\ SignatureSeen(k) /\ HashSeen(k) /\ HashesAgree(k)

IInv ==
    /\ image \in Candidates
    /\ TypeOK
    /\ pc \in {"hash", "begin"} =>
          key_id = NoKey /\ ~image_hash_valid /\ ~valid_signature
    /\ pc = "loop" =>
          InfoOK(image) /\ \E k \in 1 .. N + 1 : Walked(k) /\ (Ordinary => OnTrack(k))
    /\ pc = "done" /\ rc = 0 => image_hash_valid /\ \E k \in 1 .. N + 1 : Walked(k)
    /\ pc = "done" /\ Ordinary => Accepted

-----------------------------------------------------------------------------
(* What the iterator shows of the TLV it stands in front of.               *)

LEMMA CandidateIsArea ==
    ASSUME image \in Candidates
    PROVE  IsArea(image) /\ N \in Nat /\ DOMAIN Tlvs = 1 .. N
           /\ \A k \in 1 .. N : Tlvs[k].key \in Keys \cup {NoKey} /\ Tlvs[k].it_len \in Nat
<1>1. IsArea(image)
      /\ \A k \in DOMAIN Entries(image) : Entries(image)[k].key \in Keys \cup {NoKey}
  BY CandidatesAssumption
<1> QED
  BY <1>1, EntriesFacts, Layout DEF Tlvs, N

LEMMA AtTlv ==
    ASSUME image \in Candidates, InfoOK(image),
           NEW k \in 1 .. N + 1, Position(k), HasTlv
    PROVE  /\ k \in 1 .. N
           /\ tlv = Tlvs[k]
           /\ Passed(image, it) = IterAt(image, AnyType, FALSE, k + 1)
           /\ Allowed <=> \/ k < ProtCount(image)
                          \/ k = ProtCount(image) /\ Tlvs[k].it_len > 0
                          \/ Tlvs[k].it_type \in allowed_unprot_tlvs
<1>1. IsArea(image) /\ N \in Nat
  BY CandidateIsArea
<1>2. k # N + 1
  <2>1. ~Loads(image, IterAt(image, AnyType, FALSE, N + 1))
    BY <1>1, IterEnds DEF N
  <2> QED
    BY <2>1, Zenon DEF HasTlv, Position
<1>3. k \in 1 .. N
  BY <1>1, <1>2
<1>4. tlv = Tlvs[k] /\ Passed(image, it) = IterAt(image, AnyType, FALSE, k + 1)
  BY <1>1, <1>3, IterLoads, IterPasses DEF Position, N, Tlvs, tlv
<1>5. file_tlv_iter_is_prot(it, PayloadOff(image, it)) <=>
         k < ProtCount(image) \/ (k = ProtCount(image) /\ Tlvs[k].it_len > 0)
  BY <1>1, <1>3, IterProtected DEF Position, N, Tlvs
<1> QED
  BY <1>3, <1>4, <1>5 DEF Allowed

(* Without a TLV to take, the iterator is behind the last one.             *)
LEMMA BehindLast ==
    ASSUME image \in Candidates, InfoOK(image),
           NEW k \in 1 .. N + 1, Position(k), ~HasTlv, pc = "loop"
    PROVE  /\ k = N + 1
           /\ AtEnd(it) <=> ProtCount(image) = 0 \/ ProtCount(image) < N
<1>1. IsArea(image) /\ N \in Nat
  BY CandidateIsArea
<1>2. k = N + 1
  <2> SUFFICES ASSUME k \in 1 .. N PROVE FALSE
    BY <1>1
  <2>1. ~AtEnd(it) /\ Loads(image, it)
    BY <1>1, IterLoads DEF Position, N
  <2> QED
    BY <2>1, Zenon DEF HasTlv
<1> QED
  BY <1>1, <1>2, IterEnds DEF Position, N

-----------------------------------------------------------------------------
(* Each kind of TLV that is passed leaves the variables with their meaning *)
(* in front of the next one.                                               *)

LEMMA ImageSame ==
    ASSUME image' = image
    PROVE  Tlvs' = Tlvs /\ N' = N
BY DEF Tlvs, N

LEMMA KeyAndSignatureStand ==
    ASSUME image \in Candidates, NEW k \in 1 .. N, Walked(k), ~IsKeyOrSig(Tlvs[k]),
           UNCHANGED <<image, key_id, valid_signature>>
    PROVE  KeyNamed(k + 1)' /\ SignatureSeen(k + 1)'
<1>1. N \in Nat /\ Tlvs' = Tlvs
  BY CandidateIsArea, ImageSame
<1>2. KeyNamed(k + 1)'
  <2> SUFFICES ASSUME key_id # NoKey
               PROVE  \E j \in 1 .. k :
                         /\ Tlvs[j].it_type = KeyTlv
                         /\ key_id = file_img_find_key(Tlvs[j])
                         /\ \A m \in j + 1 .. k : ~IsKeyOrSig(Tlvs[m])
    BY <1>1 DEF KeyNamed
  <2>1. PICK j \in 1 .. k - 1 :
           /\ Tlvs[j].it_type = KeyTlv
           /\ key_id = file_img_find_key(Tlvs[j])
           /\ \A m \in j + 1 .. k - 1 : ~IsKeyOrSig(Tlvs[m])
    BY DEF Walked, KeyNamed
  <2>2. \A m \in j + 1 .. k : ~IsKeyOrSig(Tlvs[m])
    BY <1>1, <2>1
  <2> QED
    BY <1>1, <2>1, <2>2
<1>3. SignatureSeen(k + 1)'
  BY <1>1 DEF Walked, SignatureSeen, SignedBy
<1> QED
  BY <1>2, <1>3

LEMMA HashesStand ==
    ASSUME image \in Candidates, NEW k \in 1 .. N, Walked(k), Tlvs[k].it_type # HashTlv,
           UNCHANGED <<image, image_hash_valid>>
    PROVE  HashSeen(k + 1)' /\ HashesAgree(k + 1)'
<1>1. N \in Nat /\ Tlvs' = Tlvs
  BY CandidateIsArea, ImageSame
<1>2. HashSeen(k + 1)'
  BY <1>1 DEF Walked, HashSeen
<1>3. HashesAgree(k + 1)'
  BY <1>1 DEF Walked, HashesAgree
<1> QED
  BY <1>2, <1>3

LEMMA TakeHashWalks ==
    ASSUME image \in Candidates, InfoOK(image), NEW k \in 1 .. N + 1, Walked(k), TakeHash
    PROVE  k \in 1 .. N /\ Walked(k + 1)'
<1>1. /\ k \in 1 .. N /\ Tlvs[k].it_type = HashTlv /\ Tlvs[k].hash
      /\ it' = IterAt(image, AnyType, FALSE, k + 1)
  BY AtTlv DEF TakeHash, Taking, HashOK, NextTlv, Walked
<1>2. N \in Nat /\ UNCHANGED <<image, key_id, valid_signature>> /\ Tlvs' = Tlvs
  BY CandidateIsArea, ImageSame DEF TakeHash, NextTlv
<1>3. Position(k + 1)'
  BY <1>1, <1>2 DEF Position
<1>4. KeyNamed(k + 1)' /\ SignatureSeen(k + 1)'
  BY <1>1, <1>2, KeyAndSignatureStand DEF IsKeyOrSig, HashTlv, KeyTlv, SigTlv
<1>5. HashSeen(k + 1)'
  BY <1>1, <1>2 DEF HashSeen
<1>6. HashesAgree(k + 1)'
  BY <1>1, <1>2 DEF Walked, HashesAgree
<1> QED
  BY <1>1, <1>3, <1>4, <1>5, <1>6 DEF Walked

LEMMA IgnoreWalks ==
    ASSUME image \in Candidates, InfoOK(image), NEW k \in 1 .. N + 1, Walked(k), Ignore
    PROVE  k \in 1 .. N /\ Walked(k + 1)'
<1>1. /\ k \in 1 .. N /\ Tlvs[k].it_type \notin {HashTlv, KeyTlv, SigTlv}
      /\ it' = IterAt(image, AnyType, FALSE, k + 1)
  BY AtTlv DEF Ignore, NextTlv, Walked
<1>2. UNCHANGED <<image, checks>>
  BY DEF Ignore, NextTlv
<1>3. Position(k + 1)'
  BY <1>1, <1>2 DEF Position
<1>4. KeyNamed(k + 1)' /\ SignatureSeen(k + 1)'
  BY <1>1, <1>2, KeyAndSignatureStand DEF IsKeyOrSig, checks
<1>5. HashSeen(k + 1)' /\ HashesAgree(k + 1)'
  BY <1>1, <1>2, HashesStand DEF checks
<1> QED
  BY <1>1, <1>3, <1>4, <1>5 DEF Walked

LEMMA TakeKeyWalks ==
    ASSUME image \in Candidates, InfoOK(image), NEW k \in 1 .. N + 1, Walked(k), TakeKey
    PROVE  k \in 1 .. N /\ Walked(k + 1)'
<1>1. /\ k \in 1 .. N /\ Tlvs[k].it_type = KeyTlv
      /\ it' = IterAt(image, AnyType, FALSE, k + 1)
      /\ key_id' = file_img_find_key(Tlvs[k])
  BY AtTlv DEF TakeKey, Taking, NextTlv, Walked
<1>2. N \in Nat /\ UNCHANGED <<image, image_hash_valid, valid_signature>> /\ Tlvs' = Tlvs
  BY CandidateIsArea, ImageSame DEF TakeKey, NextTlv
<1>3. Position(k + 1)'
  BY <1>1, <1>2 DEF Position
<1>4. KeyNamed(k + 1)'
  <2>1. \A m \in k + 1 .. k : ~IsKeyOrSig(Tlvs[m])
    OBVIOUS
  <2> QED
    BY <1>1, <1>2, <2>1 DEF KeyNamed, file_img_find_key
<1>5. SignatureSeen(k + 1)'
  BY <1>1, <1>2 DEF Walked, SignatureSeen, SignedBy
<1>6. HashSeen(k + 1)' /\ HashesAgree(k + 1)'
  BY <1>1, <1>2, HashesStand DEF HashTlv, KeyTlv
<1> QED
  BY <1>1, <1>3, <1>4, <1>5, <1>6 DEF Walked

(* A signature uses its key up, whether it verifies or not.                *)
LEMMA TakeSigWalks ==
    ASSUME image \in Candidates, InfoOK(image), NEW k \in 1 .. N + 1, Walked(k), TakeSig
    PROVE  k \in 1 .. N /\ Walked(k + 1)'
<1>1. /\ k \in 1 .. N /\ Tlvs[k].it_type = SigTlv
      /\ it' = IterAt(image, AnyType, FALSE, k + 1)
      /\ key_id \in Keys /\ key_id' = NoKey
      /\ valid_signature' => key_id \in Tlvs[k].sig
  BY AtTlv DEF TakeSig, Taking, NextTlv, Walked, bootutil_verify_sig
<1>2. N \in Nat /\ UNCHANGED <<image, image_hash_valid>> /\ Tlvs' = Tlvs
  BY CandidateIsArea, ImageSame DEF TakeSig, NextTlv
<1>3. Position(k + 1)'
  BY <1>1, <1>2 DEF Position
<1>4. KeyNamed(k + 1)'
  BY <1>1 DEF KeyNamed, NoKey
<1>5. SignatureSeen(k + 1)'
  <2> SUFFICES ASSUME valid_signature' PROVE \E j, s \in 1 .. k : SignedBy(j, s)
    BY <1>1, <1>2 DEF SignatureSeen, SignedBy
  <2>1. key_id # NoKey
    BY <1>1 DEF Keys, NoKey, bootutil_key_cnt
  <2>2. PICK j \in 1 .. k - 1 :
           /\ Tlvs[j].it_type = KeyTlv
           /\ key_id = file_img_find_key(Tlvs[j])
           /\ \A m \in j + 1 .. k - 1 : ~IsKeyOrSig(Tlvs[m])
    BY <2>1 DEF Walked, KeyNamed
  <2>3. SignedBy(j, k)
    BY <1>1, <1>2, <2>2 DEF SignedBy, IsKeyOrSig
  <2> QED
    BY <1>1, <1>2, <2>2, <2>3
<1>6. HashSeen(k + 1)' /\ HashesAgree(k + 1)'
  BY <1>1, <1>2, HashesStand DEF HashTlv, SigTlv
<1> QED
  BY <1>1, <1>3, <1>4, <1>5, <1>6 DEF Walked

LEMMA SigWithoutKeyWalks ==
    ASSUME image \in Candidates, InfoOK(image), NEW k \in 1 .. N + 1, Walked(k), SigWithoutKey
    PROVE  k \in 1 .. N /\ Walked(k + 1)'
<1>1. /\ k \in 1 .. N /\ Tlvs[k].it_type = SigTlv
      /\ it' = IterAt(image, AnyType, FALSE, k + 1)
      /\ key_id' = NoKey
  BY AtTlv DEF SigWithoutKey, Taking, Walked
<1>2. /\ N \in Nat /\ UNCHANGED <<image, image_hash_valid, valid_signature>>
      /\ Tlvs' = Tlvs
  BY CandidateIsArea, ImageSame DEF SigWithoutKey
<1>3. Position(k + 1)'
  BY <1>1, <1>2 DEF Position
<1>4. KeyNamed(k + 1)'
  BY <1>1 DEF KeyNamed, NoKey
<1>5. SignatureSeen(k + 1)'
  BY <1>1, <1>2 DEF Walked, SignatureSeen, SignedBy
<1>6. HashSeen(k + 1)' /\ HashesAgree(k + 1)'
  BY <1>1, <1>2, HashesStand DEF HashTlv, SigTlv
<1> QED
  BY <1>1, <1>3, <1>4, <1>5, <1>6 DEF Walked

-----------------------------------------------------------------------------
(* An image as the build writes it.                                        *)

LEMMA OrdinaryFacts ==
    ASSUME image \in Candidates, Ordinary
    PROVE  LET P == ProtCount(image)
           IN  /\ Fits
               /\ P \in Nat /\ N = P + 3
               /\ \A k \in 1 .. P : Tlvs[k].it_type \notin {HashTlv, KeyTlv, SigTlv}
               /\ P # 0 => Tlvs[P].it_len > 0
               /\ IsHash(Tlvs[P + 1])
               /\ Signs(Tlvs[P + 2], Tlvs[P + 3])
<1> DEFINE P == ProtCount(image)
<1>1. IsArea(image)
  BY CandidateIsArea
<1>2. Fits /\ Count(image.unprot) = 3
  BY Zenon DEF Ordinary, SignedOnce, Count
<1>3. \A h \in DOMAIN image.prot : image.prot[h].it_type \notin {HashTlv, KeyTlv, SigTlv}
  BY Zenon DEF Ordinary, SignedOnce
<1>4. P # 0 => image.prot[P].it_len > 0
  BY <1>1, AreaEmpty, Zenon DEF Ordinary, LastHasPayload, ProtCount, Count
<1>5. IsHash(image.unprot[1]) /\ Signs(image.unprot[2], image.unprot[3])
  BY Zenon DEF Ordinary, SignedOnce
<1>6. P \in Nat /\ N = P + 3 /\ DOMAIN image.prot = 1 .. P
  BY <1>1, <1>2, AreaSections DEF IsSection, ProtCount, N, EntryCount
<1>7. \A k \in 1 .. N : Tlvs[k] = IF k <= P THEN image.prot[k] ELSE image.unprot[k - P]
  BY <1>1, EntriesFacts DEF Tlvs, N
<1> HIDE DEF P
<1>8. \A k \in 1 .. P : Tlvs[k] = image.prot[k]
  BY <1>6, <1>7
<1>9. /\ Tlvs[P + 1] = image.unprot[1]
      /\ Tlvs[P + 2] = image.unprot[2]
      /\ Tlvs[P + 3] = image.unprot[3]
  <2>1. /\ P + 1 \in 1 .. N /\ ~(P + 1 <= P) /\ (P + 1) - P = 1
        /\ P + 2 \in 1 .. N /\ ~(P + 2 <= P) /\ (P + 2) - P = 2
        /\ P + 3 \in 1 .. N /\ ~(P + 3 <= P) /\ (P + 3) - P = 3
    BY <1>6
  <2> QED
    BY <1>7, <2>1
<1>10. P # 0 => Tlvs[P].it_len > 0
  BY <1>4, <1>6, <1>8
<1> QED
  BY <1>2, <1>3, <1>5, <1>6, <1>8, <1>9, <1>10 DEF P

(* Its TLVs, and that all of them may stand where they do.                 *)
LEMMA OrdinaryTlvs ==
    ASSUME image \in Candidates, Ordinary, NEW k \in 1 .. N
    PROVE  LET P == ProtCount(image)
           IN  /\ \/ k < P
                  \/ k = P /\ Tlvs[k].it_len > 0
                  \/ Tlvs[k].it_type \in allowed_unprot_tlvs
               /\ Tlvs[k].it_type = HashTlv <=> k = P + 1
               /\ Tlvs[k].it_type = KeyTlv <=> k = P + 2
               /\ Tlvs[k].it_type = SigTlv <=> k = P + 3
               /\ k = P + 1 => Tlvs[k].it_len = IMAGE_HASH_SIZE /\ Tlvs[k].hash
               /\ k = P + 2 => /\ Tlvs[k].it_len <= KEY_BUF_SIZE
                               /\ file_img_find_key(Tlvs[k]) \in Keys \cap Tlvs[P + 3].sig
               /\ k = P + 3 => Tlvs[k].it_len <= SIG_BUF_SIZE
<1> DEFINE P == ProtCount(image)
<1>1. /\ P \in Nat /\ N = P + 3
      /\ \A j \in 1 .. P : Tlvs[j].it_type \notin {HashTlv, KeyTlv, SigTlv}
      /\ P # 0 => Tlvs[P].it_len > 0
      /\ IsHash(Tlvs[P + 1])
      /\ Signs(Tlvs[P + 2], Tlvs[P + 3])
  BY OrdinaryFacts
<1>2. PICK key \in Keys : /\ IsKey(Tlvs[P + 2], key) /\ IsSig(Tlvs[P + 3])
                          /\ key \in Tlvs[P + 3].sig
  BY <1>1 DEF Signs
<1> HIDE DEF P
<1>3. k \in 1 .. P \/ k = P + 1 \/ k = P + 2 \/ k = P + 3
  BY <1>1
<1>4. CASE k \in 1 .. P
  <2>1. Tlvs[k].it_type \notin {HashTlv, KeyTlv, SigTlv}
    BY <1>1, <1>4
  <2>2. k < P \/ (k = P /\ P # 0)
    BY <1>1, <1>4
  <2>3. k < P \/ (k = P /\ Tlvs[k].it_len > 0)
    BY <1>1, <2>2
  <2>4. k # P + 1 /\ k # P + 2 /\ k # P + 3
    BY <1>1, <1>4
  <2> QED
    BY <2>1, <2>3, <2>4 DEF P
<1>5. CASE k = P + 1
  <2>1. Tlvs[k].it_type = HashTlv /\ Tlvs[k].it_len = IMAGE_HASH_SIZE /\ Tlvs[k].hash
    BY <1>1, <1>5 DEF IsHash
  <2>2. k # P + 2 /\ k # P + 3
    BY <1>1, <1>5
  <2> QED
    BY <1>5, <2>1, <2>2 DEF P, allowed_unprot_tlvs, HashTlv, KeyTlv, SigTlv
<1>6. CASE k = P + 2
  <2>1. /\ Tlvs[k].it_type = KeyTlv
        /\ Tlvs[k].it_len = KEY_BUF_SIZE /\ Tlvs[k].key = key
    BY <1>2, <1>6 DEF IsKey
  <2>2. k # P + 1 /\ k # P + 3
    BY <1>1, <1>6
  <2>3. file_img_find_key(Tlvs[k]) = key /\ Tlvs[k].it_len <= KEY_BUF_SIZE
    BY <2>1 DEF file_img_find_key, KEY_BUF_SIZE, IMAGE_HASH_SIZE
  <2> QED
    BY <1>2, <1>6, <2>1, <2>2, <2>3
       DEF P, allowed_unprot_tlvs, HashTlv, KeyTlv, SigTlv
<1>7. CASE k = P + 3
  <2>1. Tlvs[k].it_type = SigTlv /\ Tlvs[k].it_len <= SIG_BUF_SIZE
    BY <1>2, <1>7 DEF IsSig
  <2>2. k # P + 1 /\ k # P + 2
    BY <1>1, <1>7
  <2> QED
    BY <1>7, <2>1, <2>2 DEF P, allowed_unprot_tlvs, HashTlv, KeyTlv, SigTlv
<1> QED
  BY <1>3, <1>4, <1>5, <1>6, <1>7

(* Each TLV that is passed keeps it on track.                              *)
LEMMA StaysOnTrack ==
    ASSUME image \in Candidates, InfoOK(image), Ordinary,
           NEW k \in 1 .. N + 1, Walked(k), OnTrack(k),
           TakeHash \/ TakeKey \/ TakeSig \/ Ignore
    PROVE  OnTrack(k + 1)'
<1> DEFINE P == ProtCount(image)
<1>1. P \in Nat /\ N = P + 3
  BY OrdinaryFacts
<1>2. HasTlv /\ image' = image
  BY DEF TakeHash, TakeKey, TakeSig, Ignore, Taking, NextTlv
<1>3. k \in 1 .. N /\ tlv = Tlvs[k]
  BY <1>2, AtTlv DEF Walked
<1>4. Tlvs' = Tlvs /\ ProtCount(image)' = P
  BY <1>2, ImageSame
<1>5. /\ Tlvs[k].it_type = HashTlv <=> k = P + 1
      /\ Tlvs[k].it_type = KeyTlv <=> k = P + 2
      /\ Tlvs[k].it_type = SigTlv <=> k = P + 3
      /\ k = P + 2 => file_img_find_key(Tlvs[k]) \in Keys \cap Tlvs[P + 3].sig
  BY <1>3, OrdinaryTlvs
<1>6. /\ image_hash_valid <=> k > P + 1
      /\ k = P + 3 => key_id \in Keys /\ key_id \in Tlvs[P + 3].sig
      /\ valid_signature <=> k > P + 3
  BY DEF OnTrack
<1> HIDE DEF P
<1> SUFFICES /\ image_hash_valid' <=> k + 1 > P + 1
             /\ k + 1 = P + 3 => key_id' \in Keys /\ key_id' \in Tlvs[P + 3].sig
             /\ valid_signature' <=> k + 1 > P + 3
  BY <1>4 DEF OnTrack
<1>7. CASE TakeHash
  <2>1. k = P + 1 /\ image_hash_valid' /\ UNCHANGED valid_signature
    BY <1>3, <1>5, <1>7 DEF TakeHash, Taking
  <2> QED
    BY <1>1, <1>6, <2>1
<1>8. CASE TakeKey
  <2>1. /\ k = P + 2 /\ key_id' = file_img_find_key(Tlvs[k])
        /\ UNCHANGED <<image_hash_valid, valid_signature>>
    BY <1>3, <1>5, <1>8 DEF TakeKey, Taking
  <2>2. key_id' \in Keys /\ key_id' \in Tlvs[P + 3].sig
    BY <1>5, <2>1
  <2> QED
    BY <1>1, <1>6, <2>1, <2>2
<1>9. CASE TakeSig
  <2>1. /\ k = P + 3 /\ valid_signature' = (key_id \in Tlvs[k].sig)
        /\ UNCHANGED image_hash_valid
    BY <1>3, <1>5, <1>9 DEF TakeSig, Taking, bootutil_verify_sig
  <2>2. valid_signature'
    BY <1>6, <2>1
  <2> QED
    BY <1>1, <1>6, <2>1, <2>2
<1>10. CASE Ignore
  <2>1. /\ Tlvs[k].it_type \notin {HashTlv, KeyTlv, SigTlv}
        /\ UNCHANGED <<key_id, image_hash_valid, valid_signature>>
    BY <1>3, <1>10 DEF Ignore, checks
  <2>2. k < P + 1
    BY <1>1, <1>3, <1>5, <2>1
  <2> QED
    BY <1>1, <1>6, <2>1, <2>2
<1> QED
  BY <1>7, <1>8, <1>9, <1>10

(* None of its TLVs is refused, and at the end all checks have been made.  *)
LEMMA OrdinaryNotRefused ==
    ASSUME image \in Candidates, InfoOK(image), Ordinary, pc = "loop",
           NEW k \in 1 .. N + 1, Walked(k), OnTrack(k)
    PROVE  /\ ~(RefuseUnprotected \/ NothingToLoad \/ RefuseHash \/ RefuseKey \/ RefuseSig)
           /\ ~SigWithoutKey
           /\ EndOfTlvs => image_hash_valid /\ valid_signature
<1> DEFINE P == ProtCount(image)
<1>1. P \in Nat /\ N = P + 3 /\ Position(k)
  BY OrdinaryFacts DEF Walked
<1>2. CASE HasTlv
  <2>1. /\ k \in 1 .. N /\ tlv = Tlvs[k]
        /\ Allowed <=> \/ k < P
                       \/ k = P /\ Tlvs[k].it_len > 0
                       \/ Tlvs[k].it_type \in allowed_unprot_tlvs
    BY <1>1, <1>2, AtTlv
  <2>2. /\ Allowed
        /\ tlv.it_type = HashTlv => tlv.it_len = IMAGE_HASH_SIZE /\ tlv.hash
        /\ tlv.it_type = KeyTlv => tlv.it_len <= KEY_BUF_SIZE
        /\ tlv.it_type = SigTlv => tlv.it_len <= SIG_BUF_SIZE /\ k = P + 3
    BY <2>1, OrdinaryTlvs
  <2>3. k = P + 3 => key_id \in Keys
    BY DEF OnTrack
  <2>4. ~RefuseUnprotected /\ ~NothingToLoad /\ ~EndOfTlvs
    BY <1>2, <2>2 DEF RefuseUnprotected, NothingToLoad, EndOfTlvs, HasTlv
  <2>5. ~RefuseHash
    BY <2>2 DEF RefuseHash, Taking, HashOK
  <2>6. ~RefuseKey
    <3>1. tlv.it_type = KeyTlv => ~(tlv.it_len > KEY_BUF_SIZE)
      <4>1. tlv.it_len \in Nat
        BY <2>1, CandidateIsArea
      <4> QED
        BY <2>2, <4>1 DEF KEY_BUF_SIZE, IMAGE_HASH_SIZE
    <3> QED
      BY <3>1 DEF RefuseKey, Taking
  <2>7. ~RefuseSig
    <3>1. tlv.it_type = SigTlv => ~(tlv.it_len > SIG_BUF_SIZE)
      <4>1. tlv.it_len \in Nat
        BY <2>1, CandidateIsArea
      <4> QED
        BY <2>2, <4>1 DEF SIG_BUF_SIZE
    <3> QED
      BY <3>1 DEF RefuseSig, Taking
  <2>8. ~SigWithoutKey
    BY <2>2, <2>3 DEF SigWithoutKey, Taking
  <2> QED
    BY <2>4, <2>5, <2>6, <2>7, <2>8
<1>3. CASE ~HasTlv
  <2>1. k = N + 1 /\ AtEnd(it)
    BY <1>1, <1>3, BehindLast
  <2>2. image_hash_valid /\ valid_signature
    BY <1>1, <2>1 DEF OnTrack
  <2> QED
    BY <1>3, <2>1, <2>2
       DEF RefuseUnprotected, NothingToLoad, RefuseHash, RefuseKey, RefuseSig,
           SigWithoutKey, Taking
<1> QED
  BY <1>2, <1>3

-----------------------------------------------------------------------------
(* The invariant holds at first and is kept by every step.                 *)

LEMMA TypesInit ==
    ASSUME Init
    PROVE  TypeOK
<1>1. IsArea(image)
  BY CandidateIsArea DEF Init
<1>2. image.ih_protect_tlv_size \in Nat
  BY <1>1, IsAreaHeader
<1>3. UnprotTot(image) \in Nat
  BY <1>1, Layout
<1>4. /\ it.tlv_off = SizeofInfo /\ it.prot_end = image.ih_protect_tlv_size
      /\ it.tlv_end = image.ih_protect_tlv_size + UnprotTot(image)
  BY DEF Init, file_tlv_iter_begin
<1>5. it.tlv_off \in Nat /\ it.prot_end \in Nat /\ it.tlv_end \in Nat
  BY <1>2, <1>3, <1>4 DEF SizeofInfo
<1> QED
  BY <1>5 DEF Init, TypeOK

THEOREM IInvInit == Init => IInv
<1> SUFFICES ASSUME Init PROVE IInv
  OBVIOUS
<1>1. TypeOK
  BY TypesInit
<1> QED
  BY <1>1 DEF Init, IInv

LEMMA IterTyped ==
    ASSUME image \in Candidates, NEW k \in 1 .. N + 1, it = IterAt(image, AnyType, FALSE, k)
    PROVE  it.tlv_off \in Nat /\ it.prot_end \in Nat /\ it.tlv_end \in Nat
BY CandidateIsArea, IterTypes DEF N

LEMMA OrdinarySame ==
    ASSUME UNCHANGED <<image, clean>>
    PROVE  Ordinary' <=> Ordinary
<1>1. image' = image /\ clean' = clean
  OBVIOUS
<1>2. Fits' <=> Fits
  BY <1>1, Zenon DEF Fits
<1>3. SignedOnce' <=> SignedOnce
  BY <1>1, <1>2, Zenon DEF SignedOnce
<1> QED
  BY <1>1, <1>3 DEF Ordinary

LEMMA WalkedSame ==
    ASSUME NEW k, UNCHANGED <<image, it, checks>>
    PROVE  (Walked(k) => Walked(k)') /\ (OnTrack(k) => OnTrack(k)')
<1>1. /\ UNCHANGED <<image, it, key_id, image_hash_valid, valid_signature>>
      /\ Tlvs' = Tlvs
  BY ImageSame DEF checks
<1>2. OnTrack(k) => OnTrack(k)'
  BY <1>1 DEF OnTrack
<1>3. Walked(k) => Position(k)' /\ KeyNamed(k)'
  BY <1>1 DEF Walked, Position, KeyNamed
<1>4. Walked(k) => SignatureSeen(k)'
  BY <1>1 DEF Walked, SignatureSeen, SignedBy
<1>5. Walked(k) => HashSeen(k)' /\ HashesAgree(k)'
  BY <1>1 DEF Walked, HashSeen, HashesAgree
<1> QED
  BY <1>2, <1>3, <1>4, <1>5 DEF Walked

LEMMA WalkedTyped ==
    ASSUME image \in Candidates, UNCHANGED image, NEW k \in 1 .. N, Walked(k + 1)'
    PROVE  it'.tlv_off \in Nat /\ it'.prot_end \in Nat /\ it'.tlv_end \in Nat
<1>1. IsArea(image) /\ N \in Nat
  BY CandidateIsArea
<1>2. k + 1 \in 1 .. N + 1
  BY <1>1
<1>3. it' = IterAt(image, AnyType, FALSE, k + 1)
  BY DEF Walked, Position
<1> QED
  BY <1>1, <1>2, <1>3, IterTypes DEF N

LEMMA TakenTyped ==
    ASSUME image \in Candidates, TypeOK, InfoOK(image),
           NEW k \in 1 .. N, Walked(k), Walked(k + 1)', UNCHANGED <<image, pc, rc, clean>>,
           TakeHash \/ TakeKey \/ TakeSig \/ Ignore
    PROVE  TypeOK'
<1>1. it'.tlv_off \in Nat /\ it'.prot_end \in Nat /\ it'.tlv_end \in Nat
  BY WalkedTyped
<1>2. CASE TakeHash
  BY <1>1, <1>2 DEF TypeOK, TakeHash
<1>3. CASE TakeKey
  <2>1. tlv = Tlvs[k]
    <3>1. k \in 1 .. N + 1 /\ Position(k) /\ HasTlv
      BY <1>3, CandidateIsArea DEF TakeKey, Taking, Walked
    <3> QED
      BY <3>1, AtTlv
  <2>2. key_id' \in Keys \cup {NoKey}
    BY <1>3, <2>1, CandidateIsArea
       DEF TakeKey, file_img_find_key, Keys, bootutil_key_cnt
  <2> QED
    BY <1>1, <1>3, <2>2 DEF TypeOK, TakeKey
<1>4. CASE TakeSig
  BY <1>1, <1>4 DEF TypeOK, TakeSig, bootutil_verify_sig
<1>5. CASE Ignore
  BY <1>1, <1>5 DEF TypeOK, Ignore, checks
<1> QED
  BY <1>2, <1>3, <1>4, <1>5

(* Ends of the validation at which nothing is taken any more.              *)
LEMMA RefuseKeeps ==
    ASSUME IInv, Return(-1), UNCHANGED <<image, it, checks>>, clean' \in BOOLEAN, ~Ordinary'
    PROVE  IInv'
<1>1. image' = image /\ TypeOK'
  BY DEF IInv, TypeOK, Return, checks
<1> QED
  BY <1>1 DEF IInv, Return

THEOREM IInvStep == IInv /\ [Next]_vars => IInv'
<1> SUFFICES ASSUME IInv, [Next]_vars PROVE IInv'
  OBVIOUS
<1>1. image \in Candidates /\ IsArea(image) /\ TypeOK /\ N \in Nat
  BY CandidateIsArea DEF IInv
<1>2. CASE UNCHANGED vars
  <2>1. /\ UNCHANGED <<image, pc, it, key_id, image_hash_valid, valid_signature, rc, clean>>
        /\ UNCHANGED <<image, it, checks>> /\ UNCHANGED <<image, clean>>
    BY <1>2 DEF vars, checks
  <2>2. N' = N /\ (Ordinary' <=> Ordinary)
    BY <2>1, ImageSame, OrdinarySame
  <2>3. \A k : (Walked(k) => Walked(k)') /\ (OnTrack(k) => OnTrack(k)')
    BY <2>1, WalkedSame
  <2>4. TypeOK'
    BY <1>1, <2>1 DEF TypeOK
  <2> QED
    BY <2>1, <2>2, <2>3, <2>4 DEF IInv, Accepted
<1>3. CASE file_img_hash
  <2>1. TypeOK'
    BY <1>1, <1>3 DEF TypeOK, file_img_hash, checks
  <2> QED
    BY <1>3, <2>1 DEF IInv, file_img_hash, checks
<1>4. CASE Begin
  <2>1. /\ pc = "begin" /\ pc' = "loop" /\ InfoOK(image)
        /\ it' = file_tlv_iter_begin(image, AnyType, FALSE)
        /\ UNCHANGED <<image, key_id, image_hash_valid, valid_signature, rc, clean>>
    BY <1>4 DEF Begin, checks
  <2>2. key_id = NoKey /\ ~image_hash_valid /\ ~valid_signature
    BY <2>1 DEF IInv
  <2>3. file_tlv_iter_begin(image, AnyType, FALSE) = IterAt(image, AnyType, FALSE, 1)
    BY <1>1, <2>1, IterStarts
  <2>8. 1 \in 1 .. N + 1 /\ it' = IterAt(image, AnyType, FALSE, 1)
    <3>1. 1 \in 1 .. N + 1
      BY <1>1
    <3> QED
      BY <2>1, <2>3, <3>1, Zenon
  <2>4. Walked(1)'
    <3>1. Position(1)'
      BY <2>1, <2>8 DEF Position
    <3>2. ~(key_id' # NoKey) /\ ~valid_signature' /\ ~image_hash_valid'
      BY <2>1, <2>2
    <3>3. HashesAgree(1)'
      BY DEF HashesAgree
    <3> QED
      BY <3>1, <3>2, <3>3 DEF Walked, KeyNamed, SignatureSeen, HashSeen
  <2>5. Ordinary' => OnTrack(1)'
    <3> SUFFICES ASSUME Ordinary PROVE OnTrack(1)'
      BY <2>1, OrdinarySame
    <3>1. ProtCount(image) \in Nat
      BY <1>1, OrdinaryFacts
    <3> QED
      BY <2>1, <2>2, <3>1 DEF OnTrack
  <2>6. TypeOK'
    <3>1. it'.tlv_off \in Nat /\ it'.prot_end \in Nat /\ it'.tlv_end \in Nat
      BY <1>1, <2>8, IterTypes DEF N
    <3> QED
      BY <1>1, <2>1, <3>1 DEF TypeOK
  <2>7. N' = N
    BY <2>1, ImageSame
  <2> QED
    BY <1>1, <2>1, <2>4, <2>5, <2>6, <2>7, <2>8 DEF IInv
<1>5. CASE BeginRefuses
  <2>1. ~Ordinary
    <3> DEFINE size == file_tlv_iter_begin(image, AnyType, FALSE).tlv_end
    <3>1. size = image.ih_protect_tlv_size + UnprotTot(image)
      BY DEF file_tlv_iter_begin
    <3> HIDE DEF size
    <3>2. size \in Nat /\ FaSize \in Nat
      BY <1>1, <3>1, FaSizeAssumption, Layout, IsAreaHeader
    <3>3. ~Fits
      <4>1. ~InfoOK(image) \/ size > FaSize
        BY <1>5 DEF BeginRefuses, size
      <4>2. Fits => InfoOK(image) /\ size <= FaSize
        BY DEF Fits, size
      <4> QED
        BY <3>2, <4>1, <4>2
    <3> QED
      BY <1>1, <3>3, OrdinaryFacts
  <2>2. /\ Return(-1) /\ UNCHANGED <<image, it, checks>> /\ UNCHANGED <<image, clean>>
    BY <1>5 DEF BeginRefuses
  <2>3. ~Ordinary' /\ clean' \in BOOLEAN
    BY <1>1, <2>1, <2>2, OrdinarySame DEF TypeOK
  <2> QED
    BY <2>2, <2>3, RefuseKeeps
<1>6. CASE ReadFails
  <2>1. ~Ordinary'
    BY <1>6 DEF ReadFails, Ordinary
  <2> QED
    BY <1>6, <2>1, RefuseKeeps DEF ReadFails
<1> DEFINE Refuses == RefuseUnprotected \/ NothingToLoad \/ RefuseHash \/ RefuseKey \/ RefuseSig
           Takes   == TakeHash \/ TakeKey \/ TakeSig \/ Ignore
<1>7. ASSUME Refuses \/ Takes \/ SigWithoutKey \/ EndOfTlvs PROVE IInv'
  <2>1. pc = "loop"
    BY <1>7 DEF RefuseUnprotected, NothingToLoad, RefuseHash, RefuseKey, RefuseSig, TakeHash,
                TakeKey, TakeSig, Ignore, SigWithoutKey, EndOfTlvs, Taking, HasTlv
  <2>2. InfoOK(image)
    BY <2>1 DEF IInv
  <2>3. PICK k \in 1 .. N + 1 : Walked(k) /\ (Ordinary => OnTrack(k))
    BY <2>1 DEF IInv
  <2>4. CASE Refuses
    <3>1. /\ Return(-1) /\ UNCHANGED <<image, it, checks>> /\ UNCHANGED <<image, clean>>
      BY <2>4 DEF RefuseUnprotected, NothingToLoad, RefuseHash, RefuseKey, RefuseSig, Refuse
    <3>2. ~Ordinary
      BY <1>1, <2>1, <2>2, <2>3, <2>4, OrdinaryNotRefused
    <3>3. ~Ordinary' /\ clean' \in BOOLEAN
      BY <1>1, <3>1, <3>2, OrdinarySame DEF TypeOK
    <3> QED
      BY <3>1, <3>3, RefuseKeeps
  <2>5. CASE Takes
    <3>1. UNCHANGED <<image, pc, rc, clean>> /\ UNCHANGED <<image, clean>>
      BY <2>5 DEF TakeHash, TakeKey, TakeSig, Ignore, NextTlv
    <3>2. k \in 1 .. N /\ Walked(k + 1)'
      BY <1>1, <2>2, <2>3, <2>5, TakeHashWalks, TakeKeyWalks, TakeSigWalks, IgnoreWalks
    <3>3. Ordinary' => OnTrack(k + 1)'
      BY <1>1, <2>2, <2>3, <2>5, <3>1, StaysOnTrack, OrdinarySame
    <3>4. TypeOK'
      BY <1>1, <2>2, <2>3, <2>5, <3>1, <3>2, TakenTyped
    <3>5. k + 1 \in 1 .. N' + 1
      BY <1>1, <3>1, <3>2, ImageSame
    <3> QED
      BY <1>1, <2>1, <2>2, <3>1, <3>2, <3>3, <3>4, <3>5 DEF IInv
  <2>6. CASE SigWithoutKey
    <3>1. /\ pc' = "done" /\ rc' = Ends /\ key_id' = NoKey
          /\ UNCHANGED <<image, image_hash_valid, valid_signature, clean>>
          /\ UNCHANGED <<image, clean>>
      BY <2>6 DEF SigWithoutKey, Return
    <3>2. k \in 1 .. N /\ Walked(k + 1)'
      BY <1>1, <2>2, <2>3, <2>6, SigWithoutKeyWalks
    <3>3. ~Ordinary'
      BY <1>1, <2>1, <2>2, <2>3, <2>6, <3>1, OrdinaryNotRefused, OrdinarySame
    <3>4. k + 1 \in 1 .. N' + 1
      BY <1>1, <3>1, <3>2, ImageSame
    <3>5. TypeOK'
      <4>1. it'.tlv_off \in Nat /\ it'.prot_end \in Nat /\ it'.tlv_end \in Nat
        BY <1>1, <3>1, <3>2, WalkedTyped
      <4> QED
        BY <1>1, <3>1, <4>1 DEF TypeOK, Ends
    <3> QED
      BY <1>1, <3>1, <3>2, <3>3, <3>4, <3>5 DEF IInv, Ends
  <2>7. CASE EndOfTlvs
    <3>1. /\ pc' = "done" /\ rc' = Ends
          /\ UNCHANGED <<image, it, checks>> /\ UNCHANGED <<image, clean>>
          /\ UNCHANGED <<it, key_id, image_hash_valid, valid_signature, clean>>
      BY <2>7 DEF EndOfTlvs, Return, checks
    <3>2. Walked(k)' /\ k \in 1 .. N' + 1
      BY <2>3, <3>1, WalkedSame, ImageSame
    <3>3. Ordinary' => image_hash_valid /\ valid_signature
      BY <1>1, <2>1, <2>2, <2>3, <2>7, <3>1, OrdinaryNotRefused, OrdinarySame
    <3>4. TypeOK'
      BY <1>1, <3>1 DEF TypeOK, Ends
    <3> QED
      BY <1>1, <3>1, <3>2, <3>3, <3>4 DEF IInv, Ends, Accepted
  <2> QED
    BY <1>7, <2>4, <2>5, <2>6, <2>7
<1> QED
  BY <1>2, <1>3, <1>4, <1>5, <1>6, <1>7 DEF Next, Step

-----------------------------------------------------------------------------

(* What the theorems below rest on: the variables always mean what IInv    *)
(* says of them.                                                           *)
THEOREM Inductive == Spec => []IInv
<1>1. Init => IInv
  BY IInvInit
<1>2. IInv /\ [Next]_vars => IInv'
  BY IInvStep
<1> QED
  BY <1>1, <1>2, PTL DEF Spec

(* The variables of file_img_validate have their types, whatever the file. *)
THEOREM TypesCorrect == Spec => []TypeOK
<1>1. IInv => TypeOK
  BY DEF IInv
<1> QED
  BY <1>1, Inductive, PTL

(* An accepted file has the hash of its image among its TLVs and a         *)
(* signature that verifies under the known key named just before it,       *)
(* however many TLVs of whatever types it has, in whatever order.          *)
THEOREM AcceptedIsSigned == Spec => []AcceptedMeansSigned
<1>1. IInv => AcceptedMeansSigned
  <2> SUFFICES ASSUME IInv, Accepted
               PROVE  /\ \E h \in DOMAIN Tlvs : Tlvs[h].it_type = HashTlv /\ Tlvs[h].hash
                      /\ \E j, k \in DOMAIN Tlvs : SignedBy(j, k)
    BY DEF AcceptedMeansSigned
  <2>1. N \in Nat /\ DOMAIN Tlvs = 1 .. N
    BY CandidateIsArea DEF IInv
  <2>2. PICK n \in 1 .. N + 1 : Walked(n)
    BY DEF IInv, Accepted
  <2>3. image_hash_valid /\ valid_signature
    BY DEF IInv, Accepted
  <2>4. \A m \in 1 .. n - 1 : m \in DOMAIN Tlvs
    BY <2>1, <2>2
  <2>5. \E h \in 1 .. n - 1 : Tlvs[h].it_type = HashTlv /\ Tlvs[h].hash
    BY <2>2, <2>3 DEF Walked, HashSeen
  <2>6. \E j, k \in 1 .. n - 1 : SignedBy(j, k)
    BY <2>2, <2>3 DEF Walked, SignatureSeen
  <2> QED
    BY <2>4, <2>5, <2>6
<1> QED
  BY <1>1, Inductive, PTL

(* Of an accepted file no hash ahead of the signature that counted         *)
(* disagrees with the image.                                               *)
THEOREM HashesOfAcceptedAgree == Spec => []NoHashDisagrees
<1>1. IInv => NoHashDisagrees
  <2> SUFFICES ASSUME IInv, Accepted
               PROVE  \E k \in DOMAIN Tlvs :
                         /\ \E j \in DOMAIN Tlvs : SignedBy(j, k)
                         /\ \A h \in 1 .. k : Tlvs[h].it_type = HashTlv => Tlvs[h].hash
    BY DEF NoHashDisagrees
  <2>1. N \in Nat /\ DOMAIN Tlvs = 1 .. N
    BY CandidateIsArea DEF IInv
  <2>2. PICK n \in 1 .. N + 1 : Walked(n)
    BY DEF IInv, Accepted
  <2>3. PICK j, k \in 1 .. n - 1 : SignedBy(j, k)
    BY <2>2 DEF Accepted, Walked, SignatureSeen
  <2>4. \A h \in 1 .. k : h \in 1 .. n - 1
    BY <2>1, <2>2, <2>3
  <2>5. \A h \in 1 .. k : Tlvs[h].it_type = HashTlv => Tlvs[h].hash
    BY <2>2, <2>4 DEF Walked, HashesAgree
  <2>6. j \in DOMAIN Tlvs /\ k \in DOMAIN Tlvs
    BY <2>1, <2>2, <2>3
  <2> QED
    BY <2>3, <2>5, <2>6
<1> QED
  BY <1>1, Inductive, PTL

(* An image as the build writes it is accepted unless a read fails,        *)
(* whatever it has in its protected section.                               *)
THEOREM OrdinaryIsAccepted == Spec => []OrdinaryAccepted
<1>1. IInv => OrdinaryAccepted
  BY Zenon DEF IInv, OrdinaryAccepted, Ordinary, LastHasPayload
<1> QED
  BY <1>1, Inductive, PTL

=============================================================================
