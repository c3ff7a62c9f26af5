-------------------------------- MODULE HwRev --------------------------------
(***************************************************************************)
(* fw_img_hw_rev.c: the search of an image's protected TLVs for the        *)
(* hardware revision, a number and a name, once in a flash area and once   *)
(* in a file.  The two loops are the same but for what a read past the end *)
(* does: flash holds erased bytes there, and fs_read returns fewer bytes   *)
(* than asked, which the search does not take for an error.                *)
(*                                                                         *)
(* Offsets are those of FileTlv: bytes from the start of the TLV area.     *)
(* Entries also have a val.  The search stops with both values found; with *)
(* one found it reports failure, and its callers use that one all the same.*)
(***************************************************************************)
EXTENDS FileTlv

CONSTANTS
    Areas,     \* the TLV areas searched
    NoName,    \* hw_rev_name is empty
    Torn       \* hw_rev_name holds a part of a name

ASSUME NamesDiffer == NoName # Torn

VARIABLES
    medium,    \* where the image is: "flash" or "file"
    image,
    eof,       \* the file ends there, at the end of the area or short of it
    pc,        \* "info", "next", "handle", "done"
    off,       \* data_off
    end,       \* tlvs_end_off
    tlv,       \* the entry header last read
    num, name, \* p_hw_rev
    result,    \* what the search returns
    clean      \* no read has failed

vars   == <<medium, image, eof, pc, off, end, tlv, num, name, result, clean>>
args   == <<medium, image, eof>>
hw_rev == <<num, name>>

IsId(e)   == e.it_type = "id"
IsName(e) == e.it_type = "name"

MaxName == 15    \* FW_INFO_HW_REV_NAME_MAX_LEN

ASSUME AreasAssumption ==
    \A i \in Areas : IsArea(i) /\ \A e \in Range(i.prot) : IsId(e) => e.val \in Nat

-----------------------------------------------------------------------------
(* The area as it is read.                                                 *)

AreaSize(i) == ProtTot(i) + (IF i.it_magic THEN UnprotTot(i) ELSE 0)

Avail(o) == IF medium = "flash" \/ o > eof THEN 0 ELSE eof - o
Reads(o, size) == IF medium = "flash" THEN size ELSE Min({size, Avail(o)})

Erased == [it_type |-> "other", it_len |-> 65535]

(* What lies at offset o.  The entries of the protected section are read   *)
(* up to four bytes too far (see end below), where the image_tlv_info of   *)
(* the next section is taken for an entry.                                 *)
At(o) ==
    IF \E p \in Placed(image) : p.off = o
    THEN (CHOOSE p \in Placed(image) : p.off = o).tlv
    ELSE IF o = ProtTot(image) /\ image.it_magic
    THEN [it_type |-> "other", it_len |-> UnprotTot(image)]
    ELSE Erased

(* The header a read of 4 bytes at o leaves in tlv: type, then length, each*)
(* low byte first.  Lengths are below 256, so three bytes give them whole. *)
(* One byte mixes the type's low byte with the old high byte.              *)
Headers(o) ==
    LET n == Reads(o, SizeofTlv)
        Is(type, len) == [it_type |-> type, it_len |-> len]
    IN  CASE n >= 3 -> {Is(At(o).it_type, At(o).it_len)}
          [] n = 2  -> {Is(At(o).it_type, tlv.it_len)}
          [] n = 1  -> {Is(type, tlv.it_len) : type \in {At(o).it_type, tlv.it_type, "other"}}
          [] n = 0  -> {tlv}

(* The first k of a number's 4 bytes, which is stored high byte first, and *)
(* the first k of a name's characters.  A name that starts with a 0 is     *)
(* empty, whatever its length: its val is NoName.                          *)
LastByte(k)     == CASE k = 1 -> 16777216 [] k = 2 -> 65536 [] k = 3 -> 256 [] k = 4 -> 1
HighBytes(v, k) == IF k = 0 THEN 0 ELSE (v \div LastByte(k)) * LastByte(k)
Text(e, k) ==
    IF k = 0 THEN NoName ELSE IF k < e.it_len /\ e.val # NoName THEN Torn ELSE e.val

-----------------------------------------------------------------------------

Init ==
    /\ image \in Areas
    /\ \/ medium = "flash" /\ eof = AreaSize(image)
       \/ medium = "file" /\ eof \in 0 .. AreaSize(image)
    /\ pc = "info"
    /\ off = 0 /\ end = 0
    /\ tlv = [it_type |-> "other", it_len |-> 0]
    /\ num = 0 /\ name = NoName
    /\ result = FALSE /\ clean = TRUE

Return(res) == pc' = "done" /\ result' = res

(* The area starts with the protected section's magic.                     *)
HasProtected == Reads(0, SizeofInfo) >= 2 /\ image.prot # <<>>

(* Of a cut header only the magic may have been read; it_tlv_tot is then 0.*)
TlvTot ==
    IF Reads(0, SizeofInfo) = 2 THEN 0
    ELSE IF image.prot # <<>> THEN ProtTot(image) ELSE UnprotTot(image)

(* find_tlvs_in_flash_area and find_tlvs_in_file, with the reads of the    *)
(* image's own header before them.  it_tlv_tot counts the image_tlv_info,  *)
(* so that end is 4 bytes past the section's last entry.                   *)
FindTlvs ==
    /\ pc = "info" /\ HasProtected
    /\ pc' = "next"
    /\ off' = SizeofInfo
    /\ end' = SizeofInfo + TlvTot
    /\ UNCHANGED <<args, tlv, hw_rev, result, clean>>

NoTlvs ==
    /\ pc = "info" /\ ~HasProtected
    /\ Return(FALSE)
    /\ UNCHANGED <<args, off, end, tlv, hw_rev, clean>>

(* The loop's condition and the read of the next entry's header.           *)
More == off + SizeofTlv <= end

Load ==
    /\ pc = "next" /\ More
    /\ tlv' \in Headers(off)
    /\ pc' = "handle"
    /\ UNCHANGED <<args, off, end, hw_rev, result, clean>>

NotFound ==
    /\ pc = "next" /\ ~More
    /\ Return(FALSE)
    /\ UNCHANGED <<args, off, end, tlv, hw_rev, clean>>

-----------------------------------------------------------------------------
(* fw_img_hw_rev_handle_tlv_hw_rev_in_flash_area and ..._in_file.          *)

(* Faulty: the terminating 0 has no room.                                  *)
UnusableOverrun(e) ==
    \/ IsId(e) /\ (e.it_len # 4 \/ num # 0)
    \/ IsName(e) /\ (e.it_len > MaxName + 1 \/ name # NoName)

(* An entry of the wrong length or a second one ends the search.           *)
Unusable(e) ==
    \/ IsId(e) /\ (e.it_len # 4 \/ num # 0)
    \/ IsName(e) /\ (e.it_len > MaxName \/ name # NoName)

(* Any read may fail, a file's name part of the way.                       *)
ReadFails ==
    /\ \/ pc = "info" /\ UNCHANGED name
       \/ pc = "next" /\ More /\ UNCHANGED name
       \/ pc = "handle" /\ IsId(tlv) /\ UNCHANGED name
       \/ /\ pc = "handle" /\ IsName(tlv)
          /\ \/ name' = NoName
             \/ /\ Reads(off + SizeofTlv, tlv.it_len) > 0 /\ At(off).val # NoName
                /\ name' = Torn
    /\ pc = "handle" => ~Unusable(tlv)
    /\ Return(FALSE)
    /\ clean' = FALSE
    /\ UNCHANGED <<args, off, end, tlv, num>>

Refuse ==
    /\ pc = "handle" /\ Unusable(tlv)
    /\ Return(FALSE)
    /\ UNCHANGED <<args, off, end, tlv, hw_rev, clean>>

(* Faulty: the entry's own header is not stepped over.                     *)
NextOffOfPayload == off + tlv.it_len

NextOff == off + SizeofTlv + tlv.it_len

(* Faulty: one of the two is enough.                                       *)
EitherFound(n, nm) == n # 0 \/ nm # NoName

BothFound(n, nm) == n # 0 /\ nm # NoName

(* The payload is read into p_hw_rev; the search ends when both are found  *)
(* and goes on behind the payload otherwise.  A number 0 or an empty name  *)
(* looks like none.                                                        *)
Handle ==
    LET k == Reads(off + SizeofTlv, tlv.it_len) IN
    /\ pc = "handle" /\ ~Unusable(tlv)
    /\ num'  = IF IsId(tlv) THEN HighBytes(At(off).val, k) ELSE num
    /\ name' = IF IsName(tlv) THEN Text(At(off), k) ELSE name
    /\ IF BothFound(num', name')
       THEN Return(TRUE) /\ off' = off
       ELSE pc' = "next" /\ off' = NextOff /\ UNCHANGED result
    /\ UNCHANGED <<args, end, tlv, clean>>

(* The search's own steps.  Nothing makes a read fail.                     *)
Search == FindTlvs \/ NoTlvs \/ Load \/ NotFound \/ Refuse \/ Handle

Next == Search \/ ReadFails

Spec == Init /\ [][Next]_vars /\ WF_vars(Search)

-----------------------------------------------------------------------------

Cut == eof < AreaSize(image)

EntriesOf(es) == {es[k] : k \in DOMAIN es}

TypeOK ==
    /\ pc \in {"info", "next", "handle", "done"}
    /\ off \in Nat /\ end \in Nat /\ num \in Nat
    /\ name \in {NoName, Torn} \cup {e.val : e \in {x \in EntriesOf(image.prot) : IsName(x)}}
    /\ result \in BOOLEAN /\ clean \in BOOLEAN

(* Whatever is cut off the file and whichever read fails, the values left  *)
(* behind come from entries of the protected section, which the image's    *)
(* hash covers, of the length the code allows: never from the section      *)
(* behind it, into which the loop's end reaches, and never from a header   *)
(* that was read in part.  Only of the value the cut runs through is a part*)
(* kept, or of the name whose read failed.                                 *)
OnlyProtected ==
    /\ num # 0 =>
        \E e \in EntriesOf(image.prot) :
            /\ IsId(e) /\ e.it_len = 4
            /\ num = e.val \/ (Cut /\ \E k \in 1 .. 3 : num = HighBytes(e.val, k))
    /\ name # NoName =>
        \E e \in EntriesOf(image.prot) :
            /\ IsName(e) /\ e.it_len \in 1 .. MaxName
            /\ name = e.val \/ (name = Torn /\ (Cut \/ ~clean))

(* The answer said without a loop: of the longest run of entries from the  *)
(* section's start in which every number and name has the right length and *)
(* none follows one that counts, the number and the name that count.       *)
Counts(e) == (IsId(e) /\ e.val # 0) \/ (IsName(e) /\ e.it_len > 0 /\ e.val # NoName)
Proper(es) ==
    \A k \in DOMAIN es :
        /\ IsId(es[k]) => es[k].it_len = 4
        /\ IsName(es[k]) => es[k].it_len <= MaxName
        /\ \A j \in 1 .. k - 1 :
            Counts(es[j]) /\ es[j].it_type \in {"id", "name"} => es[k].it_type # es[j].it_type
Longest == Max({n \in 0 .. Len(image.prot) : Proper(SubSeq(image.prot, 1, n))})
Counting(P(_)) == {e \in EntriesOf(SubSeq(image.prot, 1, Longest)) : P(e) /\ Counts(e)}

(* Of a whole image, with no read failing, the two searches give the same  *)
(* answer: the reference's, of which the call succeeds when both are there.*)
AsReference ==
    pc = "done" /\ clean /\ ~Cut =>
        /\ {num} \ {0} = {e.val : e \in Counting(IsId)}
        /\ {name} \ {NoName} = {e.val : e \in Counting(IsName)}
        /\ result = BothFound(num, name)

(* The search ends whatever lengths the entries have and wherever the file *)
(* is cut: also when a short read leaves the header of the previous entry. *)
SearchEnds == <>(pc = "done")

=============================================================================
