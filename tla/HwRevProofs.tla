----------------------------- MODULE HwRevProofs -----------------------------
(***************************************************************************)
(* What the search for the hardware revision finds, in protected sections  *)
(* of any number of entries of any types, lengths and values, wherever the *)
(* file is cut.                                                            *)
(*                                                                         *)
(* The inductive invariant says where data_off can be: in front of an      *)
(* entry of the section or of what follows the last one, or, after a short *)
(* read, beyond the end of the file, where nothing is read any more.       *)
(***************************************************************************)
EXTENDS HwRev, FileTlvProofs

P    == ProtCount(image)
Tlvs == Entries(image)

Beyond == medium = "file" /\ off > eof

(* In front of the k-th entry, or of what follows the last.                *)
Within(k) == off = Reached(image, k)

(* The header at off can be read in full.                                  *)
Full == medium = "flash" \/ off + SizeofTlv <= eof

Header(e) == [it_type |-> e.it_type, it_len |-> e.it_len]

Behind == off + SizeofTlv > end

Placement ==
    /\ pc \in {"next", "handle"} =>
          /\ P # 0 /\ end <= SizeofInfo + ProtTot(image)
          /\ ~Cut => end = SizeofInfo + ProtTot(image)
    /\ pc = "next" => (\E k \in 1 .. P + 1 : Within(k)) \/ Beyond \/ Behind
    /\ pc = "handle" =>
          /\ (\E k \in 1 .. P + 1 : Within(k)) \/ Beyond
          /\ Full => tlv = Header(At(off))

(* The entries as far as n are such that the search goes on behind them.   *)
ProperUpTo(n) ==
    \A k \in 1 .. n :
        /\ IsId(Tlvs[k]) => Tlvs[k].it_len = 4
        /\ IsName(Tlvs[k]) => Tlvs[k].it_len <= MaxName
        /\ \A j \in 1 .. k - 1 :
            Counts(Tlvs[j]) /\ Tlvs[j].it_type \in {"id", "name"} =>
                Tlvs[k].it_type # Tlvs[j].it_type

CountsId(e)   == IsId(e) /\ Counts(e)
CountsName(e) == IsName(e) /\ Counts(e)

(* The first n entries have been taken.                                    *)
Found(n) ==
    /\ ProperUpTo(n)
    /\ num # 0 => \E j \in 1 .. n : CountsId(Tlvs[j]) /\ num = Tlvs[j].val
    /\ name # NoName => \E j \in 1 .. n : CountsName(Tlvs[j]) /\ name = Tlvs[j].val
    /\ \A j \in 1 .. n : /\ CountsId(Tlvs[j]) => num = Tlvs[j].val
                         /\ CountsName(Tlvs[j]) => name = Tlvs[j].val

(* No read has failed or come back short on the way.                       *)
Undisturbed == clean /\ ~Cut

Progress ==
    /\ pc = "info" => num = 0 /\ name = NoName /\ ~result
    /\ pc \in {"next", "handle"} => ~BothFound(num, name) /\ ~result
    /\ pc \in {"next", "handle"} /\ Undisturbed =>
          \/ \E k \in 1 .. P + 1 : Within(k) /\ Found(k - 1)
          \/ pc = "next" /\ Behind /\ Found(P)
    /\ pc = "done" /\ Undisturbed =>
          /\ result = BothFound(num, name)
          /\ \E n \in 0 .. P :
                Found(n) /\ (n = P \/ ~ProperUpTo(n + 1) \/ BothFound(num, name))

IInv ==
    /\ image \in Areas /\ medium \in {"flash", "file"}
    /\ eof \in 0 .. AreaSize(image)
    /\ medium = "flash" => ~Cut
    /\ TypeOK /\ tlv.it_len \in Nat
    /\ OnlyProtected
    /\ Placement
    /\ Progress

-----------------------------------------------------------------------------
(* The area as it is read.                                                 *)

LEMMA AreaFacts ==
    ASSUME image \in Areas
    PROVE  /\ IsArea(image)
           /\ P \in Nat /\ P <= EntryCount(image)
           /\ ProtTot(image) \in Nat /\ UnprotTot(image) \in Nat
           /\ \A k \in 1 .. P : Tlvs[k].it_len \in Nat /\ (IsId(Tlvs[k]) => Tlvs[k].val \in Nat)
           /\ \A k \in 1 .. P : Tlvs[k] = image.prot[k]
           /\ EntriesOf(image.prot) = {Tlvs[k] : k \in 1 .. P}
<1>1. IsArea(image) /\ \A e \in Range(image.prot) : IsId(e) => e.val \in Nat
  BY AreasAssumption
<1>2. /\ P \in Nat /\ P <= EntryCount(image)
      /\ ProtTot(image) \in Nat /\ UnprotTot(image) \in Nat
      /\ \A k \in 1 .. EntryCount(image) : Tlvs[k].it_len \in Nat
  BY <1>1, Layout DEF P, Tlvs
<1>3. DOMAIN image.prot = 1 .. P
  BY <1>1, AreaSections DEF IsSection, P, ProtCount
<1>4. \A k \in 1 .. EntryCount(image) : Tlvs[k] =
         IF k <= P THEN image.prot[k] ELSE image.unprot[k - P]
  BY <1>1, EntriesFacts DEF Tlvs, P
<1>6. \A k \in 1 .. P : k \in 1 .. EntryCount(image) /\ k <= P
  BY <1>1, <1>2, Layout
<1>7. \A k \in 1 .. P : Tlvs[k] = image.prot[k] /\ Tlvs[k].it_len \in Nat
  BY <1>2, <1>4, <1>6
<1>8. \A k \in 1 .. P : IsId(Tlvs[k]) => Tlvs[k].val \in Nat
  <2> SUFFICES ASSUME NEW k \in 1 .. P, IsId(Tlvs[k]) PROVE Tlvs[k].val \in Nat
    OBVIOUS
  <2>1. image.prot[k] \in Range(image.prot)
    BY <1>3 DEF Range
  <2> QED
    BY <1>1, <1>7, <2>1
<1>9. EntriesOf(image.prot) = {Tlvs[k] : k \in 1 .. P}
  BY <1>3, <1>7 DEF EntriesOf
<1> QED
  BY <1>1, <1>2, <1>7, <1>8, <1>9, Zenon

LEMMA SectionEmpty ==
    ASSUME image \in Areas
    PROVE  P = 0 <=> image.prot = <<>>
BY AreaFacts, AreaEmpty, Zenon DEF P

(* Behind each entry of the section the next one begins, or its end.       *)
LEMMA SectionSteps ==
    ASSUME image \in Areas, P # 0
    PROVE  /\ Reached(image, 1) = SizeofInfo
           /\ Reached(image, P + 1) = ProtTot(image)
           /\ \A k \in 1 .. P + 1 : Reached(image, k) \in Nat /\ Reached(image, k) <= ProtTot(image)
           /\ \A k \in 1 .. P : Reached(image, k) + SizeofTlv + Tlvs[k].it_len = Reached(image, k + 1)
<1>1. /\ IsArea(image) /\ P \in Nat /\ P <= EntryCount(image)
      /\ EntryCount(image) \in Nat /\ ProtTot(image) \in Nat
      /\ \A k \in 1 .. P : Tlvs[k].it_len \in Nat
      /\ \A k \in 1 .. EntryCount(image) + 1 : EntryOff(image, k) \in Nat
  BY AreaFacts, Layout
<1>2. Reached(image, P + 1) = ProtTot(image)
  BY DEF Reached, P
<1>3. \A k \in 1 .. P : Reached(image, k) = EntryOff(image, k)
  BY <1>1 DEF Reached, P
<1>4. Reached(image, 1) = SizeofInfo
  BY <1>1, <1>3, EntryOffEnds
<1>5. \A k \in 1 .. P : Reached(image, k) + SizeofTlv + Tlvs[k].it_len = Reached(image, k + 1)
  <2> SUFFICES ASSUME NEW k \in 1 .. P
               PROVE  Reached(image, k) + SizeofTlv + Tlvs[k].it_len = Reached(image, k + 1)
    OBVIOUS
  <2>1. k \in 1 .. EntryCount(image)
    BY <1>1
  <2>2. EntryOff(image, k) + SizeofTlv + Entries(image)[k].it_len =
           IF k = ProtCount(image) THEN ProtTot(image) ELSE EntryOff(image, k + 1)
    BY <1>1, <2>1, NextEntryOff
  <2>3. k # P => k + 1 \in 1 .. P
    BY <1>1
  <2>4. k # P => Reached(image, k + 1) = EntryOff(image, k + 1)
    BY <1>3, <2>3
  <2> QED
    BY <1>2, <1>3, <2>2, <2>4 DEF P, Tlvs
<1>6. \A k \in 1 .. P + 1 : Reached(image, k) \in Nat
  BY <1>1, <1>2, <1>3
<1>7. \A k \in 1 .. P : Reached(image, k) <= ProtTot(image)
  <2> SUFFICES ASSUME NEW k \in 1 .. P PROVE Reached(image, k) <= ProtTot(image)
    OBVIOUS
  <2>1. k \in 1 .. EntryCount(image) + 1 /\ P \in 1 .. P /\ P \in 1 .. EntryCount(image) + 1
    BY <1>1
  <2>2. k = P \/ EntryOff(image, k) < EntryOff(image, P)
    BY <1>1, <2>1, EntryOffIncreases
  <2>3. Reached(image, P) + SizeofTlv + Tlvs[P].it_len = ProtTot(image)
    BY <1>2, <1>5, <2>1
  <2>4. Reached(image, k) <= Reached(image, P)
    BY <1>1, <1>3, <2>1, <2>2
  <2> QED
    BY <1>1, <1>6, <2>1, <2>3, <2>4 DEF SizeofTlv
<1> QED
  BY <1>1, <1>2, <1>4, <1>5, <1>6, <1>7

LEMMA AtEntry ==
    ASSUME image \in Areas, P # 0, NEW k \in 1 .. P
    PROVE  At(Reached(image, k)) = Tlvs[k]
<1>1. IsArea(image) /\ k \in 1 .. EntryCount(image) /\ P \in Nat
  BY AreaFacts, Layout
<1>2. Reached(image, k) = EntryOff(image, k)
  BY <1>1 DEF Reached, P
<1> DEFINE o == Reached(image, k)
<1> HIDE DEF o
<1>3. /\ \E p \in Placed(image) : p.off = o
      /\ (CHOOSE p \in Placed(image) : p.off = o).tlv = Entries(image)[k]
  BY <1>1, <1>2, PlacedAt DEF o
<1>4. At(o) = Entries(image)[k]
  BY <1>3, Zenon DEF At
<1> QED
  BY <1>4 DEF o, Tlvs

(* What follows the section is not taken for a hardware revision.          *)
LEMMA AtEndOfSection ==
    ASSUME image \in Areas, P # 0
    PROVE  At(ProtTot(image)).it_type = "other" /\ At(ProtTot(image)).it_len \in Nat
<1>1. /\ IsArea(image) /\ P \in Nat /\ P <= EntryCount(image)
      /\ EntryCount(image) \in Nat /\ ProtTot(image) \in Nat /\ UnprotTot(image) \in Nat
      /\ \A k \in 1 .. P : Tlvs[k].it_len \in Nat
      /\ \A k \in 1 .. EntryCount(image) + 1 : EntryOff(image, k) \in Nat
  BY AreaFacts, Layout
<1>2. ASSUME NEW p \in Placed(image), p.off = ProtTot(image) PROVE FALSE
  <2>1. PICK k \in 1 .. EntryCount(image) : p.off = EntryOff(image, k)
    BY <1>1, EntriesFacts DEF Placed
  <2>2. CASE k <= P
    <3>1. k \in 1 .. P /\ Reached(image, k) = EntryOff(image, k)
      BY <1>1, <2>2 DEF Reached, P
    <3>2. /\ Reached(image, k) + SizeofTlv + Tlvs[k].it_len = Reached(image, k + 1)
          /\ k + 1 \in 1 .. P + 1
          /\ Reached(image, k + 1) <= ProtTot(image) /\ Reached(image, k + 1) \in Nat
      BY <1>1, <3>1, SectionSteps
    <3> QED
      BY <1>1, <1>2, <2>1, <3>1, <3>2 DEF SizeofTlv
  <2>3. CASE k > P
    <3>1. k = P + 1 \/ EntryOff(image, P + 1) < EntryOff(image, k)
      <4>1. P + 1 \in 1 .. EntryCount(image) + 1 /\ k \in 1 .. EntryCount(image) + 1
        BY <1>1
      <4> QED
        BY <1>1, <2>3, <4>1, EntryOffIncreases
    <3>2. EntryOff(image, P + 1) = ProtTot(image) + SizeofInfo
      BY <1>1, EntryOffEnds DEF P
    <3>3. EntryOff(image, k) \in Nat
      BY <1>1
    <3> QED
      BY <1>1, <1>2, <2>1, <3>1, <3>2, <3>3 DEF SizeofInfo
  <2> QED
    BY <1>1, <2>2, <2>3
<1>3. ~\E p \in Placed(image) : p.off = ProtTot(image)
  BY <1>2
<1>4. At(ProtTot(image)) = IF image.it_magic
                           THEN [it_type |-> "other", it_len |-> UnprotTot(image)] ELSE Erased
  BY <1>3, Zenon DEF At
<1> QED
  BY <1>1, <1>4 DEF Erased

LEMMA MinOfTwo ==
    ASSUME NEW a \in Int, NEW b \in Int
    PROVE  Min({a, b}) = IF a <= b THEN a ELSE b
<1> DEFINE m == IF a <= b THEN a ELSE b
<1>1. m \in {a, b} /\ \A y \in {a, b} : m <= y
  OBVIOUS
<1>2. \A x \in {a, b} : (\A y \in {a, b} : x <= y) => x = m
  OBVIOUS
<1> HIDE DEF m
<1>3. Min({a, b}) = m
  BY <1>1, <1>2, Zenon DEF Min
<1> QED
  BY <1>3 DEF m

(* A read in the file stops at its end.                                    *)
LEMMA ReadsFacts ==
    ASSUME eof \in Nat, NEW o \in Nat, NEW size \in Nat
    PROVE  /\ Reads(o, size) \in 0 .. size
           /\ medium = "flash" => Reads(o, size) = size
           /\ medium # "flash" /\ o + size <= eof => Reads(o, size) = size
           /\ medium # "flash" /\ o + size > eof => Reads(o, size) = IF o > eof THEN 0 ELSE eof - o
<1>1. medium = "flash" => Reads(o, size) = size
  BY DEF Reads
<1>2. medium # "flash" => Avail(o) = IF o > eof THEN 0 ELSE eof - o
  BY DEF Avail
<1>3. medium # "flash" => Reads(o, size) = IF size <= Avail(o) THEN size ELSE Avail(o)
  <2> SUFFICES ASSUME medium # "flash"
               PROVE  Reads(o, size) = IF size <= Avail(o) THEN size ELSE Avail(o)
    OBVIOUS
  <2>1. Avail(o) \in Int /\ size \in Int
    BY <1>2
  <2>2. Reads(o, size) = Min({size, Avail(o)})
    BY DEF Reads
  <2> QED
    BY <2>1, <2>2, MinOfTwo
<1> QED
  BY <1>1, <1>2, <1>3

-----------------------------------------------------------------------------
(* The number and the name that a step leaves.                             *)

LEMMA HighBytesFacts ==
    ASSUME NEW v \in Nat, NEW k \in 0 .. 4
    PROVE  /\ HighBytes(v, k) \in Nat
           /\ k = 0 => HighBytes(v, k) = 0
           /\ k = 4 => HighBytes(v, k) = v
<1>1. CASE k = 0
  BY <1>1 DEF HighBytes
<1>2. CASE k = 1
  BY <1>2 DEF HighBytes, LastByte
<1>3. CASE k = 2
  BY <1>3 DEF HighBytes, LastByte
<1>4. CASE k = 3
  BY <1>4 DEF HighBytes, LastByte
<1>5. CASE k = 4
  BY <1>5 DEF HighBytes, LastByte
<1> QED
  BY <1>1, <1>2, <1>3, <1>4, <1>5

(* Where something is read of a number or a name, the header is that of an *)
(* entry of the section.                                                   *)
LEMMA PayloadIsEntrys ==
    ASSUME IInv, pc = "handle", IsId(tlv) \/ IsName(tlv),
           Reads(off + SizeofTlv, tlv.it_len) > 0
    PROVE  \E k \in 1 .. P :
              /\ Within(k) /\ At(off) = Tlvs[k] /\ tlv = Header(Tlvs[k])
              /\ tlv.it_type = Tlvs[k].it_type /\ tlv.it_len = Tlvs[k].it_len
              /\ Full
<1>1. /\ image \in Areas /\ P # 0 /\ eof \in Nat /\ off \in Nat /\ tlv.it_len \in Nat
      /\ medium \in {"flash", "file"}
      /\ (\E k \in 1 .. P + 1 : Within(k)) \/ Beyond
      /\ Full => tlv = Header(At(off))
  BY DEF IInv, Placement, TypeOK
<1>2. off + SizeofTlv \in Nat
  BY <1>1 DEF SizeofTlv
<1>3. medium = "flash" \/ off + SizeofTlv <= eof
  <2> DEFINE o == off + SizeofTlv
  <2>1. /\ medium # "flash" /\ o + tlv.it_len > eof =>
              Reads(o, tlv.it_len) = IF o > eof THEN 0 ELSE eof - o
        /\ o \in Nat
    BY <1>1, <1>2, ReadsFacts
  <2>2. Reads(o, tlv.it_len) > 0
    OBVIOUS
  <2> HIDE DEF o
  <2>3. medium # "flash" /\ o > eof => Reads(o, tlv.it_len) = 0
    BY <1>1, <2>1
  <2> QED
    BY <1>1, <2>1, <2>2, <2>3 DEF o
<1>4. tlv = Header(At(off)) /\ ~Beyond
  BY <1>1, <1>3 DEF Full, Beyond, SizeofTlv
<1>5. tlv.it_type = At(off).it_type /\ tlv.it_len = At(off).it_len
  BY <1>4 DEF Header
<1>6. PICK k \in 1 .. P + 1 : Within(k)
  BY <1>1, <1>4
<1>7. k # P + 1
  <2> SUFFICES ASSUME k = P + 1 PROVE FALSE
    OBVIOUS
  <2>1. off = ProtTot(image)
    BY <1>1, <1>6, SectionSteps DEF Within
  <2>2. At(off).it_type = "other"
    BY <1>1, <2>1, AtEndOfSection
  <2> QED
    BY <1>5, <2>2 DEF IsId, IsName
<1>8. k \in 1 .. P
  BY <1>1, <1>7, AreaFacts
<1>9. At(off) = Tlvs[k]
  BY <1>1, <1>6, <1>8, AtEntry DEF Within
<1> QED
  BY <1>3, <1>4, <1>5, <1>6, <1>8, <1>9 DEF Full

(* The bytes at a place where the search stands, taken for an entry.       *)
LEMMA AtFacts ==
    ASSUME image \in Areas, P # 0, NEW k \in 1 .. P + 1, Within(k)
    PROVE  At(off).it_len \in Nat
<1>1. P \in Nat
  BY AreaFacts
<1>2. CASE k = P + 1
  BY <1>1, <1>2, SectionSteps, AtEndOfSection DEF Within
<1>3. CASE k # P + 1
  <2>1. k \in 1 .. P
    BY <1>1, <1>3
  <2> QED
    BY <2>1, AtEntry, AreaFacts DEF Within
<1> QED
  BY <1>2, <1>3

(* A header read in full is that of what lies there; one of which nothing  *)
(* is read stays as it was.                                                *)
LEMMA LoadFacts ==
    ASSUME IInv, pc = "next", More, NEW h \in Headers(off)
    PROVE  /\ h.it_len \in Nat
           /\ Full => h = Header(At(off))
           /\ (\E k \in 1 .. P + 1 : Within(k)) \/ Beyond
<1> DEFINE n == Reads(off, SizeofTlv)
<1>1. /\ image \in Areas /\ P # 0 /\ eof \in Nat /\ off \in Nat /\ end \in Nat
      /\ tlv.it_len \in Nat /\ medium \in {"flash", "file"}
      /\ (\E k \in 1 .. P + 1 : Within(k)) \/ Beyond \/ Behind
  BY DEF IInv, Placement, TypeOK
<1>2. (\E k \in 1 .. P + 1 : Within(k)) \/ Beyond
  BY <1>1 DEF More, Behind, SizeofTlv
<1>3. /\ n \in 0 .. 4
      /\ Full => n = 4
      /\ Beyond => n = 0
  <2>1. SizeofTlv \in Nat /\ SizeofTlv = 4
    BY DEF SizeofTlv
  <2>2. /\ n \in 0 .. SizeofTlv
        /\ medium = "flash" => n = SizeofTlv
        /\ medium # "flash" /\ off + SizeofTlv <= eof => n = SizeofTlv
        /\ medium # "flash" /\ off + SizeofTlv > eof => n = IF off > eof THEN 0 ELSE eof - off
    BY <1>1, <2>1, ReadsFacts
  <2> HIDE DEF n
  <2> QED
    BY <1>1, <2>1, <2>2 DEF Full, Beyond
<1>4. h \in CASE n >= 3 -> {Header(At(off))}
               [] n = 2  -> {[it_type |-> At(off).it_type, it_len |-> tlv.it_len]}
               [] n = 1  -> {[it_type |-> type, it_len |-> tlv.it_len] :
                                type \in {At(off).it_type, tlv.it_type, "other"}}
               [] n = 0  -> {tlv}
  BY Zenon DEF Headers, Header
<1> HIDE DEF n
<1>5. n >= 3 => h = Header(At(off))
  BY <1>3, <1>4
<1>6. n < 3 => h.it_len = tlv.it_len
  <2>1. CASE n = 2
    BY <1>4, <2>1
  <2>2. CASE n = 1
    BY <1>4, <2>2
  <2>3. CASE n = 0
    BY <1>4, <2>3
  <2> QED
    BY <1>3, <2>1, <2>2, <2>3
<1>7. n >= 3 => h.it_len \in Nat
  <2> SUFFICES ASSUME n >= 3 PROVE h.it_len \in Nat
    OBVIOUS
  <2>1. PICK k \in 1 .. P + 1 : Within(k)
    BY <1>2, <1>3
  <2> QED
    BY <1>1, <1>5, <2>1, AtFacts DEF Header
<1> QED
  BY <1>1, <1>2, <1>3, <1>5, <1>6, <1>7

-----------------------------------------------------------------------------
(* What a step that leaves the image and the values alone leaves true.     *)

LEMMA Framed ==
    ASSUME UNCHANGED args
    PROVE  /\ P' = P /\ Tlvs' = Tlvs /\ Cut' = Cut
           /\ ProtTot(image)' = ProtTot(image) /\ AreaSize(image)' = AreaSize(image)
           /\ \A n : ProperUpTo(n)' = ProperUpTo(n)
BY DEF args, P, Tlvs, Cut, ProperUpTo

LEMMA FoundKept ==
    ASSUME UNCHANGED args, UNCHANGED hw_rev
    PROVE  \A n : Found(n)' = Found(n)
BY Framed DEF hw_rev, Found

LEMMA ValuesKept ==
    ASSUME IInv, UNCHANGED args, UNCHANGED hw_rev, clean' = clean \/ ~clean'
    PROVE  /\ OnlyProtected'
           /\ num' \in Nat
           /\ name' \in {NoName, Torn} \cup {e.val : e \in {x \in EntriesOf(image'.prot) : IsName(x)}}
<1>1. OnlyProtected
  BY DEF IInv
<1>2. image' = image /\ Cut' = Cut /\ num' = num /\ name' = name
  BY Framed DEF args, hw_rev
<1>3. OnlyProtected'
  BY <1>1, <1>2 DEF OnlyProtected
<1> QED
  BY <1>2, <1>3 DEF IInv, TypeOK

-----------------------------------------------------------------------------
(* The invariant holds at the start and after every step.                  *)

LEMMA IInvInit == Init => IInv
<1> SUFFICES ASSUME Init PROVE IInv
  OBVIOUS
<1>1. image \in Areas /\ AreaSize(image) \in Nat
  BY AreaFacts DEF Init, AreaSize
<1>2. medium \in {"flash", "file"} /\ eof \in 0 .. AreaSize(image) /\ (medium = "flash" => ~Cut)
  BY <1>1 DEF Init, Cut
<1>3. TypeOK
  BY DEF Init, TypeOK
<1>4. OnlyProtected /\ tlv.it_len \in Nat
  BY DEF Init, OnlyProtected
<1>5. Placement
  BY DEF Init, Placement
<1>6. Progress
  BY DEF Init, Progress
<1> QED
  BY <1>1, <1>2, <1>3, <1>4, <1>5, <1>6 DEF IInv

(* Of a whole image with a protected section the whole info is read.       *)
LEMMA WholeInfo ==
    ASSUME IInv, P # 0, ~Cut
    PROVE  Reads(0, SizeofInfo) = SizeofInfo
<1>1. /\ image \in Areas /\ eof \in Nat /\ medium \in {"flash", "file"}
      /\ AreaSize(image) \in Int
      /\ ProtTot(image) \in Nat /\ UnprotTot(image) \in Nat
  BY AreaFacts DEF IInv, AreaSize
<1>2. P \in Nat /\ 1 \in 1 .. P + 1 /\ Reached(image, 1) <= ProtTot(image)
  BY <1>1, AreaFacts, SectionSteps
<1>3. eof >= SizeofInfo
  BY <1>1, <1>2, SectionSteps DEF AreaSize, Cut, SizeofInfo
<1>4. SizeofInfo \in Nat
  BY DEF SizeofInfo
<1> QED
  BY <1>1, <1>3, <1>4, ReadsFacts

LEMMA FindTlvsKeeps == IInv /\ FindTlvs => IInv'
<1> SUFFICES ASSUME IInv, FindTlvs PROVE IInv'
  OBVIOUS
<1>1. /\ UNCHANGED args /\ UNCHANGED hw_rev /\ clean' = clean /\ result' = result /\ tlv' = tlv
      /\ pc = "info" /\ pc' = "next" /\ off' = SizeofInfo /\ end' = SizeofInfo + TlvTot
      /\ HasProtected
  BY DEF FindTlvs
<1>2. /\ image' = image /\ medium' = medium /\ eof' = eof /\ num' = num /\ name' = name
      /\ P' = P /\ Cut' = Cut
  BY <1>1, Framed DEF args, hw_rev
<1>3. image \in Areas /\ P \in Nat /\ P # 0 /\ ProtTot(image) \in Nat
  <2>1. image \in Areas
    BY DEF IInv
  <2>2. image.prot # <<>>
    BY <1>1, Zenon DEF HasProtected
  <2>3. P # 0
    BY <2>1, <2>2, SectionEmpty, Zenon
  <2> QED
    BY <2>1, <2>3, AreaFacts
<1>4. TlvTot \in {0, ProtTot(image)} /\ (~Cut => TlvTot = ProtTot(image))
  <2>1. image.prot # <<>>
    BY <1>1, Zenon DEF HasProtected
  <2>2. TlvTot = IF Reads(0, SizeofInfo) = 2 THEN 0 ELSE ProtTot(image)
    BY <2>1, Zenon DEF TlvTot
  <2>3. ~Cut => Reads(0, SizeofInfo) # 2
    BY <1>3, WholeInfo DEF SizeofInfo
  <2> QED
    BY <2>2, <2>3
<1>5. TypeOK' /\ OnlyProtected'
  <2>1. off' \in Nat /\ end' \in Nat
    BY <1>1, <1>3, <1>4 DEF SizeofInfo
  <2>2. result' \in BOOLEAN /\ clean' \in BOOLEAN
    BY <1>1 DEF IInv, TypeOK
  <2> QED
    BY <1>1, <2>1, <2>2, ValuesKept DEF TypeOK
<1>6. Within(1)' /\ 1 \in 1 .. P + 1
  BY <1>1, <1>2, <1>3, SectionSteps DEF Within
<1>7. Placement'
  <2>1. end' <= SizeofInfo + ProtTot(image) /\ (~Cut => end' = SizeofInfo + ProtTot(image))
    BY <1>1, <1>3, <1>4 DEF SizeofInfo
  <2>2. ProtTot(image)' = ProtTot(image)
    BY <1>2
  <2> QED
    BY <1>1, <1>2, <1>3, <1>6, <2>1, <2>2 DEF Placement
<1>8. Progress'
  <2>1. num' = 0 /\ name' = NoName /\ ~result'
    BY <1>1, <1>2 DEF IInv, Progress
  <2>2. Found(0)'
    BY <2>1 DEF Found, ProperUpTo
  <2>3. 1 - 1 = 0
    OBVIOUS
  <2> QED
    BY <1>1, <1>2, <1>6, <2>1, <2>2, <2>3 DEF Progress, BothFound
<1>9. tlv'.it_len \in Nat /\ (medium' = "flash" => ~Cut') /\ image' \in Areas
      /\ medium' \in {"flash", "file"} /\ eof' \in 0 .. AreaSize(image')
  BY <1>1, <1>2 DEF IInv
<1> QED
  BY <1>5, <1>7, <1>8, <1>9 DEF IInv

LEMMA NoTlvsKeeps == IInv /\ NoTlvs => IInv'
<1> SUFFICES ASSUME IInv, NoTlvs PROVE IInv'
  OBVIOUS
<1>1. /\ UNCHANGED args /\ UNCHANGED hw_rev /\ clean' = clean /\ tlv' = tlv
      /\ pc = "info" /\ pc' = "done" /\ result' = FALSE /\ off' = off /\ end' = end
      /\ ~HasProtected
  BY DEF NoTlvs, Return
<1>2. /\ image' = image /\ medium' = medium /\ eof' = eof /\ num' = num /\ name' = name
      /\ P' = P /\ Cut' = Cut
  BY <1>1, Framed DEF args, hw_rev
<1>3. TypeOK' /\ OnlyProtected'
  BY <1>1, ValuesKept DEF TypeOK, IInv
<1>4. Placement'
  BY <1>1 DEF Placement
<1>5. ~Cut => P = 0
  <2> SUFFICES ASSUME ~Cut, P # 0 PROVE FALSE
    OBVIOUS
  <2>1. Reads(0, SizeofInfo) = 4
    BY WholeInfo DEF SizeofInfo
  <2>2. Reads(0, SizeofInfo) >= 2
    BY <2>1
  <2>3. image.prot # <<>>
    BY SectionEmpty, Zenon DEF IInv
  <2> QED
    BY <1>1, <2>2, <2>3, Zenon DEF HasProtected
<1>6. Progress'
  <2>1. num' = 0 /\ name' = NoName
    BY <1>1, <1>2 DEF IInv, Progress
  <2>2. Found(0)'
    BY <2>1 DEF Found, ProperUpTo
  <2>3. Undisturbed' => P' = 0
    BY <1>2, <1>5 DEF Undisturbed
  <2>4. Undisturbed' => \E n \in 0 .. P' : Found(n)' /\ n = P'
    BY <2>2, <2>3
  <2>5. ~BothFound(num', name')
    BY <2>1 DEF BothFound
  <2> QED
    BY <1>1, <2>4, <2>5 DEF Progress, BothFound
<1>7. tlv'.it_len \in Nat /\ (medium' = "flash" => ~Cut') /\ image' \in Areas
      /\ medium' \in {"flash", "file"} /\ eof' \in 0 .. AreaSize(image')
  BY <1>1, <1>2 DEF IInv
<1> QED
  BY <1>3, <1>4, <1>6, <1>7 DEF IInv

LEMMA LoadKeeps == IInv /\ Load => IInv'
<1> SUFFICES ASSUME IInv, Load PROVE IInv'
  OBVIOUS
<1>1. /\ UNCHANGED args /\ UNCHANGED hw_rev /\ clean' = clean /\ result' = result
      /\ pc = "next" /\ pc' = "handle" /\ off' = off /\ end' = end
      /\ tlv' \in Headers(off) /\ More
  BY DEF Load
<1>2. /\ image' = image /\ medium' = medium /\ eof' = eof /\ num' = num /\ name' = name
      /\ P' = P /\ Cut' = Cut /\ ProtTot(image)' = ProtTot(image)
  BY <1>1, Framed DEF args, hw_rev
<1>3. /\ tlv'.it_len \in Nat
      /\ Full => tlv' = Header(At(off))
      /\ (\E k \in 1 .. P + 1 : Within(k)) \/ Beyond
  BY <1>1, LoadFacts
<1>4. TypeOK' /\ OnlyProtected'
  BY <1>1, ValuesKept DEF TypeOK, IInv
<1>5. Placement'
  <2>1. /\ \A k : Within(k)' = Within(k)
        /\ Beyond' = Beyond /\ Full' = Full /\ At(off)' = At(off)
    BY <1>1, <1>2 DEF Within, Beyond, Full, At
  <2>2. Full' => tlv' = Header(At(off))'
    BY <1>3, <2>1 DEF Header
  <2> QED
    BY <1>1, <1>2, <1>3, <2>1, <2>2 DEF Placement, IInv
<1>6. Progress'
  <2>1. /\ \A k : Within(k)' = Within(k)
        /\ \A k : Found(k)' = Found(k)
        /\ Undisturbed' = Undisturbed
    BY <1>1, <1>2, FoundKept DEF Within, Undisturbed
  <2>2. ~Behind
    BY <1>1 DEF More, Behind, SizeofTlv, IInv, TypeOK
  <2> QED
    BY <1>1, <1>2, <2>1, <2>2 DEF Progress, BothFound, IInv
<1>7. (medium' = "flash" => ~Cut') /\ image' \in Areas
      /\ medium' \in {"flash", "file"} /\ eof' \in 0 .. AreaSize(image')
  BY <1>1, <1>2 DEF IInv
<1> QED
  BY <1>3, <1>4, <1>5, <1>6, <1>7 DEF IInv

(* Of a whole section the loop runs over its end.                          *)
LEMMA NotFoundIsBehind ==
    ASSUME IInv, pc = "next", ~More, Undisturbed
    PROVE  Found(P)
<1>1. /\ image \in Areas /\ P # 0 /\ end = SizeofInfo + ProtTot(image) /\ off \in Nat
      /\ (\E k \in 1 .. P + 1 : Within(k) /\ Found(k - 1)) \/ (Behind /\ Found(P))
  BY DEF IInv, Placement, Progress, TypeOK, Undisturbed
<1>2. ProtTot(image) \in Nat
  BY <1>1, AreaFacts
<1>3. ASSUME NEW k \in 1 .. P + 1, Within(k) PROVE FALSE
  <2>1. off <= ProtTot(image)
    BY <1>1, <1>3, SectionSteps DEF Within
  <2> QED
    BY <1>1, <1>2, <2>1 DEF More, SizeofInfo, SizeofTlv
<1> QED
  BY <1>1, <1>3

LEMMA NotFoundKeeps == IInv /\ NotFound => IInv'
<1> SUFFICES ASSUME IInv, NotFound PROVE IInv'
  OBVIOUS
<1>1. /\ UNCHANGED args /\ UNCHANGED hw_rev /\ clean' = clean /\ tlv' = tlv
      /\ pc = "next" /\ pc' = "done" /\ result' = FALSE /\ off' = off /\ end' = end
      /\ ~More
  BY DEF NotFound, Return
<1>2. /\ image' = image /\ medium' = medium /\ eof' = eof /\ num' = num /\ name' = name
      /\ P' = P /\ Cut' = Cut
  BY <1>1, Framed DEF args, hw_rev
<1>3. TypeOK' /\ OnlyProtected'
  BY <1>1, ValuesKept DEF TypeOK, IInv
<1>4. Placement'
  BY <1>1 DEF Placement
<1>5. Progress'
  <2>1. ~BothFound(num, name)
    BY <1>1 DEF IInv, Progress
  <2>2. Undisturbed' = Undisturbed /\ Found(P)' = Found(P)
    BY <1>1, <1>2, FoundKept DEF Undisturbed
  <2>3. Undisturbed => Found(P)
    BY <1>1, NotFoundIsBehind
  <2>4. P \in 0 .. P
    BY AreaFacts DEF IInv
  <2> QED
    BY <1>1, <1>2, <2>1, <2>2, <2>3, <2>4 DEF Progress, BothFound
<1>6. tlv'.it_len \in Nat /\ (medium' = "flash" => ~Cut') /\ image' \in Areas
      /\ medium' \in {"flash", "file"} /\ eof' \in 0 .. AreaSize(image')
  BY <1>1, <1>2 DEF IInv
<1> QED
  BY <1>3, <1>4, <1>5, <1>6 DEF IInv

-----------------------------------------------------------------------------
(* A whole entry of a whole section.                                       *)

LEMMA WholeEntry ==
    ASSUME IInv, pc = "handle", ~Cut, NEW k \in 1 .. P, Within(k)
    PROVE  /\ At(off) = Tlvs[k]
           /\ tlv.it_type = Tlvs[k].it_type /\ tlv.it_len = Tlvs[k].it_len
           /\ Reads(off + SizeofTlv, tlv.it_len) = tlv.it_len
<1>1. /\ image \in Areas /\ P # 0 /\ eof \in Nat /\ off \in Nat
      /\ medium \in {"flash", "file"}
      /\ Full => tlv = Header(At(off))
  BY DEF IInv, Placement, TypeOK
<1>2. /\ P \in Nat /\ ProtTot(image) \in Nat /\ UnprotTot(image) \in Nat
      /\ Tlvs[k].it_len \in Nat
  BY <1>1, AreaFacts
<1>3. At(off) = Tlvs[k]
  BY <1>1, AtEntry DEF Within
<1>4. off + SizeofTlv + Tlvs[k].it_len <= ProtTot(image)
  <2>1. k + 1 \in 1 .. P + 1
    BY <1>2
  <2> QED
    BY <1>1, <2>1, SectionSteps DEF Within
<1>5. ProtTot(image) <= eof
  BY <1>1, <1>2 DEF AreaSize, Cut
<1>6. Full
  BY <1>1, <1>2, <1>4, <1>5 DEF Full, SizeofTlv
<1>7. tlv.it_type = Tlvs[k].it_type /\ tlv.it_len = Tlvs[k].it_len
  BY <1>1, <1>3, <1>6 DEF Header
<1>8. Reads(off + SizeofTlv, tlv.it_len) = tlv.it_len
  <2>1. off + SizeofTlv \in Nat
    BY <1>1 DEF SizeofTlv
  <2>2. tlv.it_len \in Nat /\ off + SizeofTlv + tlv.it_len <= eof
    BY <1>1, <1>2, <1>4, <1>5, <1>7, <2>1 DEF SizeofTlv
  <2> QED
    BY <1>1, <2>1, <2>2, ReadsFacts
<1> QED
  BY <1>3, <1>7, <1>8

(* Behind the section, where a header from before may be left, nothing is  *)
(* read of a number or a name.                                             *)
LEMMA NothingAtEnd ==
    ASSUME IInv, pc = "handle", Within(P + 1), IsId(tlv) \/ IsName(tlv)
    PROVE  Reads(off + SizeofTlv, tlv.it_len) = 0
<1>1. /\ image \in Areas /\ P # 0 /\ eof \in Nat /\ off \in Nat /\ tlv.it_len \in Nat
  BY DEF IInv, Placement, TypeOK
<1>2. off + SizeofTlv \in Nat
  BY <1>1 DEF SizeofTlv
<1>6. Reads(off + SizeofTlv, tlv.it_len) \in 0 .. tlv.it_len
  BY <1>1, <1>2, ReadsFacts
<1> SUFFICES ASSUME Reads(off + SizeofTlv, tlv.it_len) > 0 PROVE FALSE
  BY <1>1, <1>6
<1>3. PICK k \in 1 .. P : Within(k)
  BY PayloadIsEntrys
<1>4. P \in Nat /\ k + 1 \in 1 .. P + 1 /\ Tlvs[k].it_len \in Nat /\ ProtTot(image) \in Nat
  BY <1>1, AreaFacts
<1>5. /\ off + SizeofTlv + Tlvs[k].it_len <= ProtTot(image)
      /\ off = ProtTot(image)
  BY <1>1, <1>3, <1>4, SectionSteps DEF Within
<1> QED
  BY <1>1, <1>4, <1>5 DEF SizeofTlv

LEMMA RefuseKeeps == IInv /\ Refuse => IInv'
<1> SUFFICES ASSUME IInv, Refuse PROVE IInv'
  OBVIOUS
<1>1. /\ UNCHANGED args /\ UNCHANGED hw_rev /\ clean' = clean /\ tlv' = tlv
      /\ pc = "handle" /\ pc' = "done" /\ result' = FALSE /\ off' = off /\ end' = end
      /\ Unusable(tlv)
  BY DEF Refuse, Return
<1>2. /\ image' = image /\ medium' = medium /\ eof' = eof /\ num' = num /\ name' = name
      /\ P' = P /\ Cut' = Cut
  BY <1>1, Framed DEF args, hw_rev
<1>3. TypeOK' /\ OnlyProtected'
  BY <1>1, ValuesKept DEF TypeOK, IInv
<1>4. Placement'
  BY <1>1 DEF Placement
<1>5. Progress'
  <2>1. ~BothFound(num, name)
    BY <1>1 DEF IInv, Progress
  <2>2. /\ Undisturbed' = Undisturbed
        /\ \A n : Found(n)' = Found(n) /\ ProperUpTo(n)' = ProperUpTo(n)
    BY <1>1, <1>2, FoundKept, Framed DEF Undisturbed
  <2>3. P \in Nat
    BY AreaFacts DEF IInv
  <2>4. ASSUME Undisturbed
        PROVE  \E n \in 0 .. P : Found(n) /\ (n = P \/ ~ProperUpTo(n + 1))
    <3>1. PICK k \in 1 .. P + 1 : Within(k) /\ Found(k - 1)
      BY <1>1, <2>4 DEF IInv, Progress
    <3>2. CASE k = P + 1
      BY <2>3, <3>1, <3>2
    <3>3. CASE k \in 1 .. P
      <4>1. tlv.it_type = Tlvs[k].it_type /\ tlv.it_len = Tlvs[k].it_len
        BY <1>1, <2>4, <3>1, <3>3, WholeEntry DEF Undisturbed
      <4>2. ~ProperUpTo(k)
        <5> SUFFICES ASSUME ProperUpTo(k) PROVE FALSE
          OBVIOUS
        <5>1. /\ k \in 1 .. k
              /\ IsId(Tlvs[k]) => Tlvs[k].it_len = 4
              /\ IsName(Tlvs[k]) => Tlvs[k].it_len <= MaxName
              /\ \A j \in 1 .. k - 1 :
                    Counts(Tlvs[j]) /\ Tlvs[j].it_type \in {"id", "name"} =>
                        Tlvs[k].it_type # Tlvs[j].it_type
          BY <2>3, <3>3 DEF ProperUpTo
        <5>2. CASE IsId(tlv) /\ (tlv.it_len # 4 \/ num # 0)
          <6>1. PICK j \in 1 .. k - 1 : CountsId(Tlvs[j])
            BY <3>1, <4>1, <5>1, <5>2 DEF Found, IsId
          <6> QED
            BY <4>1, <5>1, <5>2, <6>1 DEF CountsId, IsId
        <5>3. CASE IsName(tlv) /\ (tlv.it_len > MaxName \/ name # NoName)
          <6>1. tlv.it_len \in Nat
            BY DEF IInv
          <6>2. PICK j \in 1 .. k - 1 : CountsName(Tlvs[j])
            BY <3>1, <4>1, <5>1, <5>3, <6>1 DEF Found, IsName, MaxName
          <6> QED
            BY <4>1, <5>1, <5>3, <6>2 DEF CountsName, IsName
        <5> QED
          BY <1>1, <5>2, <5>3 DEF Unusable
      <4>3. k - 1 \in 0 .. P /\ (k - 1) + 1 = k
        BY <2>3, <3>3
      <4> QED
        BY <3>1, <4>2, <4>3
    <3> QED
      BY <2>3, <3>2, <3>3
  <2> QED
    BY <1>1, <1>2, <2>1, <2>2, <2>4 DEF Progress, BothFound
<1>6. tlv'.it_len \in Nat /\ (medium' = "flash" => ~Cut') /\ image' \in Areas
      /\ medium' \in {"flash", "file"} /\ eof' \in 0 .. AreaSize(image')
  BY <1>1, <1>2 DEF IInv
<1> QED
  BY <1>3, <1>4, <1>5, <1>6 DEF IInv

(* A name of which a part was read is an entry's.                          *)
LEMMA ReadFailsKeeps == IInv /\ ReadFails => IInv'
<1> SUFFICES ASSUME IInv, ReadFails PROVE IInv'
  OBVIOUS
<1>1. /\ UNCHANGED args /\ num' = num /\ ~clean' /\ tlv' = tlv
      /\ pc' = "done" /\ result' = FALSE /\ off' = off /\ end' = end
      /\ clean' \in BOOLEAN
  BY DEF ReadFails, Return
<1>2. /\ image' = image /\ medium' = medium /\ eof' = eof /\ P' = P /\ Cut' = Cut
  BY <1>1, Framed DEF args
<1>3. \/ name' = name
      \/ name' = NoName
      \/ /\ pc = "handle" /\ IsName(tlv) /\ ~Unusable(tlv) /\ name' = Torn
         /\ Reads(off + SizeofTlv, tlv.it_len) > 0
  BY DEF ReadFails
<1>4. OnlyProtected'
  <2>1. num' # 0 =>
          \E e \in EntriesOf(image'.prot) :
              /\ IsId(e) /\ e.it_len = 4
              /\ num' = e.val \/ (Cut' /\ \E k \in 1 .. 3 : num' = HighBytes(e.val, k))
    BY <1>1, <1>2 DEF IInv, OnlyProtected
  <2>2. name' # NoName =>
          \E e \in EntriesOf(image'.prot) :
              /\ IsName(e) /\ e.it_len \in 1 .. MaxName
              /\ name' = e.val \/ (name' = Torn /\ (Cut' \/ ~clean'))
    <3>1. CASE name' = name
      BY <1>1, <1>2, <3>1 DEF IInv, OnlyProtected
    <3>2. CASE name' = NoName
      BY <3>2
    <3>3. CASE /\ pc = "handle" /\ IsName(tlv) /\ ~Unusable(tlv) /\ name' = Torn
               /\ Reads(off + SizeofTlv, tlv.it_len) > 0
      <4>1. PICK k \in 1 .. P : tlv.it_type = Tlvs[k].it_type /\ tlv.it_len = Tlvs[k].it_len
        BY <3>3, PayloadIsEntrys
      <4>2. Tlvs[k] \in EntriesOf(image'.prot)
        BY <1>2, <4>1, AreaFacts DEF IInv
      <4>3. Tlvs[k].it_len \in 1 .. MaxName
        <5>1. tlv.it_len \in Nat /\ off \in Nat /\ eof \in Nat
          BY DEF IInv, TypeOK
        <5>2. Reads(off + SizeofTlv, tlv.it_len) \in 0 .. tlv.it_len
          <6>1. off + SizeofTlv \in Nat
            BY <5>1 DEF SizeofTlv
          <6> QED
            BY <5>1, <6>1, ReadsFacts
        <5> QED
          BY <3>3, <4>1, <5>1, <5>2 DEF Unusable, MaxName
      <4>4. IsName(Tlvs[k])
        BY <3>3, <4>1 DEF IsName
      <4> QED
        BY <1>1, <3>3, <4>2, <4>3, <4>4
    <3> QED
      BY <1>3, <3>1, <3>2, <3>3
  <2> QED
    BY <2>1, <2>2 DEF OnlyProtected
<1>5. TypeOK'
  BY <1>1, <1>2, <1>3 DEF IInv, TypeOK
<1>6. Placement' /\ Progress'
  BY <1>1 DEF Placement, Progress, Undisturbed
<1>7. tlv'.it_len \in Nat /\ (medium' = "flash" => ~Cut') /\ image' \in Areas
      /\ medium' \in {"flash", "file"} /\ eof' \in 0 .. AreaSize(image')
  BY <1>1, <1>2 DEF IInv
<1> QED
  BY <1>4, <1>5, <1>6, <1>7 DEF IInv

-----------------------------------------------------------------------------
(* An entry is taken.                                                      *)

LEMMA Handled ==
    ASSUME IInv, Handle
    PROVE  /\ UNCHANGED args /\ clean' = clean /\ tlv' = tlv /\ end' = end
           /\ pc = "handle" /\ ~Unusable(tlv)
           /\ num'  = IF IsId(tlv)
                      THEN HighBytes(At(off).val, Reads(off + SizeofTlv, tlv.it_len)) ELSE num
           /\ name' = IF IsName(tlv)
                      THEN Text(At(off), Reads(off + SizeofTlv, tlv.it_len)) ELSE name
           /\ BothFound(num', name') => pc' = "done" /\ result' = TRUE /\ off' = off
           /\ ~BothFound(num', name') => pc' = "next" /\ off' = NextOff /\ result' = result
BY DEF Handle, Return

(* What is left of the entry comes from it, and whole unless the file ends *)
(* within it.                                                              *)
LEMMA HandleValues ==
    ASSUME IInv, Handle
    PROVE  /\ OnlyProtected'
           /\ num' \in Nat
           /\ name' \in {NoName, Torn} \cup {e.val : e \in {x \in EntriesOf(image'.prot) : IsName(x)}}
<1> DEFINE n == Reads(off + SizeofTlv, tlv.it_len)
<1>1. /\ UNCHANGED args /\ clean' = clean /\ pc = "handle" /\ ~Unusable(tlv)
      /\ num'  = IF IsId(tlv)   THEN HighBytes(At(off).val, n) ELSE num
      /\ name' = IF IsName(tlv) THEN Text(At(off), n) ELSE name
  BY Handled
<1>2. /\ image' = image /\ Cut' = Cut
      /\ image \in Areas /\ P # 0 /\ off \in Nat /\ eof \in Nat /\ tlv.it_len \in Nat
      /\ medium \in {"flash", "file"} /\ (medium = "flash" => ~Cut) /\ P \in Nat
      /\ ProtTot(image) \in Nat /\ UnprotTot(image) \in Nat
  BY <1>1, Framed, AreaFacts DEF args, IInv, Placement, TypeOK
<1>3. off + SizeofTlv \in Nat
  BY <1>2 DEF SizeofTlv
<1>4. /\ n \in 0 .. tlv.it_len
      /\ n < tlv.it_len => medium # "flash" /\ off + SizeofTlv + tlv.it_len > eof
  <2>1. /\ n \in 0 .. tlv.it_len
        /\ medium = "flash" => n = tlv.it_len
        /\ medium # "flash" /\ off + SizeofTlv + tlv.it_len <= eof => n = tlv.it_len
    BY <1>2, <1>3, ReadsFacts
  <2> HIDE DEF n
  <2> QED
    BY <1>2, <1>3, <2>1
<1>5. ASSUME n > 0, IsId(tlv) \/ IsName(tlv)
      PROVE  \E k \in 1 .. P :
                /\ Tlvs[k] \in EntriesOf(image.prot)
                /\ At(off) = Tlvs[k]
                /\ tlv.it_type = Tlvs[k].it_type /\ tlv.it_len = Tlvs[k].it_len
                /\ IsId(tlv) => Tlvs[k].val \in Nat
                /\ n < tlv.it_len => Cut
  <2>1. PICK k \in 1 .. P :
           /\ Within(k) /\ At(off) = Tlvs[k]
           /\ tlv.it_type = Tlvs[k].it_type /\ tlv.it_len = Tlvs[k].it_len
    BY <1>1, <1>5, PayloadIsEntrys
  <2>2. Tlvs[k] \in EntriesOf(image.prot) /\ (IsId(Tlvs[k]) => Tlvs[k].val \in Nat)
    BY <1>2, AreaFacts
  <2>3. k + 1 \in 1 .. P + 1
    BY <1>2
  <2>4. off + SizeofTlv + tlv.it_len <= ProtTot(image)
    BY <1>2, <2>1, <2>3, SectionSteps DEF Within
  <2>5. n < tlv.it_len => Cut
    BY <1>2, <1>3, <1>4, <2>4 DEF Cut, AreaSize
  <2> QED
    BY <2>1, <2>2, <2>5 DEF IsId
<1> HIDE DEF n
<1>6. IsId(tlv) => ~IsName(tlv) /\ tlv.it_len = 4
  BY <1>1 DEF Unusable, IsId, IsName
<1>7. IsName(tlv) => tlv.it_len <= MaxName
  BY <1>1, <1>2 DEF Unusable, MaxName
<1>8. /\ num' \in Nat
      /\ num' # 0 =>
          \E e \in EntriesOf(image.prot) :
              /\ IsId(e) /\ e.it_len = 4
              /\ num' = e.val \/ (Cut /\ \E k \in 1 .. 3 : num' = HighBytes(e.val, k))
  <2>1. CASE ~IsId(tlv)
    BY <1>1, <2>1 DEF IInv, TypeOK, OnlyProtected
  <2>2. CASE IsId(tlv) /\ n = 0
    BY <1>1, <2>2 DEF HighBytes
  <2>3. CASE IsId(tlv) /\ n # 0
    <3>1. n \in 1 .. 4
      BY <1>4, <1>6, <2>3
    <3>2. PICK k \in 1 .. P :
             /\ Tlvs[k] \in EntriesOf(image.prot)
             /\ At(off) = Tlvs[k]
             /\ tlv.it_type = Tlvs[k].it_type /\ tlv.it_len = Tlvs[k].it_len
             /\ Tlvs[k].val \in Nat
             /\ n < tlv.it_len => Cut
      BY <1>5, <2>3, <3>1
    <3>3. num' = HighBytes(Tlvs[k].val, n) /\ num' \in Nat /\ (n = 4 => num' = Tlvs[k].val)
      BY <1>1, <2>3, <3>1, <3>2, HighBytesFacts
    <3>4. IsId(Tlvs[k]) /\ Tlvs[k].it_len = 4
      BY <1>6, <2>3, <3>2 DEF IsId
    <3>5. n \in 1 .. 3 => Cut
      BY <1>6, <2>3, <3>2
    <3> QED
      BY <3>1, <3>2, <3>3, <3>4, <3>5
  <2> QED
    BY <2>1, <2>2, <2>3
<1>9. /\ name' \in {NoName, Torn} \cup {e.val : e \in {x \in EntriesOf(image.prot) : IsName(x)}}
      /\ name' # NoName =>
          \E e \in EntriesOf(image.prot) :
              /\ IsName(e) /\ e.it_len \in 1 .. MaxName
              /\ name' = e.val \/ (name' = Torn /\ Cut) \/ (name' = Torn /\ ~clean)
  <2>1. CASE ~IsName(tlv)
    BY <1>1, <2>1 DEF IInv, TypeOK, OnlyProtected
  <2>2. CASE IsName(tlv) /\ n = 0
    BY <1>1, <2>2 DEF Text
  <2>3. CASE IsName(tlv) /\ n # 0
    <3>1. n > 0 /\ tlv.it_len \in 1 .. MaxName
      BY <1>2, <1>4, <1>7, <2>3 DEF MaxName
    <3>2. PICK k \in 1 .. P :
             /\ Tlvs[k] \in EntriesOf(image.prot)
             /\ At(off) = Tlvs[k]
             /\ tlv.it_type = Tlvs[k].it_type /\ tlv.it_len = Tlvs[k].it_len
             /\ n < tlv.it_len => Cut
      BY <1>5, <2>3, <3>1
    <3>3. name' = IF n < tlv.it_len /\ Tlvs[k].val # NoName THEN Torn ELSE Tlvs[k].val
      BY <1>1, <2>3, <3>1, <3>2 DEF Text
    <3>4. IsName(Tlvs[k]) /\ Tlvs[k].it_len \in 1 .. MaxName
      BY <2>3, <3>1, <3>2 DEF IsName
    <3> QED
      BY <3>2, <3>3, <3>4
  <2> QED
    BY <2>1, <2>2, <2>3
<1>10. OnlyProtected'
  BY <1>1, <1>2, <1>8, <1>9 DEF OnlyProtected
<1> QED
  BY <1>2, <1>8, <1>9, <1>10

(* The search comes in front of the next entry, or where it ends.          *)
LEMMA HandlePlacement ==
    ASSUME IInv, Handle
    PROVE  /\ Placement'
           /\ off' \in Nat
           /\ \A k \in 1 .. P : Within(k) /\ ~Cut /\ pc' = "next" => Within(k + 1)'
           /\ Within(P + 1) /\ ~Cut /\ pc' = "next" => Behind'
<1>1. /\ UNCHANGED args /\ tlv' = tlv /\ end' = end /\ pc = "handle"
      /\ pc' \in {"next", "done"} /\ (pc' = "done" => off' = off)
      /\ pc' = "next" => off' = off + SizeofTlv + tlv.it_len
  BY Handled DEF NextOff
<1>2. /\ image' = image /\ medium' = medium /\ eof' = eof /\ Cut' = Cut /\ P' = P
      /\ image \in Areas /\ P # 0 /\ off \in Nat /\ end \in Nat /\ eof \in Nat
      /\ tlv.it_len \in Nat /\ P \in Nat /\ ProtTot(image) \in Nat
      /\ medium \in {"flash", "file"}
      /\ end <= SizeofInfo + ProtTot(image)
      /\ (\E k \in 1 .. P + 1 : Within(k)) \/ Beyond
      /\ Full => tlv = Header(At(off))
  BY <1>1, Framed, AreaFacts DEF args, IInv, Placement, TypeOK
<1>3. off' \in Nat
  BY <1>1, <1>2 DEF SizeofTlv
<1>4. ASSUME pc' = "next", ~Full PROVE Beyond'
  BY <1>1, <1>2, <1>4 DEF Full, Beyond, SizeofTlv
<1>5. ASSUME pc' = "next", Within(P + 1) PROVE Behind'
  <2>1. off = ProtTot(image)
    BY <1>2, <1>5, SectionSteps DEF Within
  <2>2. off' >= ProtTot(image) + SizeofTlv
    BY <1>1, <1>2, <1>5, <2>1 DEF SizeofTlv
  <2>3. end' <= SizeofInfo + ProtTot(image) /\ end' \in Nat /\ ProtTot(image) \in Nat
    BY <1>1, <1>2
  <2>4. \A o, e, p \in Nat : o >= p + SizeofTlv /\ e <= SizeofInfo + p => o + SizeofTlv > e
    BY DEF SizeofInfo, SizeofTlv
  <2>5. off' + SizeofTlv > end'
    BY <1>3, <2>2, <2>3, <2>4
  <2> QED
    BY <2>5 DEF Behind
<1>6. ASSUME pc' = "next", NEW k \in 1 .. P, Within(k), tlv.it_len = Tlvs[k].it_len
      PROVE  Within(k + 1)'
  BY <1>1, <1>2, <1>6, SectionSteps DEF Within
<1>7. ASSUME pc' = "next", Full, NEW k \in 1 .. P, Within(k) PROVE Within(k + 1)'
  <2>1. At(off) = Tlvs[k]
    BY <1>2, <1>7, AtEntry DEF Within
  <2>2. tlv.it_len = Tlvs[k].it_len
    BY <1>2, <1>7, <2>1 DEF Header
  <2> QED
    BY <1>6, <1>7, <2>2
<1>8. ASSUME pc' = "next" PROVE (\E k \in 1 .. P + 1 : Within(k)') \/ Beyond' \/ Behind'
  <2>1. CASE ~Full
    BY <1>4, <1>8, <2>1
  <2>2. CASE Full
    <3>1. ~Beyond
      BY <1>2, <2>2 DEF Full, Beyond, SizeofTlv
    <3>2. PICK k \in 1 .. P + 1 : Within(k)
      BY <1>2, <3>1
    <3>3. CASE k = P + 1
      BY <1>5, <1>8, <3>2, <3>3
    <3>4. CASE k \in 1 .. P
      <4>1. Within(k + 1)' /\ k + 1 \in 1 .. P + 1
        BY <1>2, <1>7, <1>8, <2>2, <3>2, <3>4
      <4> QED
        BY <4>1
    <3> QED
      BY <1>2, <3>3, <3>4
  <2> QED
    BY <2>1, <2>2
<1>9. Placement'
  <2>1. ~Cut => end' = SizeofInfo + ProtTot(image')
    BY <1>1, <1>2 DEF IInv, Placement
  <2> QED
    BY <1>1, <1>2, <1>8, <2>1 DEF Placement
<1>10. ASSUME NEW k \in 1 .. P, Within(k), ~Cut, pc' = "next" PROVE Within(k + 1)'
  <2>1. tlv.it_len = Tlvs[k].it_len
    BY <1>1, <1>10, WholeEntry
  <2> QED
    BY <1>6, <1>10, <2>1
<1> QED
  BY <1>3, <1>5, <1>9, <1>10

(* A usable entry of a whole section joins those found.                    *)
LEMMA HandleFinds ==
    ASSUME IInv, Handle, ~Cut, NEW k \in 1 .. P, Within(k), Found(k - 1)
    PROVE  Found(k)'
<1>1. /\ UNCHANGED args /\ pc = "handle" /\ ~Unusable(tlv)
      /\ num'  = IF IsId(tlv)
                 THEN HighBytes(At(off).val, Reads(off + SizeofTlv, tlv.it_len)) ELSE num
      /\ name' = IF IsName(tlv)
                 THEN Text(At(off), Reads(off + SizeofTlv, tlv.it_len)) ELSE name
  BY Handled
<1> DEFINE e == Tlvs[k]
<1>2. /\ At(off) = e /\ tlv.it_type = e.it_type /\ tlv.it_len = e.it_len
      /\ Reads(off + SizeofTlv, tlv.it_len) = e.it_len
  BY <1>1, WholeEntry
<1>3. /\ P \in Nat /\ e.it_len \in Nat /\ (IsId(e) => e.val \in Nat)
  BY AreaFacts DEF IInv
<1>4. /\ Tlvs' = Tlvs /\ ProperUpTo(k)' = ProperUpTo(k)
  BY <1>1, Framed
<1> HIDE DEF e
<1>5. /\ IsId(e) <=> IsId(tlv)
      /\ IsName(e) <=> IsName(tlv)
      /\ ~(IsId(e) /\ IsName(e))
  BY <1>2 DEF IsId, IsName
<1>6. /\ IsId(e) => e.it_len = 4 /\ num = 0
      /\ IsName(e) => e.it_len <= MaxName /\ name = NoName
  BY <1>1, <1>2, <1>3, <1>5 DEF Unusable, MaxName
<1>7. num' = IF IsId(e) THEN e.val ELSE num
  BY <1>1, <1>2, <1>3, <1>5, <1>6, HighBytesFacts
<1>8. name' = IF IsName(e) THEN (IF e.it_len = 0 THEN NoName ELSE e.val) ELSE name
  BY <1>1, <1>2, <1>3, <1>5 DEF Text
<1>9. /\ CountsId(e)   <=> IsId(e) /\ e.val # 0
      /\ CountsName(e) <=> IsName(e) /\ e.it_len > 0 /\ e.val # NoName
  BY <1>5 DEF CountsId, CountsName, Counts
<1>10. ProperUpTo(k)
  <2>1. /\ IsId(e) => e.it_len = 4
        /\ IsName(e) => e.it_len <= MaxName
    BY <1>6
  <2>2. ASSUME NEW j \in 1 .. k - 1, Counts(Tlvs[j]), Tlvs[j].it_type \in {"id", "name"},
               e.it_type = Tlvs[j].it_type
        PROVE  FALSE
    <3>1. CASE IsId(Tlvs[j])
      <4>1. CountsId(Tlvs[j]) /\ Tlvs[j].val # 0
        BY <2>2, <3>1 DEF CountsId, Counts, IsId, IsName
      <4>2. num = Tlvs[j].val
        BY <4>1 DEF Found
      <4> QED
        BY <1>6, <2>2, <3>1, <4>1, <4>2 DEF IsId
    <3>2. CASE IsName(Tlvs[j])
      <4>1. CountsName(Tlvs[j]) /\ Tlvs[j].val # NoName
        BY <2>2, <3>2 DEF CountsName, Counts, IsId, IsName
      <4>2. name = Tlvs[j].val
        BY <4>1 DEF Found
      <4> QED
        BY <1>6, <2>2, <3>2, <4>1, <4>2 DEF IsName
    <3> QED
      BY <2>2, <3>1, <3>2 DEF IsId, IsName
  <2>3. ProperUpTo(k - 1)
    BY DEF Found
  <2>4. \A m \in 1 .. k : m \in 1 .. k - 1 \/ m = k
    BY <1>3
  <2> QED
    BY <2>1, <2>2, <2>3, <2>4 DEF ProperUpTo, e
<1>11. \A j \in 1 .. k : j \in 1 .. k - 1 \/ j = k
  BY <1>3
<1>12. k \in 1 .. k /\ \A j \in 1 .. k - 1 : j \in 1 .. k
  BY <1>3
<1>13. \A j \in 1 .. k - 1 : /\ CountsId(Tlvs[j]) => num = Tlvs[j].val
                             /\ CountsName(Tlvs[j]) => name = Tlvs[j].val
  BY DEF Found
<1>14. \A j \in 1 .. k - 1 : /\ CountsId(Tlvs[j]) => num # 0
                             /\ CountsName(Tlvs[j]) => name # NoName
  BY <1>13 DEF CountsId, CountsName, Counts, IsId, IsName
<1>15. num' # 0 => \E j \in 1 .. k : CountsId(Tlvs[j]) /\ num' = Tlvs[j].val
  <2>1. CASE IsId(e)
    BY <1>7, <1>9, <1>12, <2>1 DEF e
  <2>2. CASE ~IsId(e)
    BY <1>7, <1>12, <2>2 DEF Found
  <2> QED
    BY <2>1, <2>2
<1>16. name' # NoName => \E j \in 1 .. k : CountsName(Tlvs[j]) /\ name' = Tlvs[j].val
  <2>1. CASE IsName(e)
    BY <1>3, <1>8, <1>9, <1>12, <2>1 DEF e
  <2>2. CASE ~IsName(e)
    BY <1>8, <1>12, <2>2 DEF Found
  <2> QED
    BY <2>1, <2>2
<1>17. \A j \in 1 .. k : /\ CountsId(Tlvs[j]) => num' = Tlvs[j].val
                         /\ CountsName(Tlvs[j]) => name' = Tlvs[j].val
  <2> SUFFICES ASSUME NEW j \in 1 .. k
               PROVE  /\ CountsId(Tlvs[j]) => num' = Tlvs[j].val
                      /\ CountsName(Tlvs[j]) => name' = Tlvs[j].val
    OBVIOUS
  <2>1. CASE j = k
    BY <1>3, <1>7, <1>8, <1>9, <2>1 DEF e
  <2>2. CASE j \in 1 .. k - 1
    <3>1. /\ CountsId(Tlvs[j]) => num = Tlvs[j].val /\ num # 0
          /\ CountsName(Tlvs[j]) => name = Tlvs[j].val /\ name # NoName
      BY <1>13, <1>14, <2>2
    <3> QED
      BY <1>6, <1>7, <1>8, <3>1
  <2> QED
    BY <1>11, <2>1, <2>2
<1> QED
  BY <1>4, <1>10, <1>15, <1>16, <1>17 DEF Found, CountsId, CountsName

(* What is left of an entry before the section's end changes nothing behind*)
(* it.                                                                     *)
LEMMA HandleAtEnd ==
    ASSUME IInv, Handle, Within(P + 1)
    PROVE  UNCHANGED hw_rev
<1>1. /\ pc = "handle" /\ ~Unusable(tlv)
      /\ num'  = IF IsId(tlv)
                 THEN HighBytes(At(off).val, Reads(off + SizeofTlv, tlv.it_len)) ELSE num
      /\ name' = IF IsName(tlv)
                 THEN Text(At(off), Reads(off + SizeofTlv, tlv.it_len)) ELSE name
  BY Handled
<1>2. IsId(tlv) \/ IsName(tlv) => Reads(off + SizeofTlv, tlv.it_len) = 0
  BY <1>1, NothingAtEnd
<1>3. IsId(tlv) => num = 0
  BY <1>1 DEF Unusable
<1>4. IsName(tlv) => name = NoName
  BY <1>1 DEF Unusable
<1> QED
  BY <1>1, <1>2, <1>3, <1>4 DEF HighBytes, Text, hw_rev

LEMMA HandleProgress == ASSUME IInv, Handle PROVE Progress'
<1>1. /\ UNCHANGED args /\ clean' = clean /\ pc = "handle"
      /\ BothFound(num', name') => pc' = "done" /\ result' = TRUE
      /\ ~BothFound(num', name') => pc' = "next" /\ result' = result
  BY Handled
<1>2. P' = P /\ Cut' = Cut /\ Undisturbed' = Undisturbed /\ P \in Nat
  BY <1>1, Framed, AreaFacts DEF Undisturbed, IInv
<1>3. ~BothFound(num, name) /\ ~result /\ result \in BOOLEAN
  BY <1>1 DEF IInv, Progress, TypeOK
<1>4. ASSUME Undisturbed
      PROVE  \/ \E k \in 1 .. P : Found(k)' /\ (pc' = "next" => Within(k + 1)')
             \/ pc' = "next" /\ Behind' /\ Found(P)'
  <2>1. PICK k \in 1 .. P + 1 : Within(k) /\ Found(k - 1)
    BY <1>1, <1>4 DEF IInv, Progress
  <2>2. ~Cut
    BY <1>4 DEF Undisturbed
  <2>3. CASE k \in 1 .. P
    BY <2>1, <2>2, <2>3, HandleFinds, HandlePlacement
  <2>4. CASE k = P + 1
    <3>1. UNCHANGED hw_rev
      BY <2>1, <2>4, HandleAtEnd
    <3>2. Found(P)' /\ num' = num /\ name' = name
      <4>1. k - 1 = P
        BY <1>2, <2>4
      <4> QED
        BY <1>1, <1>2, <2>1, <3>1, <4>1, FoundKept DEF hw_rev
    <3>3. pc' = "next"
      BY <1>1, <1>3, <3>2
    <3> QED
      BY <2>1, <2>2, <2>4, <3>2, <3>3, HandlePlacement
  <2> QED
    BY <1>2, <2>3, <2>4
<1>5. pc' \in {"next", "handle"} => ~BothFound(num', name') /\ ~result'
  BY <1>1, <1>3
<1>6. ASSUME pc' = "next", Undisturbed
      PROVE  \/ \E k \in 1 .. P + 1 : Within(k)' /\ Found(k - 1)'
             \/ Behind' /\ Found(P)'
  <2>1. CASE \E k \in 1 .. P : Found(k)' /\ (pc' = "next" => Within(k + 1)')
    <3>1. PICK k \in 1 .. P : Found(k)' /\ Within(k + 1)'
      BY <1>6, <2>1
    <3>2. k + 1 \in 1 .. P + 1 /\ (k + 1) - 1 = k
      BY <1>2
    <3> QED
      BY <3>1, <3>2
  <2> QED
    BY <1>4, <1>6, <2>1
<1>7. ASSUME pc' = "done", Undisturbed
      PROVE  /\ result' /\ BothFound(num', name')
             /\ \E n \in 0 .. P : Found(n)'
  <2>1. PICK k \in 1 .. P : Found(k)'
    BY <1>4, <1>7
  <2>2. k \in 0 .. P
    BY <1>2
  <2> QED
    BY <1>1, <1>7, <2>1, <2>2
<1>8. pc' # "info" /\ pc' # "handle"
  BY <1>1
<1> QED
  BY <1>2, <1>5, <1>6, <1>7, <1>8 DEF Progress, BothFound

LEMMA HandleKeeps == IInv /\ Handle => IInv'
<1> SUFFICES ASSUME IInv, Handle PROVE IInv'
  OBVIOUS
<1>1. /\ UNCHANGED args /\ clean' = clean /\ tlv' = tlv /\ end' = end
      /\ pc' \in {"next", "done"} /\ result' \in {TRUE, result}
  BY Handled
<1>2. image' = image /\ medium' = medium /\ eof' = eof /\ Cut' = Cut
  BY <1>1, Framed DEF args
<1>3. OnlyProtected'
  BY HandleValues
<1>4. TypeOK'
  BY <1>1, HandleValues, HandlePlacement DEF IInv, TypeOK
<1>5. Placement' /\ Progress'
  BY HandlePlacement, HandleProgress
<1>6. tlv'.it_len \in Nat /\ (medium' = "flash" => ~Cut') /\ image' \in Areas
      /\ medium' \in {"flash", "file"} /\ eof' \in 0 .. AreaSize(image')
  BY <1>1, <1>2 DEF IInv
<1> QED
  BY <1>3, <1>4, <1>5, <1>6 DEF IInv

LEMMA IInvStep == IInv /\ [Next]_vars => IInv'
<1> SUFFICES ASSUME IInv, [Next]_vars PROVE IInv'
  OBVIOUS
<1>1. CASE FindTlvs
  BY <1>1, FindTlvsKeeps
<1>2. CASE NoTlvs
  BY <1>2, NoTlvsKeeps
<1>3. CASE Load
  BY <1>3, LoadKeeps
<1>4. CASE NotFound
  BY <1>4, NotFoundKeeps
<1>5. CASE Refuse
  BY <1>5, RefuseKeeps
<1>6. CASE Handle
  BY <1>6, HandleKeeps
<1>7. CASE ReadFails
  BY <1>7, ReadFailsKeeps
<1>8. CASE UNCHANGED vars
  <2>1. /\ UNCHANGED args /\ UNCHANGED hw_rev
        /\ pc' = pc /\ off' = off /\ end' = end /\ tlv' = tlv
        /\ result' = result /\ clean' = clean
    BY <1>8 DEF vars, args, hw_rev
  <2>2. /\ image' = image /\ medium' = medium /\ eof' = eof /\ num' = num /\ name' = name
        /\ P' = P /\ Cut' = Cut /\ \A n : ProperUpTo(n)' = ProperUpTo(n) /\ Found(n)' = Found(n)
    BY <2>1, Framed, FoundKept DEF args, hw_rev
  <2>3. TypeOK' /\ OnlyProtected'
    BY <2>1, <2>2, ValuesKept DEF IInv, TypeOK
  <2>4. Placement'
    BY <2>1, <2>2 DEF IInv, Placement, Within, Beyond, Behind, Full, Header, At
  <2>5. Progress'
    BY <2>1, <2>2 DEF IInv, Progress, Within, Behind, Undisturbed, BothFound
  <2> QED
    BY <2>1, <2>2, <2>3, <2>4, <2>5 DEF IInv
<1> QED
  BY <1>1, <1>2, <1>3, <1>4, <1>5, <1>6, <1>7, <1>8 DEF Next, Search

-----------------------------------------------------------------------------
(* The longest run of entries that the reference takes.                    *)

Part(n) == SubSeq(image.prot, 1, n)

LEMMA Prefix ==
    ASSUME NEW s, NEW n \in Nat
    PROVE  /\ DOMAIN SubSeq(s, 1, n) = 1 .. n
           /\ \A k \in 1 .. n : SubSeq(s, 1, n)[k] = s[k]
BY SMT

LEMMA PartFacts ==
    ASSUME image \in Areas, NEW n \in 0 .. P
    PROVE  DOMAIN Part(n) = 1 .. n /\ \A k \in 1 .. n : Part(n)[k] = Tlvs[k]
<1>1. P \in Nat /\ \A k \in 1 .. P : image.prot[k] = Tlvs[k]
  BY AreaFacts
<1>2. n \in Nat /\ \A k \in 1 .. n : k \in 1 .. P
  BY <1>1
<1>3. DOMAIN Part(n) = 1 .. n /\ \A k \in 1 .. n : Part(n)[k] = image.prot[k]
  BY <1>2, Prefix, Zenon DEF Part
<1> QED
  BY <1>1, <1>2, <1>3, Zenon

LEMMA ProperPart ==
    ASSUME image \in Areas, NEW n \in 0 .. P
    PROVE  Proper(Part(n)) <=> ProperUpTo(n)
<1>1. DOMAIN Part(n) = 1 .. n /\ \A k \in 1 .. n : Part(n)[k] = Tlvs[k]
  BY PartFacts
<1>2. \A k \in 1 .. n : \A j \in 1 .. k - 1 : j \in 1 .. n
  BY AreaFacts
<1> QED
  BY <1>1, <1>2 DEF Proper, ProperUpTo

LEMMA ProperUpToFewer ==
    ASSUME NEW n \in Nat, NEW m \in 0 .. n, ProperUpTo(n)
    PROVE  ProperUpTo(m)
<1>1. \A k \in 1 .. m : k \in 1 .. n
  OBVIOUS
<1> QED
  BY <1>1, Zenon DEF ProperUpTo

LEMMA GreatestNumber ==
    ASSUME NEW B \in Nat, NEW G, G \subseteq 0 .. B, G # {}
    PROVE  Max(G) \in G /\ \A y \in G : Max(G) >= y
<1> DEFINE T == {B - n : n \in G}
<1>1. T \subseteq Nat /\ T # {}
  <2>1. PICK g : g \in G
    OBVIOUS
  <2>2. B - g \in T
    BY <2>1
  <2>3. \A n \in G : B - n \in Nat
    OBVIOUS
  <2> QED
    BY <2>2, <2>3
<1>2. PICK t \in T : \A y \in T : t <= y
  BY <1>1, LeastNumber
<1>3. PICK g \in G : t = B - g
  OBVIOUS
<1>4. ASSUME NEW y \in G PROVE g >= y
  <2>1. t <= B - y
    BY <1>2
  <2> QED
    BY <1>3, <2>1
<1>5. \E x \in G : \A y \in G : x >= y
  BY <1>4
<1> QED
  BY <1>5, Zenon DEF Max

LEMMA LongestFacts ==
    ASSUME image \in Areas
    PROVE  /\ Longest \in 0 .. P /\ ProperUpTo(Longest)
           /\ \A n \in 0 .. P : ProperUpTo(n) => n <= Longest
<1> DEFINE G == {n \in 0 .. P : ProperUpTo(n)}
<1>1. P \in Nat
  BY AreaFacts
<1>2. Longest = Max({n \in 0 .. P : Proper(Part(n))})
  BY Zenon DEF Longest, P, ProtCount, Count, Part
<1>3. {n \in 0 .. P : Proper(Part(n))} = G
  BY ProperPart
<1>4. ProperUpTo(0)
  BY DEF ProperUpTo
<1>5. G \subseteq 0 .. P /\ G # {}
  BY <1>1, <1>4
<1>6. Longest = Max(G)
  BY <1>2, <1>3
<1> HIDE DEF G
<1>7. Longest \in G /\ \A y \in G : Longest >= y
  BY <1>1, <1>5, <1>6, GreatestNumber
<1> QED
  BY <1>1, <1>7 DEF G

LEMMA CountingFacts ==
    ASSUME image \in Areas
    PROVE  /\ Counting(IsId)   = {e \in {Tlvs[k] : k \in 1 .. Longest} : CountsId(e)}
           /\ Counting(IsName) = {e \in {Tlvs[k] : k \in 1 .. Longest} : CountsName(e)}
<1>1. Longest \in 0 .. P
  BY LongestFacts
<1>2. DOMAIN Part(Longest) = 1 .. Longest /\ \A k \in 1 .. Longest : Part(Longest)[k] = Tlvs[k]
  BY <1>1, PartFacts
<1>3. EntriesOf(Part(Longest)) = {Tlvs[k] : k \in 1 .. Longest}
  BY <1>2 DEF EntriesOf
<1> QED
  BY <1>3, Zenon DEF Counting, CountsId, CountsName, Part

(* What was found when the search ended is all there is to be found.       *)
LEMMA FoundIsAll ==
    ASSUME IInv, pc = "done", Undisturbed
    PROVE  /\ num # 0 => \E j \in 1 .. Longest : CountsId(Tlvs[j]) /\ num = Tlvs[j].val
           /\ name # NoName => \E j \in 1 .. Longest : CountsName(Tlvs[j]) /\ name = Tlvs[j].val
           /\ \A j \in 1 .. Longest : CountsId(Tlvs[j]) => num = Tlvs[j].val
           /\ \A j \in 1 .. Longest : CountsName(Tlvs[j]) => name = Tlvs[j].val
<1> DEFINE L == Longest
<1>1. PICK n \in 0 .. P : Found(n) /\ (n = P \/ ~ProperUpTo(n + 1) \/ BothFound(num, name))
  BY DEF IInv, Progress
<1>2. /\ P \in Nat /\ L \in 0 .. P /\ ProperUpTo(L)
      /\ \A m \in 0 .. P : ProperUpTo(m) => m <= L
  BY AreaFacts, LongestFacts DEF IInv
<1>3. n <= L
  BY <1>1, <1>2 DEF Found
<1> HIDE DEF L
<1>4. \A j \in 1 .. n : j \in 1 .. L
  BY <1>2, <1>3
<1>5. /\ num # 0 => \E j \in 1 .. n : CountsId(Tlvs[j]) /\ num = Tlvs[j].val
      /\ name # NoName => \E j \in 1 .. n : CountsName(Tlvs[j]) /\ name = Tlvs[j].val
  BY <1>1 DEF Found
<1>6. ASSUME NEW j \in 1 .. L, j > n, NEW i \in 1 .. n,
             Counts(Tlvs[i]), Tlvs[i].it_type \in {"id", "name"}
      PROVE  Tlvs[j].it_type # Tlvs[i].it_type
  <2>1. i \in 1 .. j - 1
    BY <1>2, <1>6
  <2> QED
    BY <1>2, <1>6, <2>1 DEF ProperUpTo
<1>7. ASSUME NEW j \in 1 .. L, j > n
      PROVE  BothFound(num, name)
  <2>1. n + 1 \in 0 .. L /\ L \in Nat /\ n # P
    BY <1>2, <1>7
  <2>2. ProperUpTo(n + 1)
    BY <1>2, <2>1, ProperUpToFewer
  <2> QED
    BY <1>1, <2>1, <2>2
<1>8. ASSUME NEW j \in 1 .. L PROVE CountsId(Tlvs[j]) => num = Tlvs[j].val
  <2>1. CASE j \in 1 .. n
    BY <1>1, <2>1 DEF Found
  <2>2. CASE j > n /\ CountsId(Tlvs[j])
    <3>1. PICK i \in 1 .. n : CountsId(Tlvs[i])
      BY <1>5, <1>7, <2>2 DEF BothFound
    <3> QED
      BY <1>6, <2>2, <3>1 DEF CountsId, IsId
  <2> QED
    BY <1>2, <2>1, <2>2
<1>9. ASSUME NEW j \in 1 .. L PROVE CountsName(Tlvs[j]) => name = Tlvs[j].val
  <2>1. CASE j \in 1 .. n
    BY <1>1, <2>1 DEF Found
  <2>2. CASE j > n /\ CountsName(Tlvs[j])
    <3>1. PICK i \in 1 .. n : CountsName(Tlvs[i])
      BY <1>5, <1>7, <2>2 DEF BothFound
    <3> QED
      BY <1>6, <2>2, <3>1 DEF CountsName, IsName
  <2> QED
    BY <1>2, <2>1, <2>2
<1>10. num # 0 => \E j \in 1 .. L : CountsId(Tlvs[j]) /\ num = Tlvs[j].val
  BY <1>4, <1>5
<1>11. name # NoName => \E j \in 1 .. L : CountsName(Tlvs[j]) /\ name = Tlvs[j].val
  BY <1>4, <1>5
<1> QED
  BY <1>8, <1>9, <1>10, <1>11 DEF L

-----------------------------------------------------------------------------

(* What the theorems below rest on: the search stands where IInv says, and *)
(* what it has found is that of the entries it has passed.                 *)
THEOREM Inductive == Spec => []IInv
BY IInvInit, IInvStep, PTL DEF Spec

(* The variables of the search have their types: the name in p_hw_rev is   *)
(* one of the section's, or a part of one, or none.                        *)
THEOREM TypesCorrect == Spec => []TypeOK
<1>1. IInv => TypeOK
  BY DEF IInv
<1> QED
  BY <1>1, Inductive, PTL

(* Whatever the section holds, wherever the file ends and whichever read   *)
(* fails, the hardware revision comes from the protected section, whole    *)
(* but for a value that the end of the file or a failing read cuts.        *)
THEOREM FoundIsProtected == Spec => []OnlyProtected
<1>1. IInv => OnlyProtected
  BY DEF IInv
<1> QED
  BY <1>1, Inductive, PTL

(* Of a whole image both searches, the one in flash and the one in a file, *)
(* end with the values that count of the longest proper run of entries, and*)
(* succeed when there are two: whatever the lengths, types, values and     *)
(* order of the entries, and whatever follows the section.                 *)
THEOREM SearchesAgree == Spec => []AsReference
<1>1. IInv => AsReference
  <2> SUFFICES ASSUME IInv, pc = "done", clean, ~Cut
               PROVE  /\ {num} \ {0} = {e.val : e \in Counting(IsId)}
                      /\ {name} \ {NoName} = {e.val : e \in Counting(IsName)}
                      /\ result = BothFound(num, name)
    BY DEF AsReference
  <2>1. Undisturbed
    BY DEF Undisturbed
  <2>2. result = BothFound(num, name)
    BY <2>1 DEF IInv, Progress
  <2>3. /\ Counting(IsId)   = {e \in {Tlvs[k] : k \in 1 .. Longest} : CountsId(e)}
        /\ Counting(IsName) = {e \in {Tlvs[k] : k \in 1 .. Longest} : CountsName(e)}
    BY CountingFacts DEF IInv
  <2>4. {num} \ {0} = {e.val : e \in {d \in {Tlvs[k] : k \in 1 .. Longest} : CountsId(d)}}
    <3>1. /\ num # 0 => \E j \in 1 .. Longest : CountsId(Tlvs[j]) /\ num = Tlvs[j].val
          /\ \A j \in 1 .. Longest : CountsId(Tlvs[j]) => num = Tlvs[j].val
      BY <2>1, FoundIsAll
    <3>2. \A j \in 1 .. Longest : CountsId(Tlvs[j]) => Tlvs[j].val # 0
      BY DEF CountsId, Counts, IsId, IsName
    <3> QED
      BY <3>1, <3>2
  <2>5. {name} \ {NoName} = {e.val : e \in {d \in {Tlvs[k] : k \in 1 .. Longest} : CountsName(d)}}
    <3>1. /\ name # NoName => \E j \in 1 .. Longest : CountsName(Tlvs[j]) /\ name = Tlvs[j].val
          /\ \A j \in 1 .. Longest : CountsName(Tlvs[j]) => name = Tlvs[j].val
      BY <2>1, FoundIsAll
    <3>2. \A j \in 1 .. Longest : CountsName(Tlvs[j]) => Tlvs[j].val # NoName
      BY DEF CountsName, Counts, IsId, IsName
    <3> QED
      BY <3>1, <3>2
  <2> QED
    BY <2>2, <2>3, <2>4, <2>5
<1> QED
  BY <1>1, Inductive, PTL

=============================================================================
