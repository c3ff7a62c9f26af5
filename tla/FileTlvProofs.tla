---------------------------- MODULE FileTlvProofs ----------------------------
(***************************************************************************)
(* Where the entries of a TLV area lie, and what file_tlv.c's iterator     *)
(* does at each of them, for areas of any number of entries of any length. *)
(*                                                                         *)
(* Both rest on induction over the entries, for which the library's least- *)
(* element principle is stated here for sets of numbers.                   *)
(***************************************************************************)
EXTENDS FileTlv, SequenceTheorems, WellFoundedInduction, TLAPS

LEMMA LeastNumber ==
    ASSUME NEW T, T \subseteq Nat, T # {}
    PROVE  \E x \in T : \A y \in T : x <= y
<1> DEFINE R == OpToRel(<, Nat)
<1>1. IsWellFoundedOn(R, Nat)
  BY NatLessThanWellFounded, Zenon
<1> HIDE DEF R
<1>2. PICK x \in T : \A y \in T : ~(<<y, x>> \in R)
  BY <1>1, WFMin, Zenon
<1>3. \A y \in T : ~(y < x)
  BY <1>2, Zenon DEF OpToRel, R
<1>4. x \in Nat /\ \A y \in T : y \in Nat
  OBVIOUS
<1> QED
  BY <1>3, <1>4

(* A set with 0 in it, and n + 1 whenever n is, has every number in it.    *)
LEMMA SetInduction ==
    ASSUME NEW S, 0 \in S, \A n \in Nat : n \in S => n + 1 \in S
    PROVE  Nat \subseteq S
<1> DEFINE T == Nat \ S
<1>1. SUFFICES ASSUME T # {} PROVE FALSE
  OBVIOUS
<1>2. PICK x \in T : \A y \in T : x <= y
  BY <1>1, LeastNumber
<1>3. x # 0 /\ x - 1 \in Nat
  OBVIOUS
<1>4. x - 1 \in T
  <2>1. (x - 1) + 1 = x
    OBVIOUS
  <2> QED
    BY <1>3, <2>1
<1> QED
  BY <1>2, <1>3, <1>4

-----------------------------------------------------------------------------
(* The sections as functions.  The length of a section is a number of its  *)
(* own in what follows, Count, and what is known of sequences is stated    *)
(* here, once: no proof below expands Len.                                 *)

Count(es)     == Len(es)
ProtCount(i)  == Count(i.prot)
EntryCount(i) == Count(i.prot) + Count(i.unprot)

IsSection(es) ==
    /\ Count(es) \in Nat
    /\ DOMAIN es = 1 .. Count(es)
    /\ \A k \in 1 .. Count(es) : es[k].it_len \in Nat

LEMMA SectionOf ==
    ASSUME NEW S, \A e \in S : e.it_len \in Nat, NEW es \in Seq(S)
    PROVE  IsSection(es) /\ (es = <<>> <=> Count(es) = 0)
<1>1. Count(es) \in Nat /\ DOMAIN es = 1 .. Count(es)
  BY LenProperties, Zenon DEF Count
<1>2. \A k \in 1 .. Count(es) : es[k] \in S
  BY ElementOfSeq, Zenon DEF Count
<1>3. \A k \in 1 .. Count(es) : es[k].it_len \in Nat
  BY <1>2, Zenon
<1>4. es = <<>> => Count(es) = 0
  BY EmptySeq, Zenon DEF Count
<1>5. es # <<>> => Count(es) \in Nat \ {0}
  BY EmptySeq, Zenon DEF Count
<1>6. es # <<>> => Count(es) # 0
  BY <1>5, Zenon
<1> QED
  BY <1>1, <1>3, <1>4, <1>6, Zenon DEF IsSection

LEMMA AreaSections ==
    ASSUME NEW i, IsArea(i)
    PROVE  IsSection(i.prot) /\ IsSection(i.unprot)
<1> DEFINE S == Range(i.prot) \cup Range(i.unprot)
<1>1. i.prot \in Seq(S) /\ i.unprot \in Seq(S) /\ \A e \in S : e.it_len \in Nat
  BY Zenon DEF IsArea
<1> HIDE DEF S
<1> QED
  BY <1>1, SectionOf, Zenon

LEMMA IsAreaHeader ==
    ASSUME NEW i, IsArea(i)
    PROVE  i.ih_protect_tlv_size \in Nat /\ i.it_magic \in BOOLEAN
BY Zenon DEF IsArea

LEMMA AreaEmpty ==
    ASSUME NEW i, IsArea(i)
    PROVE  /\ i.prot = <<>> <=> ProtCount(i) = 0
           /\ i.unprot = <<>> <=> Count(i.unprot) = 0
<1> DEFINE S == Range(i.prot) \cup Range(i.unprot)
<1>1. i.prot \in Seq(S) /\ i.unprot \in Seq(S) /\ \A e \in S : e.it_len \in Nat
  BY Zenon DEF IsArea
<1> HIDE DEF S
<1> QED
  BY <1>1, SectionOf, Zenon DEF ProtCount

(* The entries of a file: the protected ones, then the others.             *)
LEMMA EntriesFacts ==
    ASSUME NEW i, IsArea(i)
    PROVE  /\ Count(Entries(i)) = EntryCount(i)
           /\ DOMAIN Entries(i) = 1 .. EntryCount(i)
           /\ \A k \in 1 .. EntryCount(i) : Entries(i)[k] =
                 IF k <= ProtCount(i) THEN i.prot[k] ELSE i.unprot[k - ProtCount(i)]
<1> DEFINE S == Range(i.prot) \cup Range(i.unprot)
<1>1. i.prot \in Seq(S) /\ i.unprot \in Seq(S)
  BY Zenon DEF IsArea
<1> HIDE DEF S
<1>2. /\ Entries(i) \in Seq(S)
      /\ Len(Entries(i)) = EntryCount(i)
      /\ \A k \in 1 .. EntryCount(i) : Entries(i)[k] =
            IF k <= ProtCount(i) THEN i.prot[k] ELSE i.unprot[k - ProtCount(i)]
  BY <1>1, ConcatProperties, Zenon DEF Entries, EntryCount, ProtCount, Count
<1>3. DOMAIN Entries(i) = 1 .. EntryCount(i)
  BY <1>2, LenProperties, Zenon
<1> QED
  BY <1>2, <1>3, Zenon DEF Count

-----------------------------------------------------------------------------
(* Taken is what its recursive definition says, and adds up numbers.       *)

Sums(es, n, f) ==
    f = [k \in 0 .. n |-> IF k = 0 THEN 0 ELSE f[k - 1] + SizeofTlv + es[k].it_len]

LEMMA TakenIs ==
    ASSUME NEW es
    PROVE  Taken(es) = CHOOSE f : Sums(es, Count(es), f)
BY Zenon DEF Taken, Sums, Count

LEMMA SumsExists ==
    ASSUME NEW es, IsSection(es)
    PROVE  \E f : Sums(es, Count(es), f)
<1> DEFINE N == Count(es)
           Upto(n) == \E f \in [0 .. n -> Nat] :
              f[0] = 0 /\ \A k \in 1 .. n : f[k] = f[k - 1] + SizeofTlv + es[k].it_len
           S == {n \in Nat : n <= N => Upto(n)}
<1>1. N \in Nat /\ \A k \in 1 .. N : es[k].it_len \in Nat
  BY DEF IsSection
<1> HIDE DEF N
<1>2. 0 \in S
  <2> DEFINE f == [k \in 0 .. 0 |-> 0]
  <2>1. f \in [0 .. 0 -> Nat] /\ f[0] = 0
    OBVIOUS
  <2> HIDE DEF f
  <2> QED
    BY <2>1
<1>3. ASSUME NEW n \in Nat, n \in S PROVE n + 1 \in S
  <2> SUFFICES ASSUME n + 1 <= N PROVE Upto(n + 1)
    <3> HIDE DEF Upto
    <3> QED
      OBVIOUS
  <2>8. Upto(n)
    <3>1. n <= N
      BY <1>1
    <3> HIDE DEF Upto
    <3> QED
      BY <1>3, <3>1
  <2>1. PICK f \in [0 .. n -> Nat] :
           f[0] = 0 /\ \A k \in 1 .. n : f[k] = f[k - 1] + SizeofTlv + es[k].it_len
    BY <2>8
  <2> DEFINE last == f[n] + SizeofTlv + es[n + 1].it_len
             g    == [k \in 0 .. n + 1 |-> IF k = n + 1 THEN last ELSE f[k]]
  <2>2. last \in Nat
    BY <1>1, <2>1 DEF SizeofTlv
  <2>3. \A k \in 0 .. n : g[k] = f[k]
    OBVIOUS
  <2>4. g[n + 1] = f[n] + SizeofTlv + es[n + 1].it_len
    OBVIOUS
  <2>5. g \in [0 .. n + 1 -> Nat]
    BY <2>1, <2>2
  <2>6. \A k \in 1 .. n + 1 : g[k] = g[k - 1] + SizeofTlv + es[k].it_len
    <3> SUFFICES ASSUME NEW k \in 1 .. n + 1
                 PROVE  g[k] = g[k - 1] + SizeofTlv + es[k].it_len
      OBVIOUS
    <3> HIDE DEF g
    <3>1. CASE k = n + 1
      BY <3>1, <2>3, <2>4
    <3>2. CASE k \in 1 .. n
      BY <3>2, <2>1, <2>3
    <3> QED
      BY <3>1, <3>2
  <2>7. g[0] = 0
    BY <2>1, <2>3
  <2> HIDE DEF g
  <2> QED
    BY <2>5, <2>6, <2>7
<1> HIDE DEF Upto
<1>4. Nat \subseteq S
  BY <1>2, <1>3, SetInduction
<1>5. Upto(N)
  BY <1>1, <1>4
<1>6. PICK f \in [0 .. N -> Nat] :
         f[0] = 0 /\ \A k \in 1 .. N : f[k] = f[k - 1] + SizeofTlv + es[k].it_len
  BY <1>5 DEF Upto
<1>7. \A k \in 0 .. N : f[k] = IF k = 0 THEN 0 ELSE f[k - 1] + SizeofTlv + es[k].it_len
  BY <1>1, <1>6
<1>8. Sums(es, N, f)
  BY <1>6, <1>7 DEF Sums
<1> QED
  BY <1>8, Zenon DEF N

LEMMA TakenFacts ==
    ASSUME NEW es, IsSection(es)
    PROVE  /\ Taken(es)[0] = 0
           /\ \A k \in 0 .. Count(es) : Taken(es)[k] \in Nat
           /\ \A k \in 1 .. Count(es) :
                 Taken(es)[k] = Taken(es)[k - 1] + SizeofTlv + es[k].it_len
<1> DEFINE N == Count(es)
           T == Taken(es)
           S == {n \in Nat : n <= N => T[n] \in Nat}
<1>1. N \in Nat /\ \A k \in 1 .. N : es[k].it_len \in Nat
  BY DEF IsSection
<1>2. Sums(es, N, T)
  BY SumsExists, TakenIs, Zenon
<1> HIDE DEF N, T
<1>3. \A k \in 0 .. N : T[k] = IF k = 0 THEN 0 ELSE T[k - 1] + SizeofTlv + es[k].it_len
  BY <1>2 DEF Sums
<1>4. T[0] = 0
  BY <1>1, <1>3
<1>5. \A k \in 1 .. N : T[k] = T[k - 1] + SizeofTlv + es[k].it_len
  BY <1>1, <1>3
<1>6. 0 \in S
  BY <1>4
<1>7. ASSUME NEW n \in Nat, n \in S PROVE n + 1 \in S
  <2> SUFFICES ASSUME n + 1 <= N PROVE T[n + 1] \in Nat
    OBVIOUS
  <2>1. T[n] \in Nat
    BY <1>1, <1>7
  <2>2. T[n + 1] = T[n] + SizeofTlv + es[n + 1].it_len
    <3>1. n + 1 \in 1 .. N /\ (n + 1) - 1 = n
      BY <1>1
    <3> QED
      BY <1>5, <3>1
  <2> QED
    BY <1>1, <2>1, <2>2 DEF SizeofTlv
<1>8. Nat \subseteq S
  BY <1>6, <1>7, SetInduction
<1>9. \A k \in 0 .. N : T[k] \in Nat
  BY <1>1, <1>8
<1> QED
  BY <1>4, <1>5, <1>9, Zenon DEF N, T

(* More entries take more bytes.                                           *)
LEMMA TakenIncreases ==
    ASSUME NEW es, IsSection(es)
    PROVE  \A j, k \in 0 .. Count(es) : j < k => Taken(es)[j] + SizeofTlv <= Taken(es)[k]
<1> DEFINE N == Count(es)
           T == Taken(es)
           S == {n \in Nat : n <= N => \A j \in 0 .. N : j < n => T[j] + SizeofTlv <= T[n]}
<1>1. N \in Nat /\ \A k \in 1 .. N : es[k].it_len \in Nat
  BY DEF IsSection
<1>2. /\ \A k \in 0 .. N : T[k] \in Nat
      /\ \A k \in 1 .. N : T[k] = T[k - 1] + SizeofTlv + es[k].it_len
  BY TakenFacts
<1> HIDE DEF N, T
<1>3. 0 \in S
  OBVIOUS
<1>4. ASSUME NEW n \in Nat, n \in S PROVE n + 1 \in S
  <2> SUFFICES ASSUME n + 1 <= N, NEW j \in 0 .. N, j < n + 1
               PROVE  T[j] + SizeofTlv <= T[n + 1]
    OBVIOUS
  <2>1. T[n + 1] = T[n] + SizeofTlv + es[n + 1].it_len
    <3>1. n + 1 \in 1 .. N /\ (n + 1) - 1 = n
      BY <1>1
    <3> QED
      BY <1>2, <3>1
  <2>2. T[n] \in Nat /\ T[j] \in Nat /\ es[n + 1].it_len \in Nat
    BY <1>1, <1>2
  <2>3. j = n \/ T[j] + SizeofTlv <= T[n]
    BY <1>1, <1>4
  <2> QED
    BY <2>1, <2>2, <2>3 DEF SizeofTlv
<1>5. Nat \subseteq S
  BY <1>3, <1>4, SetInduction
<1>6. \A j, k \in 0 .. N : j < k => T[j] + SizeofTlv <= T[k]
  BY <1>1, <1>5
<1> QED
  BY <1>6, Zenon DEF N, T

-----------------------------------------------------------------------------
(* Where the entries lie: each of them behind the one before it, the first *)
(* unprotected one behind its section's image_tlv_info too.                *)

LEMMA TotIs ==
    ASSUME NEW i, IsArea(i)
    PROVE  /\ ProtTot(i) = IF ProtCount(i) = 0 THEN 0
                           ELSE SizeofInfo + Taken(i.prot)[ProtCount(i)]
           /\ UnprotTot(i) = SizeofInfo + Taken(i.unprot)[Count(i.unprot)]
BY AreaEmpty, Zenon DEF ProtTot, UnprotTot, Total, ProtCount, Count

LEMMA EntryOffIs ==
    ASSUME NEW i, NEW k
    PROVE  EntryOff(i, k) =
              IF k <= ProtCount(i) THEN SizeofInfo + Taken(i.prot)[k - 1]
              ELSE ProtTot(i) + SizeofInfo + Taken(i.unprot)[k - ProtCount(i) - 1]
BY Zenon DEF EntryOff, ProtCount, Count

(* The offsets of a file's entries as numbers, with nothing of sequences.  *)
LEMMA Layout ==
    ASSUME NEW i, IsArea(i)
    PROVE  /\ ProtCount(i) \in Nat /\ EntryCount(i) \in Nat /\ ProtCount(i) <= EntryCount(i)
           /\ ProtTot(i) \in Nat /\ UnprotTot(i) \in Nat
           /\ ProtTot(i) = 0 <=> ProtCount(i) = 0
           /\ \A k \in 1 .. EntryCount(i) : Entries(i)[k].it_len \in Nat
           /\ \A k \in 1 .. EntryCount(i) + 1 : EntryOff(i, k) \in Nat
<1> DEFINE P == ProtCount(i)
           U == Count(i.unprot)
           TP == Taken(i.prot)
           TU == Taken(i.unprot)
<1>1. /\ P \in Nat /\ U \in Nat /\ EntryCount(i) = P + U
      /\ \A k \in 1 .. P : i.prot[k].it_len \in Nat
      /\ \A k \in 1 .. U : i.unprot[k].it_len \in Nat
  BY AreaSections DEF IsSection, ProtCount, EntryCount
<1>2. /\ \A k \in 0 .. P : TP[k] \in Nat
      /\ \A k \in 0 .. U : TU[k] \in Nat
  BY AreaSections, TakenFacts DEF ProtCount
<1>3. /\ ProtTot(i) = IF P = 0 THEN 0 ELSE SizeofInfo + TP[P]
      /\ UnprotTot(i) = SizeofInfo + TU[U]
  BY TotIs
<1>4. \A k : EntryOff(i, k) = IF k <= P THEN SizeofInfo + TP[k - 1]
                              ELSE ProtTot(i) + SizeofInfo + TU[k - P - 1]
  BY EntryOffIs
<1>5. \A k \in 1 .. EntryCount(i) :
         Entries(i)[k] = IF k <= P THEN i.prot[k] ELSE i.unprot[k - P]
  BY EntriesFacts
<1> HIDE DEF P, U, TP, TU
<1>6. ProtTot(i) \in Nat /\ UnprotTot(i) \in Nat /\ (ProtTot(i) = 0 <=> P = 0)
  BY <1>1, <1>2, <1>3 DEF SizeofInfo
<1>7. \A k \in 1 .. EntryCount(i) : Entries(i)[k].it_len \in Nat
  <2> SUFFICES ASSUME NEW k \in 1 .. EntryCount(i) PROVE Entries(i)[k].it_len \in Nat
    OBVIOUS
  <2>1. CASE k <= P
    BY <1>1, <1>5, <2>1
  <2>2. CASE ~(k <= P)
    <3>1. k - P \in 1 .. U
      BY <1>1, <2>2
    <3> QED
      BY <1>1, <1>5, <2>2, <3>1
  <2> QED
    BY <2>1, <2>2
<1>8. \A k \in 1 .. EntryCount(i) + 1 : EntryOff(i, k) \in Nat
  <2> SUFFICES ASSUME NEW k \in 1 .. EntryCount(i) + 1 PROVE EntryOff(i, k) \in Nat
    OBVIOUS
  <2>1. CASE k <= P
    <3>1. k - 1 \in 0 .. P
      BY <1>1, <2>1
    <3> QED
      BY <1>2, <1>4, <2>1, <3>1 DEF SizeofInfo
  <2>2. CASE ~(k <= P)
    <3>1. k - P - 1 \in 0 .. U
      BY <1>1, <2>2
    <3> QED
      BY <1>2, <1>4, <1>6, <2>2, <3>1 DEF SizeofInfo
  <2> QED
    BY <2>1, <2>2
<1> QED
  BY <1>1, <1>6, <1>7, <1>8 DEF P

(* Behind an entry comes the next one, or the end of its section.          *)
LEMMA NextEntryOff ==
    ASSUME NEW i, IsArea(i), NEW k \in 1 .. EntryCount(i)
    PROVE  EntryOff(i, k) + SizeofTlv + Entries(i)[k].it_len =
              IF k = ProtCount(i) THEN ProtTot(i) ELSE EntryOff(i, k + 1)
<1> DEFINE P == ProtCount(i)
           U == Count(i.unprot)
           TP == Taken(i.prot)
           TU == Taken(i.unprot)
<1>1. /\ P \in Nat /\ U \in Nat /\ EntryCount(i) = P + U
      /\ \A j \in 1 .. P : i.prot[j].it_len \in Nat
      /\ \A j \in 1 .. U : i.unprot[j].it_len \in Nat
  BY AreaSections DEF IsSection, ProtCount, EntryCount
<1>2. /\ \A j \in 0 .. P : TP[j] \in Nat
      /\ \A j \in 1 .. P : TP[j] = TP[j - 1] + SizeofTlv + i.prot[j].it_len
      /\ \A j \in 0 .. U : TU[j] \in Nat
      /\ \A j \in 1 .. U : TU[j] = TU[j - 1] + SizeofTlv + i.unprot[j].it_len
  BY AreaSections, TakenFacts DEF ProtCount
<1>3. /\ ProtTot(i) = IF P = 0 THEN 0 ELSE SizeofInfo + TP[P]
      /\ ProtTot(i) \in Nat
  BY TotIs, Layout
<1>4. \A j : EntryOff(i, j) = IF j <= P THEN SizeofInfo + TP[j - 1]
                              ELSE ProtTot(i) + SizeofInfo + TU[j - P - 1]
  BY EntryOffIs
<1>5. Entries(i)[k] = IF k <= P THEN i.prot[k] ELSE i.unprot[k - P]
  BY EntriesFacts
<1> HIDE DEF P, U, TP, TU
<1>6. CASE k <= P
  <2>1. k \in 1 .. P /\ k - 1 \in 0 .. P /\ (k + 1) - 1 = k
    BY <1>1, <1>6
  <2>2. EntryOff(i, k) = SizeofInfo + TP[k - 1] /\ Entries(i)[k] = i.prot[k]
    BY <1>4, <1>5, <1>6
  <2>3. EntryOff(i, k) + SizeofTlv + Entries(i)[k].it_len = SizeofInfo + TP[k]
    BY <1>1, <1>2, <2>1, <2>2 DEF SizeofInfo, SizeofTlv
  <2>4. k # P => EntryOff(i, k + 1) = SizeofInfo + TP[k]
    <3> SUFFICES ASSUME k # P PROVE EntryOff(i, k + 1) = SizeofInfo + TP[k]
      OBVIOUS
    <3>1. k + 1 <= P
      BY <1>1, <2>1
    <3> QED
      BY <1>4, <2>1, <3>1
  <2>5. k = P => ProtTot(i) = SizeofInfo + TP[k]
    BY <1>1, <1>3, <2>1
  <2> QED
    BY <2>3, <2>4, <2>5 DEF P
<1>7. CASE ~(k <= P)
  <2>1. /\ k - P \in 1 .. U /\ k - P - 1 \in 0 .. U /\ (k + 1) - P - 1 = k - P
        /\ ~(k + 1 <= P) /\ k # P
    BY <1>1, <1>7
  <2>2. /\ EntryOff(i, k) = ProtTot(i) + SizeofInfo + TU[k - P - 1]
        /\ Entries(i)[k] = i.unprot[k - P]
    BY <1>4, <1>5, <1>7
  <2>3. EntryOff(i, k + 1) = ProtTot(i) + SizeofInfo + TU[k - P]
    BY <1>4, <2>1
  <2>4. /\ TU[k - P] = TU[k - P - 1] + SizeofTlv + i.unprot[k - P].it_len
        /\ TU[k - P - 1] \in Nat /\ i.unprot[k - P].it_len \in Nat
    BY <1>1, <1>2, <2>1
  <2>5. EntryOff(i, k) + SizeofTlv + Entries(i)[k].it_len = EntryOff(i, k + 1)
    BY <1>3, <2>2, <2>3, <2>4 DEF SizeofInfo, SizeofTlv
  <2> QED
    BY <2>1, <2>5 DEF P
<1> QED
  BY <1>6, <1>7

(* The entries lie one behind the other.                                   *)
LEMMA EntryOffIncreases ==
    ASSUME NEW i, IsArea(i),
           NEW j \in 1 .. EntryCount(i) + 1, NEW k \in 1 .. EntryCount(i) + 1, j < k
    PROVE  EntryOff(i, j) < EntryOff(i, k)
<1> DEFINE P == ProtCount(i)
           U == Count(i.unprot)
           TP == Taken(i.prot)
           TU == Taken(i.unprot)
<1>1. P \in Nat /\ U \in Nat /\ EntryCount(i) = P + U
  BY AreaSections DEF IsSection, ProtCount, EntryCount
<1>2. /\ \A n \in 0 .. P : TP[n] \in Nat
      /\ \A n \in 0 .. U : TU[n] \in Nat
  BY AreaSections, TakenFacts DEF ProtCount
<1>3. /\ \A m, n \in 0 .. P : m < n => TP[m] + SizeofTlv <= TP[n]
      /\ \A m, n \in 0 .. U : m < n => TU[m] + SizeofTlv <= TU[n]
  BY AreaSections, TakenIncreases DEF ProtCount
<1>4. /\ ProtTot(i) = IF P = 0 THEN 0 ELSE SizeofInfo + TP[P]
      /\ ProtTot(i) \in Nat
  BY TotIs, Layout
<1>5. \A n : EntryOff(i, n) = IF n <= P THEN SizeofInfo + TP[n - 1]
                              ELSE ProtTot(i) + SizeofInfo + TU[n - P - 1]
  BY EntryOffIs
<1> HIDE DEF P, U, TP, TU
<1>6. CASE k <= P
  <2>1. /\ j - 1 \in 0 .. P /\ k - 1 \in 0 .. P /\ j - 1 < k - 1 /\ j <= P
    BY <1>1, <1>6
  <2>2. TP[j - 1] \in Nat /\ TP[k - 1] \in Nat /\ TP[j - 1] + SizeofTlv <= TP[k - 1]
    BY <1>2, <1>3, <2>1
  <2> QED
    BY <1>5, <1>6, <2>1, <2>2 DEF SizeofInfo, SizeofTlv
<1>7. CASE j <= P /\ ~(k <= P)
  <2>1. /\ j - 1 \in 0 .. P /\ P \in 0 .. P /\ j - 1 < P /\ k - P - 1 \in 0 .. U /\ P # 0
    BY <1>1, <1>7
  <2>2. TP[j - 1] \in Nat /\ TP[P] \in Nat /\ TP[j - 1] + SizeofTlv <= TP[P]
    BY <1>2, <1>3, <2>1
  <2>3. TU[k - P - 1] \in Nat
    BY <1>2, <2>1
  <2> QED
    BY <1>4, <1>5, <1>7, <2>1, <2>2, <2>3 DEF SizeofInfo, SizeofTlv
<1>8. CASE ~(j <= P)
  <2>1. /\ j - P - 1 \in 0 .. U /\ k - P - 1 \in 0 .. U /\ j - P - 1 < k - P - 1
        /\ ~(k <= P)
    BY <1>1, <1>8
  <2>2. /\ TU[j - P - 1] \in Nat /\ TU[k - P - 1] \in Nat
        /\ TU[j - P - 1] + SizeofTlv <= TU[k - P - 1]
    BY <1>2, <1>3, <2>1
  <2> QED
    BY <1>4, <1>5, <1>8, <2>1, <2>2 DEF SizeofInfo, SizeofTlv
<1> QED
  BY <1>1, <1>6, <1>7, <1>8

(* The two ends that the iterator looks at.                                *)
LEMMA EntryOffEnds ==
    ASSUME NEW i, IsArea(i)
    PROVE  /\ EntryOff(i, 1) = SizeofInfo
           /\ EntryOff(i, ProtCount(i) + 1) = ProtTot(i) + SizeofInfo
           /\ EntryOff(i, EntryCount(i) + 1) = ProtTot(i) + UnprotTot(i)
<1> DEFINE P == ProtCount(i)
           U == Count(i.unprot)
           TP == Taken(i.prot)
           TU == Taken(i.unprot)
<1>1. P \in Nat /\ U \in Nat /\ EntryCount(i) = P + U
  BY AreaSections DEF IsSection, ProtCount, EntryCount
<1>2. TP[0] = 0 /\ TU[0] = 0 /\ \A n \in 0 .. U : TU[n] \in Nat
  BY AreaSections, TakenFacts
<1>4. /\ ProtTot(i) = IF P = 0 THEN 0 ELSE SizeofInfo + TP[P]
      /\ UnprotTot(i) = SizeofInfo + TU[U]
      /\ ProtTot(i) \in Nat
  BY TotIs, Layout
<1>5. \A n : EntryOff(i, n) = IF n <= P THEN SizeofInfo + TP[n - 1]
                              ELSE ProtTot(i) + SizeofInfo + TU[n - P - 1]
  BY EntryOffIs
<1> HIDE DEF U, TP, TU
<1>6. EntryOff(i, 1) = SizeofInfo
  <2>1. CASE 1 <= P
    BY <1>2, <1>5, <2>1 DEF SizeofInfo
  <2>2. CASE ~(1 <= P)
    <3>1. P = 0 /\ 1 - P - 1 = 0
      BY <1>1, <2>2
    <3> QED
      BY <1>2, <1>4, <1>5, <2>2, <3>1 DEF SizeofInfo
  <2> QED
    BY <2>1, <2>2
<1>7. EntryOff(i, P + 1) = ProtTot(i) + SizeofInfo
  <2>1. ~(P + 1 <= P) /\ (P + 1) - P - 1 = 0
    BY <1>1
  <2> QED
    BY <1>2, <1>4, <1>5, <2>1 DEF SizeofInfo
<1>8. EntryOff(i, EntryCount(i) + 1) = ProtTot(i) + UnprotTot(i)
  <2>1. ~(EntryCount(i) + 1 <= P) /\ (EntryCount(i) + 1) - P - 1 = U
    BY <1>1
  <2>2. TU[U] \in Nat
    BY <1>1, <1>2
  <2> QED
    BY <1>4, <1>5, <2>1, <2>2 DEF SizeofInfo
<1> QED
  BY <1>6, <1>7, <1>8 DEF P

(* At an entry's offset lies that entry and no other.                      *)
LEMMA PlacedAt ==
    ASSUME NEW i, IsArea(i), NEW k \in 1 .. EntryCount(i), NEW o, o = EntryOff(i, k)
    PROVE  /\ \E p \in Placed(i) : p.off = o
           /\ (CHOOSE p \in Placed(i) : p.off = o).tlv = Entries(i)[k]
<1> DEFINE E == EntryCount(i)
           p == [off |-> EntryOff(i, k), tlv |-> Entries(i)[k]]
<1>1. /\ E \in Nat /\ DOMAIN Entries(i) = 1 .. E
      /\ \A j \in 1 .. E + 1 : EntryOff(i, j) \in Nat
  BY Layout, EntriesFacts
<1>2. p \in Placed(i) /\ p.off = o
  BY <1>1 DEF Placed
<1> HIDE DEF p
<1>3. ASSUME NEW q \in Placed(i), q.off = o PROVE q.tlv = Entries(i)[k]
  <2>1. PICK j \in 1 .. E : q = [off |-> EntryOff(i, j), tlv |-> Entries(i)[j]]
    BY <1>1 DEF Placed
  <2>2. EntryOff(i, j) = EntryOff(i, k) /\ q.tlv = Entries(i)[j]
    BY <1>3, <2>1
  <2>3. j \in 1 .. E + 1 /\ k \in 1 .. E + 1 /\ EntryOff(i, j) \in Nat
    BY <1>1
  <2>4. ~(j < k) /\ ~(k < j)
    BY <1>1, <2>2, <2>3, EntryOffIncreases
  <2>5. j = k
    BY <1>1, <2>4
  <2> QED
    BY <2>2, <2>5
<1> DEFINE c == CHOOSE q \in Placed(i) : q.off = o
<1>4. c \in Placed(i) /\ c.off = o
  BY <1>2, Zenon
<1> HIDE DEF c
<1>5. c.tlv = Entries(i)[k]
  BY <1>3, <1>4, Zenon
<1> QED
  BY <1>2, <1>5, Zenon DEF c

-----------------------------------------------------------------------------
(* The iterator in front of the k-th entry, or of the end of the file.     *)

Reached(i, k) ==
    IF k = ProtCount(i) + 1 /\ ProtCount(i) # 0 THEN ProtTot(i) ELSE EntryOff(i, k)

IterAt(i, type, prot, k) ==
    [type |-> type, prot |-> prot,
     prot_end |-> ProtTot(i),
     tlv_end |-> ProtTot(i) + UnprotTot(i),
     tlv_off |-> Reached(i, k)]

LEMMA IterAtFields ==
    ASSUME NEW i, NEW type, NEW prot, NEW k
    PROVE  LET it == IterAt(i, type, prot, k)
           IN  /\ it.type = type /\ it.prot = prot
               /\ it.prot_end = ProtTot(i)
               /\ it.tlv_end = ProtTot(i) + UnprotTot(i)
               /\ it.tlv_off = Reached(i, k)
BY DEF IterAt

LEMMA IterTypes ==
    ASSUME NEW i, IsArea(i), NEW type, NEW prot, NEW k \in 1 .. EntryCount(i) + 1
    PROVE  LET it == IterAt(i, type, prot, k)
           IN  it.tlv_off \in Nat /\ it.prot_end \in Nat /\ it.tlv_end \in Nat
BY IterAtFields, Layout DEF Reached

(* file_tlv_iter_begin stands in front of the first entry.                 *)
LEMMA IterStarts ==
    ASSUME NEW i, IsArea(i), InfoOK(i), NEW type, NEW prot
    PROVE  file_tlv_iter_begin(i, type, prot) = IterAt(i, type, prot, 1)
<1>1. i.ih_protect_tlv_size = ProtTot(i)
  BY DEF InfoOK
<1>2. Reached(i, 1) = SizeofInfo
  BY EntryOffEnds, Layout DEF Reached
<1> QED
  BY <1>1, <1>2 DEF file_tlv_iter_begin, IterAt

(* The iterator finds the header of the entry it stands in front of, the   *)
(* first unprotected one behind its section's image_tlv_info.              *)
LEMMA IterHeaderOff ==
    ASSUME NEW i, IsArea(i), InfoOK(i), NEW type, NEW prot, NEW k \in 1 .. EntryCount(i) + 1
    PROVE  HeaderOff(i, IterAt(i, type, prot, k)) = EntryOff(i, k)
<1> DEFINE P == ProtCount(i)
<1>1. i.ih_protect_tlv_size = ProtTot(i)
  BY DEF InfoOK
<1>2. HeaderOff(i, IterAt(i, type, prot, k)) =
         IF ProtTot(i) > 0 /\ Reached(i, k) = ProtTot(i)
         THEN Reached(i, k) + SizeofInfo ELSE Reached(i, k)
  BY <1>1, IterAtFields DEF HeaderOff
<1>3. /\ P \in Nat /\ EntryCount(i) \in Nat /\ P <= EntryCount(i)
      /\ ProtTot(i) \in Nat /\ (ProtTot(i) = 0 <=> P = 0)
      /\ EntryOff(i, k) \in Nat
  BY Layout
<1>4. EntryOff(i, P + 1) = ProtTot(i) + SizeofInfo
  BY EntryOffEnds
<1>5. CASE P = 0
  BY <1>2, <1>3, <1>5 DEF Reached
<1>6. CASE P # 0 /\ k = P + 1
  BY <1>2, <1>3, <1>4, <1>6 DEF Reached
<1>7. CASE P # 0 /\ k <= P
  <2>1. EntryOff(i, k) < ProtTot(i)
    <3>1. P \in 1 .. EntryCount(i)
      BY <1>3, <1>7
    <3>2. EntryOff(i, P) + SizeofTlv + Entries(i)[P].it_len = ProtTot(i)
      BY <3>1, NextEntryOff
    <3>3. Entries(i)[P].it_len \in Nat /\ EntryOff(i, P) \in Nat
      BY <1>3, <3>1, Layout
    <3>4. k = P \/ EntryOff(i, k) < EntryOff(i, P)
      BY <1>3, <1>7, <3>1, EntryOffIncreases
    <3> HIDE DEF P
    <3> QED
      BY <1>3, <3>2, <3>3, <3>4 DEF SizeofTlv
  <2>2. Reached(i, k) = EntryOff(i, k)
    BY <1>3, <1>7 DEF Reached
  <2> QED
    BY <1>2, <1>3, <2>1, <2>2
<1>8. CASE P # 0 /\ k > P + 1
  <2>1. EntryOff(i, P + 1) < EntryOff(i, k)
    BY <1>3, <1>8, EntryOffIncreases
  <2>2. Reached(i, k) = EntryOff(i, k)
    BY <1>3, <1>8 DEF Reached
  <2> QED
    BY <1>2, <1>3, <1>4, <2>1, <2>2 DEF SizeofInfo
<1> QED
  BY <1>3, <1>5, <1>6, <1>7, <1>8

(* In front of an entry the iterator is not at the end, and loads it.      *)
LEMMA IterLoads ==
    ASSUME NEW i, IsArea(i), InfoOK(i), NEW type, NEW prot, NEW k \in 1 .. EntryCount(i)
    PROVE  LET it == IterAt(i, type, prot, k)
           IN  ~AtEnd(it) /\ Loads(i, it) /\ Tlv(i, it) = Entries(i)[k]
<1> DEFINE it == IterAt(i, type, prot, k)
           E  == EntryCount(i)
<1>1. /\ E \in Nat /\ ProtCount(i) \in Nat /\ ProtTot(i) \in Nat /\ UnprotTot(i) \in Nat
      /\ \A j \in 1 .. E + 1 : EntryOff(i, j) \in Nat
  BY Layout
<1>2. k \in 1 .. E + 1 /\ E + 1 \in 1 .. E + 1 /\ k < E + 1
  BY <1>1
<1>3. HeaderOff(i, it) = EntryOff(i, k)
  BY <1>2, IterHeaderOff
<1>4. ~AtEnd(it)
  <2>1. it.tlv_off = Reached(i, k) /\ it.tlv_end = ProtTot(i) + UnprotTot(i)
    BY IterAtFields
  <2>2. EntryOff(i, k) < ProtTot(i) + UnprotTot(i)
    BY <1>2, EntryOffIncreases, EntryOffEnds
  <2>3. Reached(i, k) <= EntryOff(i, k)
    BY <1>1, <1>2, EntryOffEnds DEF Reached, SizeofInfo
  <2>4. Reached(i, k) \in Nat
    BY <1>1, <1>2 DEF Reached
  <2> HIDE DEF it
  <2> QED
    BY <1>1, <1>2, <2>1, <2>2, <2>3, <2>4 DEF AtEnd
<1> HIDE DEF it
<1>5. Loads(i, it) /\ Tlv(i, it) = Entries(i)[k]
  <2> DEFINE o == HeaderOff(i, it)
  <2> HIDE DEF o
  <2>1. o = EntryOff(i, k)
    BY <1>3 DEF o
  <2>2. /\ \E p \in Placed(i) : p.off = o
        /\ (CHOOSE p \in Placed(i) : p.off = o).tlv = Entries(i)[k]
    BY <2>1, PlacedAt
  <2> QED
    BY <2>2, Zenon DEF Loads, Tlv, o
<1> QED
  BY <1>4, <1>5, Zenon DEF it

(* Behind the last entry it loads nothing.  It is at the end there, unless *)
(* the file has protected entries only: the unprotected section's          *)
(* image_tlv_info then lies between it and the end.                        *)
LEMMA IterEnds ==
    ASSUME NEW i, IsArea(i), InfoOK(i), NEW type, NEW prot
    PROVE  LET it == IterAt(i, type, prot, EntryCount(i) + 1)
           IN  /\ ~Loads(i, it)
               /\ AtEnd(it) <=> ProtCount(i) = 0 \/ ProtCount(i) < EntryCount(i)
<1> DEFINE E  == EntryCount(i)
           it == IterAt(i, type, prot, E + 1)
<1>1. /\ E \in Nat /\ ProtCount(i) \in Nat /\ ProtCount(i) <= E
      /\ ProtTot(i) \in Nat /\ UnprotTot(i) \in Nat
      /\ \A j \in 1 .. E + 1 : EntryOff(i, j) \in Nat
  BY Layout
<1>2. E + 1 \in 1 .. E + 1
  BY <1>1
<1>3. HeaderOff(i, it) = EntryOff(i, E + 1)
  BY <1>2, IterHeaderOff
<1>4. DOMAIN Entries(i) = 1 .. E
  BY EntriesFacts
<1>5. AtEnd(it) <=> ProtCount(i) = 0 \/ ProtCount(i) < E
  <2>1. it.tlv_off = Reached(i, E + 1) /\ it.tlv_end = ProtTot(i) + UnprotTot(i)
    BY IterAtFields
  <2>2. EntryOff(i, E + 1) = ProtTot(i) + UnprotTot(i)
    BY EntryOffEnds
  <2>3. ProtCount(i) = E => UnprotTot(i) = SizeofInfo
    BY <1>1, <2>2, EntryOffEnds DEF SizeofInfo
  <2> HIDE DEF it
  <2> QED
    BY <1>1, <2>1, <2>2, <2>3 DEF AtEnd, Reached, SizeofInfo
<1> HIDE DEF it
<1>6. ASSUME NEW q \in Placed(i), q.off = HeaderOff(i, it) PROVE FALSE
  <2>1. PICK j \in 1 .. E : q = [off |-> EntryOff(i, j), tlv |-> Entries(i)[j]]
    BY <1>4 DEF Placed
  <2>2. EntryOff(i, j) = EntryOff(i, E + 1)
    BY <1>3, <1>6, <2>1
  <2>3. j \in 1 .. E + 1 /\ j < E + 1 /\ EntryOff(i, j) \in Nat
    BY <1>1
  <2> QED
    BY <1>1, <1>2, <2>2, <2>3, EntryOffIncreases
<1>7. ~Loads(i, it)
  BY <1>6, Zenon DEF Loads
<1> QED
  BY <1>5, <1>7, Zenon DEF it, E

(* Passing an entry brings it in front of the next.                        *)
LEMMA IterPasses ==
    ASSUME NEW i, IsArea(i), InfoOK(i), NEW type, NEW prot, NEW k \in 1 .. EntryCount(i)
    PROVE  Passed(i, IterAt(i, type, prot, k)) = IterAt(i, type, prot, k + 1)
<1> DEFINE it == IterAt(i, type, prot, k)
<1>1. /\ EntryCount(i) \in Nat /\ ProtCount(i) \in Nat /\ (ProtTot(i) = 0 <=> ProtCount(i) = 0)
      /\ k \in 1 .. EntryCount(i) + 1
  BY Layout
<1>2. HeaderOff(i, it) = EntryOff(i, k) /\ Tlv(i, it) = Entries(i)[k]
  BY <1>1, IterHeaderOff, IterLoads
<1>3. EntryOff(i, k) + SizeofTlv + Entries(i)[k].it_len =
         IF k = ProtCount(i) THEN ProtTot(i) ELSE EntryOff(i, k + 1)
  BY NextEntryOff
<1>4. EntryOff(i, k) + SizeofTlv + Entries(i)[k].it_len = Reached(i, k + 1)
  BY <1>1, <1>3 DEF Reached
<1>5. Passed(i, it) = [it EXCEPT !.tlv_off = Reached(i, k + 1)]
  BY <1>2, <1>4 DEF Passed, PayloadOff
<1> QED
  BY <1>5 DEF IterAt

(* An entry counts as protected if it is, but for the last one of the      *)
(* protected section when it has no payload.                               *)
LEMMA IterProtected ==
    ASSUME NEW i, IsArea(i), InfoOK(i), NEW type, NEW prot, NEW k \in 1 .. EntryCount(i)
    PROVE  LET it == IterAt(i, type, prot, k)
           IN  /\ file_tlv_iter_is_prot(it, PayloadOff(i, it)) <=>
                     \/ k < ProtCount(i)
                     \/ k = ProtCount(i) /\ Entries(i)[k].it_len > 0
               /\ HeaderOff(i, it) >= it.prot_end <=> k > ProtCount(i)
<1> DEFINE it == IterAt(i, type, prot, k)
           P  == ProtCount(i)
           E  == EntryCount(i)
<1>1. /\ E \in Nat /\ P \in Nat /\ P <= E /\ k \in 1 .. E + 1
      /\ ProtTot(i) \in Nat
      /\ \A j \in 1 .. E : Entries(i)[j].it_len \in Nat
      /\ \A j \in 1 .. E + 1 : EntryOff(i, j) \in Nat
  BY Layout
<1>2. HeaderOff(i, it) = EntryOff(i, k) /\ it.prot_end = ProtTot(i)
  BY <1>1, IterHeaderOff, IterAtFields
<1>3. PayloadOff(i, it) = EntryOff(i, k) + SizeofTlv
  BY <1>2 DEF PayloadOff
<1>4. \A j \in 1 .. E : EntryOff(i, j) + SizeofTlv + Entries(i)[j].it_len =
         IF j = P THEN ProtTot(i) ELSE EntryOff(i, j + 1)
  BY NextEntryOff
<1>5. \A m, n \in 1 .. E + 1 : m < n => EntryOff(i, m) < EntryOff(i, n)
  BY EntryOffIncreases
<1>6. EntryOff(i, P + 1) = ProtTot(i) + SizeofInfo
  BY EntryOffEnds
<1> HIDE DEF it, P, E
<1>7. file_tlv_iter_is_prot(it, PayloadOff(i, it)) <=> EntryOff(i, k) + SizeofTlv < ProtTot(i)
  BY <1>2, <1>3 DEF file_tlv_iter_is_prot
<1>8. CASE k < P
  <2>1. k + 1 \in 1 .. E /\ P \in 1 .. E /\ k # P
    BY <1>1, <1>8
  <2>2. EntryOff(i, k) + SizeofTlv <= EntryOff(i, k + 1)
    BY <1>1, <1>4, <2>1 DEF SizeofTlv
  <2>3. EntryOff(i, k + 1) <= EntryOff(i, P)
    BY <1>1, <1>5, <1>8, <2>1
  <2>4. EntryOff(i, P) < ProtTot(i)
    BY <1>1, <1>4, <2>1 DEF SizeofTlv
  <2>5. EntryOff(i, k) \in Nat /\ EntryOff(i, k + 1) \in Nat /\ EntryOff(i, P) \in Nat
    BY <1>1, <2>1
  <2>6. EntryOff(i, k) + SizeofTlv < ProtTot(i)
    BY <1>1, <2>2, <2>3, <2>4, <2>5 DEF SizeofTlv
  <2>7. EntryOff(i, k) < ProtTot(i)
    BY <1>1, <2>5, <2>6 DEF SizeofTlv
  <2> QED
    BY <1>1, <1>2, <1>7, <1>8, <2>5, <2>6, <2>7 DEF it, P
<1>9. CASE k = P
  <2>1. EntryOff(i, k) + SizeofTlv + Entries(i)[k].it_len = ProtTot(i)
    BY <1>1, <1>4, <1>9
  <2>2. EntryOff(i, k) \in Nat /\ Entries(i)[k].it_len \in Nat
    BY <1>1 DEF E
  <2>3. EntryOff(i, k) + SizeofTlv < ProtTot(i) <=> Entries(i)[k].it_len > 0
    BY <1>1, <2>1, <2>2 DEF SizeofTlv
  <2>4. EntryOff(i, k) < ProtTot(i)
    BY <1>1, <2>1, <2>2 DEF SizeofTlv
  <2> QED
    BY <1>1, <1>2, <1>7, <1>9, <2>2, <2>3, <2>4 DEF it, P
<1>10. CASE k > P
  <2>1. EntryOff(i, P + 1) <= EntryOff(i, k)
    BY <1>1, <1>5, <1>10
  <2>2. EntryOff(i, k) >= ProtTot(i) /\ EntryOff(i, k) \in Nat
    BY <1>1, <1>6, <2>1 DEF SizeofInfo
  <2> QED
    BY <1>1, <1>2, <1>7, <1>10, <2>2 DEF it, P, SizeofTlv
<1> QED
  BY <1>1, <1>8, <1>9, <1>10 DEF it, P

=============================================================================
