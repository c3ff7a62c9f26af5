---------------------------- MODULE TlvIterProofs ----------------------------
(***************************************************************************)
(* What a walk of file_tlv.c's iterator returns, of files with any number  *)
(* of entries of any types and lengths.                                    *)
(*                                                                         *)
(* The inductive invariant: the iterator stands in front of the k-th entry *)
(* and the caller has got those asked for of the k - 1 before it.  What the*)
(* iterator does there is in FileTlvProofs; what is left is how the list   *)
(* grows, of which no length is needed.                                    *)
(***************************************************************************)
EXTENDS TlvIter, FileTlvProofs

NoneYet   == <<>>
Add(s, e) == Append(s, e)

(* What Kept makes of the list so far at the n-th entry.                   *)
Longer(es, t, n, list) == IF t \in {AnyType, es[n].it_type} THEN Add(list, es[n]) ELSE list

Keeps(es, t, n, f) == f = [k \in 0 .. n |-> IF k = 0 THEN NoneYet ELSE Longer(es, t, k, f[k - 1])]

N == Count(Searched)

Standing(k) == it = IterAt(image, type, prot, k) /\ found = Kept(Searched, type)[k - 1]

IInv ==
    /\ image \in Areas /\ prot \in BOOLEAN
    /\ pc \in {"begin", "next", "done"}
    /\ pc = "begin" => found = NoneYet
    /\ pc = "next" => InfoOK(image) /\ \E k \in 1 .. N + 1 : Standing(k)
    /\ pc = "done" =>
          /\ \E k \in 1 .. N + 1 : found = Kept(Searched, type)[k - 1]
          /\ clean /\ InfoOK(image) /\ Count(image.unprot) # 0 =>
                rc = 1 /\ found = Kept(Searched, type)[N]

-----------------------------------------------------------------------------

LEMMA KeptIs ==
    ASSUME NEW es, NEW t
    PROVE  Kept(es, t) = CHOOSE f : Keeps(es, t, Count(es), f)
BY Zenon DEF Kept, Keeps, Longer, Add, NoneYet, Count

LEMMA KeepsExists ==
    ASSUME NEW es, NEW t, Count(es) \in Nat
    PROVE  \E f : Keeps(es, t, Count(es), f)
<1> DEFINE S == {n \in Nat : \E f : Keeps(es, t, n, f)}
<1>1. 0 \in S
  <2> DEFINE f == [k \in 0 .. 0 |-> NoneYet]
  <2>1. f = [k \in 0 .. 0 |-> IF k = 0 THEN NoneYet ELSE Longer(es, t, k, f[k - 1])]
    OBVIOUS
  <2> HIDE DEF f
  <2>2. Keeps(es, t, 0, f)
    BY <2>1 DEF Keeps
  <2> QED
    BY <2>2
<1>2. ASSUME NEW n \in Nat, n \in S PROVE n + 1 \in S
  <2>1. PICK f : Keeps(es, t, n, f)
    BY <1>2
  <2>2. f = [k \in 0 .. n |-> IF k = 0 THEN NoneYet ELSE Longer(es, t, k, f[k - 1])]
    BY <2>1 DEF Keeps
  <2> DEFINE g == [k \in 0 .. n + 1 |-> IF k = n + 1 THEN Longer(es, t, n + 1, f[n]) ELSE f[k]]
  <2>3. \A k \in 0 .. n : g[k] = f[k]
    OBVIOUS
  <2>4. g[n + 1] = Longer(es, t, n + 1, f[n])
    OBVIOUS
  <2>5. \A k \in 0 .. n : f[k] = IF k = 0 THEN NoneYet ELSE Longer(es, t, k, f[k - 1])
    BY <2>2
  <2>6. g = [k \in 0 .. n + 1 |-> g[k]]
    OBVIOUS
  <2> HIDE DEF g
  <2>7. \A k \in 0 .. n + 1 : g[k] = IF k = 0 THEN NoneYet ELSE Longer(es, t, k, g[k - 1])
    <3> SUFFICES ASSUME NEW k \in 0 .. n + 1
                 PROVE  g[k] = IF k = 0 THEN NoneYet ELSE Longer(es, t, k, g[k - 1])
      OBVIOUS
    <3>1. CASE k = n + 1
      <4>1. k # 0 /\ k - 1 = n /\ n \in 0 .. n
        BY <3>1
      <4> QED
        BY <2>3, <2>4, <3>1, <4>1
    <3>2. CASE k = 0
      BY <2>3, <2>5, <3>2
    <3>3. CASE k \in 1 .. n
      <4>1. k \in 0 .. n /\ k - 1 \in 0 .. n /\ k # 0
        BY <3>3
      <4> QED
        BY <2>3, <2>5, <4>1
    <3> QED
      BY <3>1, <3>2, <3>3
  <2>8. g = [k \in 0 .. n + 1 |-> IF k = 0 THEN NoneYet ELSE Longer(es, t, k, g[k - 1])]
    BY <2>6, <2>7
  <2>9. Keeps(es, t, n + 1, g)
    BY <2>8 DEF Keeps
  <2> QED
    BY <2>9
<1>3. Nat \subseteq S
  BY <1>1, <1>2, SetInduction
<1> QED
  BY <1>3

LEMMA KeptFacts ==
    ASSUME NEW es, NEW t, Count(es) \in Nat
    PROVE  /\ Kept(es, t)[0] = NoneYet
           /\ \A k \in 1 .. Count(es) : Kept(es, t)[k] = Longer(es, t, k, Kept(es, t)[k - 1])
<1> DEFINE K == Kept(es, t)
<1>1. Keeps(es, t, Count(es), K)
  BY KeptIs, KeepsExists, Zenon
<1> HIDE DEF K
<1>2. K = [k \in 0 .. Count(es) |-> IF k = 0 THEN NoneYet ELSE Longer(es, t, k, K[k - 1])]
  BY <1>1 DEF Keeps
<1>3. \A k \in 0 .. Count(es) : K[k] = IF k = 0 THEN NoneYet ELSE Longer(es, t, k, K[k - 1])
  BY <1>2
<1>4. K[0] = NoneYet /\ \A k \in 1 .. Count(es) : K[k] = Longer(es, t, k, K[k - 1])
  BY <1>3
<1> QED
  BY <1>4 DEF K

(* What is searched is a part of the file's entries, from the first one on.*)
LEMMA SearchedFacts ==
    ASSUME image \in Areas, prot \in BOOLEAN
    PROVE  /\ IsArea(image)
           /\ N = IF prot THEN ProtCount(image) ELSE EntryCount(image)
           /\ N \in Nat /\ N <= EntryCount(image)
           /\ \A k \in 1 .. N : Searched[k] = Entries(image)[k]
<1>1. IsArea(image)
  BY AreasAssumption
<1>2. /\ ProtCount(image) \in Nat /\ EntryCount(image) \in Nat
      /\ ProtCount(image) <= EntryCount(image)
  BY <1>1, Layout
<1>3. N = IF prot THEN ProtCount(image) ELSE EntryCount(image)
  BY <1>1, EntriesFacts, Zenon DEF N, Searched, ProtCount
<1>4. \A k \in 1 .. EntryCount(image) :
         k <= ProtCount(image) => Entries(image)[k] = image.prot[k]
  BY <1>1, EntriesFacts
<1>5. CASE prot
  BY <1>1, <1>2, <1>3, <1>4, <1>5 DEF Searched
<1>6. CASE ~prot
  BY <1>1, <1>2, <1>3, <1>6 DEF Searched
<1> QED
  BY <1>5, <1>6

-----------------------------------------------------------------------------

LEMMA Framed ==
    ASSUME UNCHANGED args
    PROVE  /\ image' = image /\ type' = type /\ prot' = prot
           /\ Searched' = Searched /\ N' = N
BY DEF args, Searched, N

LEMMA IInvInit == Init => IInv
BY Zenon DEF Init, IInv, NoneYet

LEMMA BeginKeeps == IInv /\ Begin => IInv'
<1> SUFFICES ASSUME IInv, Begin PROVE IInv'
  OBVIOUS
<1>1. /\ UNCHANGED args /\ InfoOK(image) /\ pc' = "next" /\ found' = NoneYet
      /\ it' = file_tlv_iter_begin(image, type, prot)
      /\ image \in Areas /\ prot \in BOOLEAN
  BY DEF Begin, IInv
<1>2. /\ image' = image /\ type' = type /\ prot' = prot
      /\ Searched' = Searched /\ N' = N
  BY <1>1, Framed
<1>3. IsArea(image) /\ N \in Nat
  BY <1>1, SearchedFacts
<1>4. it' = IterAt(image, type, prot, 1)
  BY <1>1, <1>3, IterStarts
<1>5. Kept(Searched, type)[0] = NoneYet
  BY <1>3, KeptFacts DEF N
<1>6. 1 \in 1 .. N + 1 /\ 1 - 1 = 0
  BY <1>3
<1>7. Standing(1)'
  BY <1>1, <1>2, <1>4, <1>5, <1>6 DEF Standing
<1> QED
  BY <1>1, <1>2, <1>6, <1>7 DEF IInv

(* Where the iterator stands in front of an entry that is searched it      *)
(* loads it, and behind the last of them it stops: at the end, at the first*)
(* unprotected entry, or with nothing left to load.                        *)
LEMMA AtStand ==
    ASSUME image \in Areas, prot \in BOOLEAN, InfoOK(image), NEW k \in 1 .. N + 1, Standing(k)
    PROVE  /\ k \in 1 .. N =>
                 /\ ~AtEnd(it) /\ Loads(image, it) /\ ~PastProtected(image, it)
                 /\ Tlv(image, it) = Searched[k]
                 /\ Passed(image, it) = IterAt(image, type, prot, k + 1)
           /\ k = N + 1 =>
                 /\ AtEnd(it) \/ ~Loads(image, it) \/ PastProtected(image, it)
                 /\ ~AtEnd(it) /\ ~Loads(image, it) => Count(image.unprot) = 0
<1> DEFINE E == EntryCount(image)
<1>1. /\ IsArea(image) /\ N \in Nat /\ N <= E
      /\ N = IF prot THEN ProtCount(image) ELSE E
      /\ \A j \in 1 .. N : Searched[j] = Entries(image)[j]
      /\ E \in Nat
  BY SearchedFacts, Layout
<1>2. it = IterAt(image, type, prot, k) /\ it.prot = prot
  BY IterAtFields DEF Standing
<1>3. ASSUME k \in 1 .. E
      PROVE  /\ ~AtEnd(it) /\ Loads(image, it) /\ Tlv(image, it) = Entries(image)[k]
             /\ PastProtected(image, it) <=> prot /\ k > ProtCount(image)
             /\ Passed(image, it) = IterAt(image, type, prot, k + 1)
  <2>1. ~AtEnd(it) /\ Loads(image, it) /\ Tlv(image, it) = Entries(image)[k]
    BY <1>1, <1>2, <1>3, IterLoads
  <2>2. HeaderOff(image, it) >= it.prot_end <=> k > ProtCount(image)
    BY <1>1, <1>2, <1>3, IterProtected
  <2>3. PastProtected(image, it) <=> prot /\ k > ProtCount(image)
    BY <1>2, <2>2 DEF PastProtected
  <2>4. Passed(image, it) = IterAt(image, type, prot, k + 1)
    BY <1>1, <1>2, <1>3, IterPasses
  <2> QED
    BY <2>1, <2>3, <2>4
<1>4. ASSUME k \in 1 .. N
      PROVE  /\ ~AtEnd(it) /\ Loads(image, it) /\ ~PastProtected(image, it)
             /\ Tlv(image, it) = Searched[k]
             /\ Passed(image, it) = IterAt(image, type, prot, k + 1)
  <2>1. k \in 1 .. E /\ (prot => ~(k > ProtCount(image)))
    BY <1>1, <1>4
  <2> QED
    BY <1>1, <1>3, <1>4, <2>1
<1>5. ASSUME k = N + 1
      PROVE  /\ AtEnd(it) \/ ~Loads(image, it) \/ PastProtected(image, it)
             /\ ~AtEnd(it) /\ ~Loads(image, it) => Count(image.unprot) = 0
  <2>1. CASE k \in 1 .. E
    <3>1. prot /\ k > ProtCount(image)
      BY <1>1, <1>5, <2>1
    <3> QED
      BY <1>3, <2>1, <3>1
  <2>2. CASE k = E + 1
    <3>1. /\ ~Loads(image, it)
          /\ AtEnd(it) <=> ProtCount(image) = 0 \/ ProtCount(image) < E
      BY <1>1, <1>2, <2>2, IterEnds
    <3>2. /\ E = ProtCount(image) + Count(image.unprot)
          /\ ProtCount(image) \in Nat /\ Count(image.unprot) \in Nat
      BY <1>1, AreaSections DEF EntryCount, ProtCount, IsSection
    <3> QED
      BY <3>1, <3>2
  <2> QED
    BY <1>1, <1>5, <2>1, <2>2
<1> QED
  BY <1>4, <1>5

LEMMA VisitKeeps == IInv /\ Visit => IInv'
<1> SUFFICES ASSUME IInv, Visit PROVE IInv'
  OBVIOUS
<1>1. /\ UNCHANGED args /\ pc = "next" /\ pc' = "next"
      /\ ~AtEnd(it) /\ Loads(image, it) /\ ~PastProtected(image, it)
      /\ it' = Passed(image, it)
      /\ found' = IF Wanted(it, Tlv(image, it)) THEN Add(found, Tlv(image, it)) ELSE found
      /\ image \in Areas /\ prot \in BOOLEAN /\ InfoOK(image)
  BY Zenon DEF Visit, IInv, Add
<1>2. /\ image' = image /\ type' = type /\ prot' = prot
      /\ Searched' = Searched /\ N' = N
  BY <1>1, Framed
<1>3. PICK k \in 1 .. N + 1 : Standing(k)
  BY <1>1 DEF IInv
<1>4. N \in Nat
  BY <1>1, SearchedFacts
<1>5. k \in 1 .. N
  <2>1. k # N + 1
    BY <1>1, <1>3, AtStand
  <2> QED
    BY <1>4, <2>1
<1>6. Tlv(image, it) = Searched[k] /\ it' = IterAt(image, type, prot, k + 1)
  BY <1>1, <1>3, <1>5, AtStand
<1>7. it.type = type
  BY <1>3, IterAtFields DEF Standing
<1>8. found' = Longer(Searched, type, k, found)
  BY <1>1, <1>6, <1>7 DEF Wanted, Longer
<1>9. found' = Kept(Searched, type)[k]
  BY <1>3, <1>4, <1>5, <1>8, KeptFacts DEF Standing, N
<1>10. k + 1 \in 1 .. N + 1 /\ (k + 1) - 1 = k
  BY <1>4, <1>5
<1>11. Standing(k + 1)'
  BY <1>2, <1>6, <1>9, <1>10 DEF Standing
<1> QED
  BY <1>1, <1>2, <1>10, <1>11 DEF IInv

LEMMA NoMoreKeeps == IInv /\ NoMore => IInv'
<1> SUFFICES ASSUME IInv, NoMore PROVE IInv'
  OBVIOUS
<1>1. /\ UNCHANGED args /\ pc = "next" /\ pc' = "done" /\ rc' = 1 /\ found' = found
      /\ AtEnd(it) \/ PastProtected(image, it)
      /\ image \in Areas /\ prot \in BOOLEAN /\ InfoOK(image)
  BY DEF NoMore, Return, IInv
<1>2. /\ image' = image /\ type' = type /\ prot' = prot
      /\ Searched' = Searched /\ N' = N
  BY <1>1, Framed
<1>3. PICK k \in 1 .. N + 1 : Standing(k)
  BY <1>1 DEF IInv
<1>4. N \in Nat
  BY <1>1, SearchedFacts
<1>5. k = N + 1
  <2>1. k \notin 1 .. N
    BY <1>1, <1>3, AtStand
  <2> QED
    BY <1>4, <2>1
<1>6. found' = Kept(Searched, type)[k - 1] /\ k - 1 = N
  BY <1>1, <1>3, <1>4, <1>5 DEF Standing
<1> QED
  BY <1>1, <1>2, <1>3, <1>6 DEF IInv

LEMMA NothingToLoadKeeps == IInv /\ NothingToLoad => IInv'
<1> SUFFICES ASSUME IInv, NothingToLoad PROVE IInv'
  OBVIOUS
<1>1. /\ UNCHANGED args /\ pc = "next" /\ pc' = "done" /\ found' = found
      /\ ~AtEnd(it) /\ ~Loads(image, it)
      /\ image \in Areas /\ prot \in BOOLEAN /\ InfoOK(image)
  BY DEF NothingToLoad, Return, IInv
<1>2. /\ image' = image /\ type' = type /\ prot' = prot
      /\ Searched' = Searched /\ N' = N
  BY <1>1, Framed
<1>3. PICK k \in 1 .. N + 1 : Standing(k)
  BY <1>1 DEF IInv
<1>4. k = N + 1
  <2>1. k \notin 1 .. N
    BY <1>1, <1>3, AtStand
  <2>2. N \in Nat
    BY <1>1, SearchedFacts
  <2> QED
    BY <2>1, <2>2
<1>5. Count(image.unprot) = 0
  BY <1>1, <1>3, <1>4, AtStand
<1>6. found' = Kept(Searched, type)[k - 1]
  BY <1>1, <1>3 DEF Standing
<1> QED
  BY <1>1, <1>2, <1>3, <1>5, <1>6 DEF IInv

(* Ends of which FindsAll asks nothing.                                    *)
LEMMA GivesUpKeeps == IInv /\ (BeginRefuses \/ ReadFails) => IInv'
<1> SUFFICES ASSUME IInv, BeginRefuses \/ ReadFails PROVE IInv'
  OBVIOUS
<1>1. /\ UNCHANGED args /\ pc \in {"begin", "next"} /\ pc' = "done" /\ found' = found
      /\ ~InfoOK(image) \/ ~clean'
      /\ image \in Areas /\ prot \in BOOLEAN
  BY DEF BeginRefuses, ReadFails, Return, IInv
<1>2. /\ image' = image /\ type' = type /\ prot' = prot
      /\ Searched' = Searched /\ N' = N
  BY <1>1, Framed
<1>3. N \in Nat
  BY <1>1, SearchedFacts
<1>4. \E k \in 1 .. N + 1 : found = Kept(Searched, type)[k - 1]
  <2>1. CASE pc = "begin"
    <3>1. found = Kept(Searched, type)[0]
      BY <1>3, <2>1, KeptFacts DEF IInv, N
    <3>2. 1 \in 1 .. N + 1 /\ 1 - 1 = 0
      BY <1>3
    <3> QED
      BY <3>1, <3>2
  <2>2. CASE pc = "next"
    BY <2>2 DEF IInv, Standing
  <2> QED
    BY <1>1, <2>1, <2>2
<1> QED
  BY <1>1, <1>2, <1>4 DEF IInv

LEMMA IInvStep == IInv /\ [Next]_vars => IInv'
<1> SUFFICES ASSUME IInv, [Next]_vars PROVE IInv'
  OBVIOUS
<1>1. CASE UNCHANGED vars
  <2>1. UNCHANGED args /\ pc' = pc /\ it' = it /\ found' = found /\ rc' = rc /\ clean' = clean
    BY <1>1 DEF vars, args
  <2>2. /\ image' = image /\ type' = type /\ prot' = prot
        /\ Searched' = Searched /\ N' = N
    BY <2>1, Framed
  <2> QED
    BY <2>1, <2>2 DEF IInv, Standing
<1>2. CASE Next
  BY <1>2, BeginKeeps, VisitKeeps, NoMoreKeeps, NothingToLoadKeeps, GivesUpKeeps DEF Next, Walk
<1> QED
  BY <1>1, <1>2

(* What the theorems below rest on: what the caller has got and where the  *)
(* iterator stands always fit together as IInv says.                       *)
THEOREM Inductive == Spec => []IInv
BY IInvInit, IInvStep, PTL DEF Spec

(* However many entries there are, of whatever types and lengths, and      *)
(* whichever read fails: the caller has got the entries asked for among    *)
(* the first so many, in order and each once, and none from elsewhere.     *)
THEOREM WalkIsInOrder == Spec => []FindsInOrder
<1>1. IInv => FindsInOrder
  <2> SUFFICES ASSUME IInv PROVE \E n \in 0 .. N : found = Kept(Searched, type)[n]
    BY Zenon DEF FindsInOrder, N, Count
  <2>1. N \in Nat
    BY SearchedFacts DEF IInv
  <2>2. \E k \in 1 .. N + 1 : found = Kept(Searched, type)[k - 1]
    <3>1. CASE pc = "begin"
      <4>1. found = Kept(Searched, type)[0]
        BY <2>1, <3>1, KeptFacts DEF IInv, N
      <4>2. 1 \in 1 .. N + 1 /\ 1 - 1 = 0
        BY <2>1
      <4> QED
        BY <4>1, <4>2
    <3>2. CASE pc # "begin"
      BY <3>2 DEF IInv, Standing
    <3> QED
      BY <3>1, <3>2
  <2>3. PICK k \in 1 .. N + 1 : found = Kept(Searched, type)[k - 1]
    BY <2>2
  <2>4. k - 1 \in 0 .. N
    BY <2>1
  <2> QED
    BY <2>3, <2>4
<1> QED
  BY <1>1, Inductive, PTL

(* A walk of a well-formed file with an unprotected entry that no failing  *)
(* read cuts short returns 1 in the end, after all the entries asked for.  *)
THEOREM WalkIsComplete == Spec => []FindsAll
<1>1. IInv => FindsAll
  <2>1. ASSUME IInv, pc = "done", clean, InfoOK(image), Count(image.unprot) # 0
        PROVE  rc = 1 /\ found = Kept(Searched, type)[N]
    BY <2>1 DEF IInv
  <2>2. ASSUME IInv, image.unprot # <<>> PROVE Count(image.unprot) # 0
    <3>1. IsArea(image)
      BY <2>2, AreasAssumption, Zenon DEF IInv
    <3> QED
      BY <2>2, <3>1, AreaEmpty, Zenon
  <2> QED
    BY <2>1, <2>2, Zenon DEF FindsAll, Expected, N, Count
<1> QED
  BY <1>1, Inductive, PTL

=============================================================================
