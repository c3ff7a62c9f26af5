------------------------- MODULE ImageVersionProofs -------------------------
(***************************************************************************)
(* boot_version_cmp is a total preorder on all versions, whether or not    *)
(* the build number counts.                                                *)
(***************************************************************************)
EXTENDS ImageVersion, TLAPS

(* The verdict is one of three, and swapping the operands negates it.      *)
LEMMA Antisymmetric ==
    ASSUME NEW v \in ImageVersionType, NEW w \in ImageVersionType
    PROVE  /\ boot_version_cmp(v, w) \in {-1, 0, 1}
           /\ boot_version_cmp(w, v) = -boot_version_cmp(v, w)
BY UseBuildNumberAssumption DEF boot_version_cmp, compare, ImageVersionType

LEMMA Transitive ==
    ASSUME NEW u \in ImageVersionType, NEW v \in ImageVersionType, NEW w \in ImageVersionType,
           boot_version_cmp(u, v) >= 0, boot_version_cmp(v, w) >= 0
    PROVE  boot_version_cmp(u, w) >= 0
BY SMTT(60), UseBuildNumberAssumption DEF boot_version_cmp, compare, ImageVersionType

LEMMA EqualsAgree ==
    ASSUME NEW u \in ImageVersionType, NEW v \in ImageVersionType, NEW w \in ImageVersionType,
           boot_version_cmp(v, w) = 0
    PROVE  boot_version_cmp(u, v) = boot_version_cmp(u, w)
BY SMTT(60), UseBuildNumberAssumption DEF boot_version_cmp, compare, ImageVersionType

IInv == TypeOK /\ NeverOlder

LEMMA Inductive == Spec => []IInv
<1>1. Init => IInv
  <2> SUFFICES ASSUME Init PROVE IInv
    OBVIOUS
  <2>1. first \in ImageVersionType /\ ih_ver = first /\ first \in Versions
    BY VersionsAssumption DEF Init
  <2>2. boot_version_cmp(first, first) = 0
    BY <2>1, UseBuildNumberAssumption DEF boot_version_cmp, compare, ImageVersionType
  <2> QED
    BY <2>1, <2>2 DEF IInv, TypeOK, NeverOlder
<1>2. IInv /\ [Next]_vars => IInv'
  <2> SUFFICES ASSUME IInv, [Next]_vars PROVE IInv'
    OBVIOUS
  <2>1. CASE Next
    <3>1. PICK file \in Versions :
             boot_version_cmp(file, ih_ver) >= 0 /\ ih_ver' = file /\ first' = first
      BY <2>1 DEF Next, Accept
    <3>2. /\ first \in ImageVersionType /\ ih_ver \in ImageVersionType /\ file \in ImageVersionType
          /\ boot_version_cmp(ih_ver, first) >= 0
      BY VersionsAssumption DEF IInv, TypeOK, NeverOlder
    <3>3. boot_version_cmp(file, first) >= 0
      BY <3>1, <3>2, Transitive
    <3>4. TypeOK'
      BY <3>1 DEF IInv, TypeOK
    <3>5. NeverOlder'
      BY <3>1, <3>3 DEF NeverOlder
    <3> QED
      BY <3>4, <3>5 DEF IInv
  <2>2. CASE UNCHANGED vars
    BY <2>2 DEF vars, IInv, TypeOK, NeverOlder
  <2> QED
    BY <2>1, <2>2 DEF Next
<1> QED
  BY <1>1, <1>2, PTL DEF Spec

(* Comparing each update with its predecessor is enough.                   *)
THEOREM VersionsNeverGoDown == Spec => []NeverOlder
<1>1. IInv => NeverOlder
  BY DEF IInv
<1> QED
  BY <1>1, Inductive, PTL

(* boot_version_cmp is antisymmetric and a congruence.                     *)
THEOREM ComparisonIsConsistent == Spec => []Consistent
<1>1. IInv => Consistent
  <2> SUFFICES ASSUME IInv PROVE Consistent
    OBVIOUS
  <2>1. first \in ImageVersionType /\ ih_ver \in ImageVersionType
    BY VersionsAssumption DEF IInv, TypeOK
  <2>2. boot_version_cmp(first, ih_ver) = -boot_version_cmp(ih_ver, first)
    BY <2>1, Antisymmetric
  <2>3. ASSUME boot_version_cmp(first, ih_ver) = 0, NEW v \in Versions
        PROVE  boot_version_cmp(v, first) = boot_version_cmp(v, ih_ver)
    BY <2>1, <2>3, EqualsAgree, VersionsAssumption
  <2> QED
    BY <2>2, <2>3 DEF Consistent
<1> QED
  BY <1>1, Inductive, PTL

=============================================================================
