---------------------------- MODULE ImageVersion ----------------------------
(***************************************************************************)
(* The version numbers of MCUboot images and the order boot_version_cmp    *)
(* puts them in, with a copy of MCUboot that only ever accepts a file      *)
(* whose version does not compare below its own.  FwImages reduces a       *)
(* version to a natural number: the order is all it uses.                  *)
(***************************************************************************)
EXTENDS Integers

CONSTANTS
    Versions,         \* the versions that occur
    UseBuildNumber    \* is MCUBOOT_VERSION_CMP_USE_BUILD_NUMBER defined?

ImageVersionType == [iv_major : Nat, iv_minor : Nat, iv_revision : Nat, iv_build_num : Nat]

ASSUME VersionsAssumption == Versions \subseteq ImageVersionType
ASSUME UseBuildNumberAssumption == UseBuildNumber \in BOOLEAN

-----------------------------------------------------------------------------

(* Faulty: a lower major number does not settle the comparison.            *)
MinorDecides(v, w) ==
    CASE v.iv_major # w.iv_major /\ v.iv_major > w.iv_major -> 1
      [] v.iv_minor # w.iv_minor                            -> IF v.iv_minor > w.iv_minor THEN 1 ELSE -1
      [] v.iv_revision # w.iv_revision                      -> IF v.iv_revision > w.iv_revision THEN 1 ELSE -1
      [] OTHER                                              -> 0

compare(m, n) == IF m > n THEN 1 ELSE IF m < n THEN -1 ELSE 0

boot_version_cmp(v, w) ==
    IF v.iv_major # w.iv_major THEN compare(v.iv_major, w.iv_major)
    ELSE IF v.iv_minor # w.iv_minor THEN compare(v.iv_minor, w.iv_minor)
    ELSE IF v.iv_revision # w.iv_revision THEN compare(v.iv_revision, w.iv_revision)
    ELSE IF UseBuildNumber THEN compare(v.iv_build_num, w.iv_build_num)
    ELSE 0

-----------------------------------------------------------------------------

VARIABLES
    first,   \* the version the device was made with
    ih_ver   \* the version it has now

vars == <<first, ih_ver>>

TypeOK == first \in Versions /\ ih_ver \in Versions

Init == first \in Versions /\ ih_ver = first

(* version_check in check_downgrade_prevention.                            *)
Accept ==
    \E file \in Versions :
        /\ boot_version_cmp(file, ih_ver) >= 0
        /\ ih_ver' = file
        /\ UNCHANGED first

Next == Accept
Spec == Init /\ [][Next]_vars

-----------------------------------------------------------------------------

(* However many updates are accepted, each compared with its predecessor   *)
(* only, the version never compares below the one the device began with.   *)
NeverOlder == boot_version_cmp(ih_ver, first) >= 0

(* Swapping the two versions swaps the verdict, and versions that compare  *)
(* equal are interchangeable.                                              *)
Consistent ==
    /\ boot_version_cmp(first, ih_ver) = -boot_version_cmp(ih_ver, first)
    /\ boot_version_cmp(first, ih_ver) = 0 =>
           \A v \in Versions : boot_version_cmp(v, first) = boot_version_cmp(v, ih_ver)

=============================================================================
