------------------------------ MODULE FwImages ------------------------------
(***************************************************************************)
(* Firmware images, the partitions they are installed in, and the checks   *)
(* mcuboot_fw_update.c makes on an update file before it touches a         *)
(* partition.  A check is an operator on an image: what an image contains  *)
(* is reduced to the facts the checks tell apart.                          *)
(***************************************************************************)
EXTENDS Integers

CONSTANTS
    Images,               \* every image a file or a partition can hold
    HwNames,              \* hardware revision names a TLV can carry
    DowngradePrevention,  \* is MCUBOOT_DOWNGRADE_PREVENTION defined?
    Garbage,              \* g_shared_img_buf when it holds no image
    Prefix                \* <<i, j>>: the file i is where j was cut short, in its body

Slots == {"s0", "s1"}                      \* the two copies of MCUboot
Parts == Slots \cup {"primary", "secondary"}
Files == {"mcuboot0", "mcuboot1", "loader", "app"}

NoHw   == "none"    \* hw_rev_name[0] = '\0': the image has no HW revision TLV
NoInfo == -1        \* no fw_info structure at any of the allowed offsets

(* link   the partition its vector table and its fw_info.address point into *)
(* b0     bl_validate_firmware accepts it (B0's key, whole and unmodified)  *)
(* sig    file_img_validate accepts it (MCUboot's key, whole, unmodified)   *)
(* hdr    it starts with a bootable MCUboot header that fits the partition  *)
(* fits   the whole file, trailer included, fits in the partition           *)
(* hwid   its hardware id TLV is the board its code was built for           *)
(* verok  its header version is the one compiled into its code              *)
(* hw, info, ver   hw_rev_name, fw_info.version and ih_ver                  *)
ImageType ==
    [link : Parts, b0 : BOOLEAN, sig : BOOLEAN, hdr : BOOLEAN, fits : BOOLEAN,
     hwid : BOOLEAN, verok : BOOLEAN, hw : HwNames \cup {NoHw}, info : Nat \cup {NoInfo}, ver : Nat]

ASSUME ImagesAssumption == Images \subseteq ImageType
ASSUME DowngradeAssumption == DowngradePrevention \in BOOLEAN
ASSUME GarbageAssumption == Garbage \notin Images

(* A file cut within the image's body is shorter than its header says, and *)
(* without the bytes that B0's and MCUboot's signatures are over.          *)
ASSUME PrefixAssumption ==
    /\ Prefix \subseteq Images \X Images
    /\ \A e \in Prefix : ~e[1].hdr /\ ~e[1].b0 /\ ~e[1].sig

-----------------------------------------------------------------------------

(* What B0 asks of an image, wherever it is: in a partition of B0's own,   *)
(* or in the buffer that MCUboot reads a file into.                        *)
B0Accepts(i, p) ==
    /\ i.info # NoInfo
    /\ i.link = p
    /\ i.b0

(* A file i read into a buffer that held b.  The buffer is not cleared: a  *)
(* file that was cut short is completed by the image it is a part of.      *)
ReadOver(i, b) == IF <<i, b>> \in Prefix THEN b ELSE i

(* The verdict is on the buffer, to the end that the image in it gives     *)
(* itself, and not on what was read last.                                  *)
validate_b0_signature(b, p) == b # Garbage /\ B0Accepts(b, p)

validate_file(i, p) ==
    /\ i.hdr
    /\ i.link = p
    /\ i.sig

(* For a copy of MCUboot only B0's signature counts: MCUboot's is tried    *)
(* and a failure is logged.  check_file falls back on nothing else.        *)
(* b is the shared buffer once the file i has been read.                   *)
check_file(i, b, p) ==
    IF p \in Slots THEN validate_b0_signature(b, p) ELSE validate_file(i, p)

(* What check_file is after: the file is itself an image for p.            *)
Verified(i, p) == IF p \in Slots THEN B0Accepts(i, p) ELSE validate_file(i, p)

(* What validate_file leaves in the caller's zeroed header and hw_rev when *)
(* it stops early: the header is copied out before the reset address is    *)
(* checked, the hardware revision is read after it.  hdr tells whether the *)
(* header could be read at all.                                            *)
VersionSeen(i, hdr) == IF hdr /\ i.hdr THEN i.ver ELSE 0
HwNameSeen(i, p, hdr) == IF hdr /\ i.hdr /\ i.link = p THEN i.hw ELSE NoHw

(* Faulty: the name is not compared at all.                                *)
AnyHwName(hw, seen) == TRUE

(* An MCUboot that knows no name of its own accepts every hardware.        *)
HwNameMatches(hw, seen) == hw = NoHw \/ seen = hw

boot_version_cmp(a, b) == IF a > b THEN 1 ELSE IF a < b THEN -1 ELSE 0

(* file: the version in the file; running: the version compiled into the   *)
(* MCUboot that runs.  The first comparison is of the file with itself.    *)
check_downgrade_prevention(p, dstHdrLoads, file, running) ==
    LET rc            == boot_version_cmp(file, file)
        version_check == boot_version_cmp(file, running)
    IN  /\ dstHdrLoads
        /\ rc >= 0
        /\ p \in Slots => version_check >= 0

(* Faulty: a partition without fw_info, as an interrupted copy leaves it,  *)
(* takes any version.                                                      *)
InstallableOverNothing(i, b, p, dstInfo, dstHdrLoads, hw, running, hdr) ==
    /\ check_file(i, b, p)
    /\ hdr \/ p \in Slots
    /\ i.info # NoInfo
    /\ HwNameMatches(hw, HwNameSeen(i, p, hdr))
    /\ dstInfo <= i.info
    /\ DowngradePrevention =>
           check_downgrade_prevention(p, dstHdrLoads, VersionSeen(i, hdr), running)

(* Faulty: MCUboot's signature is taken for B0's.                          *)
InstallableOnEitherKey(i, b, p, dstInfo, dstHdrLoads, hw, running, hdr) ==
    /\ validate_file(i, p) \/ check_file(i, b, p)
    /\ hdr \/ p \in Slots
    /\ i.info # NoInfo
    /\ dstInfo # NoInfo
    /\ HwNameMatches(hw, HwNameSeen(i, p, hdr))
    /\ dstInfo <= i.info
    /\ DowngradePrevention =>
           check_downgrade_prevention(p, dstHdrLoads, VersionSeen(i, hdr), running)

(***************************************************************************)
(* The conditions under which check_file_and_update reaches the copy of i. *)
(*   b            the shared buffer once the file has been read            *)
(*   dstInfo      fw_info.version found in the partition, or NoInfo        *)
(*   dstHdrLoads  the partition starts with a valid MCUboot header         *)
(*   hw, running  hw_rev_name and version of the MCUboot that runs         *)
(*   hdr          FALSE when reading the file's header fails               *)
(***************************************************************************)
Installable(i, b, p, dstInfo, dstHdrLoads, hw, running, hdr) ==
    /\ check_file(i, b, p)
    /\ hdr \/ p \in Slots
    /\ i.info # NoInfo
    /\ dstInfo # NoInfo
    /\ HwNameMatches(hw, HwNameSeen(i, p, hdr))
    /\ dstInfo <= i.info
    /\ DowngradePrevention =>
           check_downgrade_prevention(p, dstHdrLoads, VersionSeen(i, hdr), running)

(* check_update_for_mcuboot: the running MCUboot only decides whether to   *)
(* leave the file to the other copy.  No version is compared.              *)
check_update_for_mcuboot(i, b, p, hw, hdr) ==
    /\ validate_b0_signature(b, p)
    /\ i.info # NoInfo
    /\ HwNameMatches(hw, HwNameSeen(i, p, hdr))

=============================================================================
