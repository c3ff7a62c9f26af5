------------------------------ MODULE FwUpdate ------------------------------
(***************************************************************************)
(* The file-based update of RuuviAir MCUboot, from reset to the hand-over  *)
(* to MCUboot's own boot procedure: B0 picks a copy of MCUboot, on_startup *)
(* mounts the file system and check_updates_on_fs works through the four   *)
(* update files.  Power may fail between any two steps and inside an       *)
(* erase; reads, writes and file-system calls may fail.                    *)
(*                                                                         *)
(* A partition is the image whose writing was last begun (img), the chunks *)
(* of it that are in flash (have) and the fw_info.valid word (valid).      *)
(***************************************************************************)
EXTENDS FwImages

CONSTANTS
    NoFile,       \* there is no file of this name
    NChunks,      \* an image is copied in this many chunks, 1 being its header
    InfoChunk,    \* the chunk that holds fw_info
    Factory,      \* [Parts -> Images]: what the factory wrote
    Deliverable,  \* <<file, image>> pairs the application can store
    MaxCuts,      \* bound on power cuts while MCUboot runs
    MaxFaults,    \* bound on failing device and file-system calls
    MaxUploads    \* bound on update files the application stores

ASSUME NoFileAssumption == NoFile \notin Images
ASSUME ChunksAssumption == NChunks \in Nat /\ InfoChunk \in 1..NChunks
ASSUME DeliverableAssumption == Deliverable \subseteq Files \X Images
ASSUME BoundsAssumption == MaxCuts \in Nat /\ MaxFaults \in Nat /\ MaxUploads \in Nat

(* A device leaves the factory with two good copies of MCUboot and good    *)
(* images in both application partitions.                                  *)
ASSUME FactoryAssumption ==
    /\ Factory \in [Parts -> Images]
    /\ \A p \in Parts : Verified(Factory[p], p) /\ Factory[p].hdr /\ Factory[p].info # NoInfo
    /\ \A s \in Slots : Factory[s].hwid /\ Factory[s].verok

VARIABLES
    img, have, valid,    \* the partitions
    fs,                  \* the update files in the LittleFS partition
    pc,                  \* what the device is doing
    active,              \* the slot of the MCUboot that runs
    hw,                  \* p_hw_rev->hw_rev_name, read from that slot
    step, found,         \* check_updates_on_fs: check in hand, flag_updates_found
    chunk,               \* img_process: next chunk to copy
    buf,                 \* g_shared_img_buf, which checks and resets leave as it is
    clean,               \* no call has failed since reset
    cuts, faults, uploads

parts   == <<img, have, valid>>
boot    == <<active, hw, step, found, chunk, buf, clean>>
budgets == <<cuts, faults, uploads>>
vars    == <<img, have, valid, fs, pc, active, hw, step, found, chunk, buf, clean, cuts, faults, uploads>>

NoSlot == "noslot"
Chunks == 1..NChunks

Running == {"startup", "mount", "check", "erase", "copy", "finish", "reboot", "handover"}
Rest    == {"app", "noimage", "hung", "dead"}   \* MCUboot is through, or stuck for good
PCs     == {"b0"} \cup Running \cup Rest

PartsTypeOK ==
    /\ img \in [Parts -> Images]
    /\ have \in [Parts -> SUBSET Chunks]
    /\ valid \in [Parts -> BOOLEAN]

ControlTypeOK ==
    /\ pc \in PCs
    /\ active \in Slots \cup {NoSlot}
    /\ pc \in Running => active \in Slots
    /\ hw \in HwNames \cup {NoHw}

CheckTypeOK ==
    /\ step \in 1..5
    /\ pc \in {"erase", "copy", "finish"} => step \in 1..4
    /\ chunk \in 1..(NChunks + 1)
    /\ buf \in Images \cup {Garbage}

FlagsTypeOK ==
    /\ found \in BOOLEAN
    /\ clean \in BOOLEAN

BudgetTypeOK ==
    /\ cuts \in 0..MaxCuts
    /\ faults \in 0..MaxFaults
    /\ uploads \in 0..MaxUploads

TypeOK ==
    /\ PartsTypeOK
    /\ fs \in [Files -> Images \cup {NoFile}]
    /\ ControlTypeOK
    /\ CheckTypeOK
    /\ FlagsTypeOK
    /\ BudgetTypeOK

Init ==
    /\ img = Factory
    /\ have = [p \in Parts |-> Chunks]
    /\ valid = [p \in Parts |-> TRUE]
    /\ fs = [f \in Files |-> NoFile]
    /\ pc = "b0"
    /\ active = NoSlot
    /\ hw = NoHw
    /\ step = 1
    /\ found = FALSE
    /\ chunk = 1
    /\ buf = Garbage
    /\ clean = TRUE
    /\ cuts = 0
    /\ faults = 0
    /\ uploads = 0

-----------------------------------------------------------------------------
(* What the bootloaders read in a partition.                               *)

Whole(p) == have[p] = Chunks

(* fw_info_find does not look at the valid word, bl_validate_firmware does.*)
FwInfoVersion(p) == IF InfoChunk \in have[p] THEN img[p].info ELSE NoInfo
HeaderLoads(p)   == 1 \in have[p] /\ img[p].hdr

B0Bootable(s) == Whole(s) /\ valid[s] /\ B0Accepts(img[s], s)

(* MCUboot's own check of an application image, with its own key.          *)
Bootable(p) == Whole(p) /\ validate_file(img[p], p)

(* B0 tries the copy with the higher fw_info version first, s0 on a tie,   *)
(* and falls back on the other.                                            *)
Preferred == IF FwInfoVersion("s0") >= FwInfoVersion("s1") THEN "s0" ELSE "s1"
Other(s)  == IF s = "s0" THEN "s1" ELSE "s0"
B0Choice ==
    IF B0Bootable(Preferred) THEN Preferred
    ELSE IF B0Bootable(Other(Preferred)) THEN Other(Preferred)
    ELSE NoSlot

-----------------------------------------------------------------------------
FileOf(s) == IF s = "s0" THEN "mcuboot0" ELSE "mcuboot1"

(* Faulty: each copy installs its own file, over itself.                   *)
TaskOverItself(a, n) ==
    CASE n = 1 -> [file |-> FileOf(a), dst |-> a, update |-> TRUE]
      [] n = 2 -> [file |-> FileOf(a), dst |-> a, update |-> FALSE]
      [] n = 3 -> [file |-> "loader", dst |-> "secondary", update |-> TRUE]
      [] OTHER -> [file |-> "app", dst |-> "primary", update |-> TRUE]

(* Faulty: both copies look for the secondary's file first.                *)
TaskSecondaryOnly(a, n) ==
    CASE n = 1 -> [file |-> "mcuboot1", dst |-> Other(a), update |-> TRUE]
      [] n = 2 -> [file |-> FileOf(a), dst |-> a, update |-> FALSE]
      [] n = 3 -> [file |-> "loader", dst |-> "secondary", update |-> TRUE]
      [] OTHER -> [file |-> "app", dst |-> "primary", update |-> TRUE]

(* The order of check_updates_on_fs: the copy of MCUboot in slot a         *)
(* installs the other copy, looks whether there is a file for itself, and  *)
(* installs the loader and the application.                                *)
Task(a, n) ==
    CASE n = 1 -> [file |-> FileOf(Other(a)), dst |-> Other(a), update |-> TRUE]
      [] n = 2 -> [file |-> FileOf(a), dst |-> a, update |-> FALSE]
      [] n = 3 -> [file |-> "loader", dst |-> "secondary", update |-> TRUE]
      [] OTHER -> [file |-> "app", dst |-> "primary", update |-> TRUE]

task == Task(active, step)

file == fs[task.file]

(* The shared buffer after the check of a file, if no call fails: only a   *)
(* file of MCUboot is read into it, and only one that fits.                *)
Loaded == IF task.dst \in Slots /\ file.fits THEN ReadOver(file, buf) ELSE buf

(* The buffer at any time during the check.  A read that fails half-way    *)
(* leaves a part of the file.                                              *)
Leftovers ==
    IF file # NoFile /\ task.dst \in Slots /\ file.fits THEN {buf, Loaded, Garbage} ELSE {buf}

(* Does the file in hand pass, with b in the shared buffer?  hdr is FALSE  *)
(* when its header is unreadable.                                          *)
Passes(b, hdr) ==
    /\ file # NoFile
    /\ IF task.update
       THEN Installable(file, b, task.dst, FwInfoVersion(task.dst), HeaderLoads(task.dst),
                        hw, img[active].ver, hdr)
       ELSE check_update_for_mcuboot(file, b, task.dst, hw, hdr)

(* And if no call fails?                                                   *)
PassesAsRead == (task.dst \in Slots => file.fits) /\ Passes(Loaded, TRUE)

(* Faulty: one check too many.                                             *)
CheckingOnceMore == pc = "check" /\ step <= 5

Checking == pc = "check" /\ step <= 4

(* A call fails: one more of the bounded number of failures.               *)
Fault   == faults < MaxFaults /\ faults' = faults + 1 /\ clean' = FALSE
NoFault == UNCHANGED <<faults, clean>>

(* Faulty: the file stays.                                                 *)
KeepFile(f) == UNCHANGED fs

unlink(f) == fs' = [fs EXCEPT ![f] = NoFile]

NextStep == step' = step + 1 /\ pc' = "check"

(* Reset: flash is kept, and so may be what RAM holds in no initialised    *)
(* section, unless the program in between uses it.                         *)
Reset ==
    /\ pc' = "b0"
    /\ buf' \in {Garbage} \cup (IF Checking THEN Leftovers ELSE {buf})
    /\ active' = NoSlot
    /\ hw' = NoHw
    /\ step' = 1
    /\ found' = FALSE
    /\ chunk' = 1
    /\ clean' = TRUE

-----------------------------------------------------------------------------
(* External: B0, the immutable first stage, runs before any code in src/.  *)

B0Boot ==
    /\ pc = "b0"
    /\ active' = B0Choice
    /\ pc' = IF B0Choice = NoSlot THEN "dead" ELSE "startup"
    /\ UNCHANGED <<parts, fs, hw, step, found, chunk, buf, clean, budgets>>

-----------------------------------------------------------------------------
(* on_startup and btldr_fs_mount.                                          *)

StartupChecks == HeaderLoads(active) /\ img[active].hwid /\ img[active].verok

(* MCUboot refuses to run on hardware, or as a version, that is not the    *)
(* one compiled in: it waits for ever.  An unreadable header or hardware   *)
(* id reads as id 0, which is no Ruuvi board's.                            *)
StartupHangs ==
    /\ pc = "startup"
    /\ \/ ~StartupChecks /\ NoFault
       \/ Fault
    /\ pc' = "hung"
    /\ UNCHANGED <<parts, fs, active, hw, step, found, chunk, buf, cuts, uploads>>

(* The hardware name is read after the id: when that read fails the name   *)
(* may stay empty, and MCUboot goes on.                                    *)
StartupPasses ==
    /\ pc = "startup"
    /\ StartupChecks
    /\ \/ hw' = img[active].hw /\ NoFault
       \/ hw' \in {NoHw, img[active].hw} /\ Fault
    /\ pc' = "mount"
    /\ UNCHANGED <<parts, fs, active, step, found, chunk, buf, cuts, uploads>>

(* load_image_header fails though the header was readable just before: no  *)
(* update is looked for in this boot.                                      *)
StartupSkipsUpdate ==
    /\ pc = "startup"
    /\ HeaderLoads(active) /\ img[active].hwid
    /\ Fault
    /\ pc' = "handover"
    /\ UNCHANGED <<parts, fs, active, hw, step, found, chunk, buf, cuts, uploads>>

Mount ==
    /\ pc = "mount"
    /\ pc' = "check"
    /\ UNCHANGED <<parts, fs, boot, budgets>>

(* fs_mount fails: the file system is erased, with every file in it.       *)
(* fs_statvfs fails: the files stay for the next boot.                     *)
MountFails ==
    /\ pc = "mount"
    /\ Fault
    /\ \/ fs' = [f \in Files |-> NoFile]
       \/ UNCHANGED fs
    /\ pc' = "handover"
    /\ UNCHANGED <<parts, active, hw, step, found, chunk, buf, cuts, uploads>>

-----------------------------------------------------------------------------
(* check_updates_on_fs, one check at a time.                               *)

(* No such file, or fs_stat or flash_area_open fails.                      *)
CheckSkips ==
    /\ Checking
    /\ \/ file = NoFile /\ NoFault
       \/ Fault
    /\ NextStep
    /\ UNCHANGED <<parts, fs, active, hw, found, chunk, buf, cuts, uploads>>

(* The file fails a check and is removed.  A good file is removed too when *)
(* it cannot be read; a bad one survives when it cannot be removed.        *)
CheckRefuses ==
    /\ Checking
    /\ file # NoFile
    /\ \/ ~PassesAsRead /\ unlink(task.file) /\ buf' = Loaded /\ NoFault
       \/ (unlink(task.file) \/ UNCHANGED fs) /\ buf' \in Leftovers /\ Fault
    /\ NextStep
    /\ UNCHANGED <<parts, active, hw, found, chunk, cuts, uploads>>

(* The outcome of a check that lets the file pass.  btldr_fs_get_file_size *)
(* returns 0 when its fs_seek fails: no byte is read, none is missing, and *)
(* the verdict is on what the buffer held before.                          *)
Accepted ==
    /\ file # NoFile
    /\ \/ PassesAsRead /\ buf' = Loaded /\ NoFault
       \/ buf' \in {Loaded, buf} /\ (\E hdr \in BOOLEAN : Passes(buf', hdr)) /\ Fault

CheckAccepts ==
    /\ Checking
    /\ task.update
    /\ Accepted
    /\ pc' = "erase"
    /\ UNCHANGED <<parts, fs, active, hw, step, found, chunk, cuts, uploads>>

-----------------------------------------------------------------------------
(* mcuboot_img_op_copy and the end of check_file_and_update.               *)

(* img_process gives up before the erase: the file does not fit, or cannot *)
(* be opened or measured.  The file is removed, unread, all the same.      *)
CopyGivesUp ==
    /\ pc = "erase"
    /\ \/ ~file.fits /\ NoFault
       \/ Fault
    /\ pc' = "finish"
    /\ UNCHANGED <<parts, fs, active, hw, step, found, chunk, buf, cuts, uploads>>

(* What an erase that does not finish may leave of the partition.          *)
PartlyErased(p) == \E left \in SUBSET have[p] : have' = [have EXCEPT ![p] = left]

Erase ==
    /\ pc = "erase"
    /\ file.fits
    /\ have' = [have EXCEPT ![task.dst] = {}]
    /\ img' = [img EXCEPT ![task.dst] = file]
    /\ valid' = [valid EXCEPT ![task.dst] = TRUE]
    /\ chunk' = 1
    /\ pc' = "copy"
    /\ UNCHANGED <<fs, active, hw, step, found, buf, clean, budgets>>

EraseFails ==
    /\ pc = "erase"
    /\ file.fits
    /\ Fault
    /\ PartlyErased(task.dst)
    /\ pc' = "finish"
    /\ UNCHANGED <<img, valid, fs, active, hw, step, found, chunk, buf, cuts, uploads>>

CopyChunk ==
    /\ pc = "copy"
    /\ chunk <= NChunks
    /\ have' = [have EXCEPT ![task.dst] = @ \cup {chunk}]
    /\ chunk' = chunk + 1
    /\ UNCHANGED <<img, valid, fs, pc, active, hw, step, found, buf, clean, budgets>>

(* fs_read or flash_area_write fails: the loop is left, and so is the rest *)
(* of the partition.                                                       *)
CopyFails ==
    /\ pc = "copy"
    /\ chunk <= NChunks
    /\ Fault
    /\ pc' = "finish"
    /\ UNCHANGED <<parts, fs, active, hw, step, found, chunk, buf, cuts, uploads>>

CopyEnds ==
    /\ pc = "copy"
    /\ chunk > NChunks
    /\ pc' = "finish"
    /\ UNCHANGED <<parts, fs, boot, budgets>>

(* The file is removed and an update is reported, copied or not.           *)
FinishUpdate ==
    /\ pc = "finish"
    /\ \/ unlink(task.file) /\ NoFault
       \/ UNCHANGED fs /\ Fault
    /\ found' = TRUE
    /\ NextStep
    /\ UNCHANGED <<parts, active, hw, chunk, buf, cuts, uploads>>

-----------------------------------------------------------------------------
(* A file for the running copy is left to the other one: s0 invalidates    *)
(* itself so that B0 takes s1, s1 just reboots.                            *)

(* Faulty: the valid word is not written.                                  *)
InvalidateNothing(s) == valid

img_invalidate(s) ==
    IF FwInfoVersion(s) # NoInfo THEN [valid EXCEPT ![s] = FALSE] ELSE valid

(* s0 gives itself up, s1 has nothing to give up.                          *)
AfterLeaving == IF active = "s0" THEN img_invalidate("s0") ELSE valid

LeaveToOtherSlot ==
    /\ Checking
    /\ ~task.update
    /\ Accepted
    /\ valid' = AfterLeaving \/ (valid' = valid /\ Fault)
    /\ pc' = "reboot"
    /\ UNCHANGED <<img, have, fs, active, hw, step, found, chunk, cuts, uploads>>

EndOfChecks ==
    /\ pc = "check"
    /\ step = 5
    /\ pc' = IF found THEN "reboot" ELSE "handover"
    /\ UNCHANGED <<parts, fs, boot, budgets>>

Reboot ==
    /\ pc = "reboot"
    /\ Reset
    /\ UNCHANGED <<parts, fs, budgets>>

(* External: MCUboot's own boot procedure starts the application, or the   *)
(* firmware loader in the secondary partition, if either is whole.         *)
Handover ==
    /\ pc = "handover"
    /\ pc' = IF Bootable("primary") \/ Bootable("secondary") THEN "app" ELSE "noimage"
    /\ UNCHANGED <<parts, fs, boot, budgets>>

-----------------------------------------------------------------------------
(* The world: the application stores files and reboots, users reset, power *)
(* fails (on a REV_1 board also through the supercapacitor interrupt).     *)

Upload ==
    /\ pc = "app"
    /\ uploads < MaxUploads
    /\ \E d \in Deliverable : fs' = [fs EXCEPT ![d[1]] = d[2]]
    /\ uploads' = uploads + 1
    /\ UNCHANGED <<parts, pc, boot, cuts, faults>>

Restart ==
    /\ pc \in Rest
    /\ Reset
    /\ UNCHANGED <<parts, fs, budgets>>

PowerCut ==
    /\ pc \in Running
    /\ cuts < MaxCuts
    /\ cuts' = cuts + 1
    /\ IF pc = "erase" THEN PartlyErased(task.dst) ELSE UNCHANGED have
    /\ Reset
    /\ UNCHANGED <<img, valid, fs, faults, uploads>>

Device ==
    \/ B0Boot
    \/ StartupHangs \/ StartupPasses \/ StartupSkipsUpdate
    \/ Mount \/ MountFails
    \/ CheckSkips \/ CheckRefuses \/ CheckAccepts
    \/ CopyGivesUp \/ Erase \/ EraseFails \/ CopyChunk \/ CopyFails \/ CopyEnds
    \/ FinishUpdate \/ LeaveToOtherSlot
    \/ EndOfChecks \/ Reboot \/ Handover

Next == Device \/ Upload \/ Restart \/ PowerCut

Spec == Init /\ [][Next]_vars

(* The device runs on its own as long as it is powered.  Nothing is        *)
(* assumed of the application, the user or the power supply.               *)
FairSpec == Spec /\ WF_vars(Device)

-----------------------------------------------------------------------------
(* Safety.                                                                 *)

(* The copy of MCUboot that runs executes in place: whatever it installs,  *)
(* its own slot stays whole, genuine and, until the reboot that leaves a   *)
(* file to the other copy, valid.                                          *)
RunningCopyIntact ==
    pc \in Running =>
        /\ Whole(active)
        /\ B0Accepts(img[active], active)
        /\ pc # "reboot" => valid[active]

(* However updates, power cuts and failing calls follow one another, B0    *)
(* finds a copy of MCUboot to start, or s0 holds a whole genuine copy that *)
(* lacks nothing but the valid word img_invalidate cleared.                *)
BootloaderSurvives ==
    \/ \E s \in Slots : B0Bootable(s)
    \/ Whole("s0") /\ B0Accepts(img["s0"], "s0") /\ ~valid["s0"]

(* Whatever part of an image a partition holds, at any moment of a copy    *)
(* and after any interruption, comes from an image verified for that very  *)
(* partition.  For the slots, where the verdict is on a buffer that may    *)
(* hold another image, this takes a device on which no call fails: there   *)
(* the hardware name catches a file that passed for what the buffer held.  *)
VerifiedContent ==
    /\ \A p \in Parts \ Slots : Verified(img[p], p)
    /\ faults = 0 => \A s \in Slots : Verified(img[s], s)

(* Can the verdicts of this boot be trusted to be about the file?          *)
Trusted == clean /\ hw # NoHw

(* Between the checks and the erase nothing the checks rested on changes:  *)
(* the file about to be copied offers no lower version than the partition  *)
(* about to be erased, which is not the one MCUboot runs from, and it was  *)
(* verified for it.  Where a call has failed in this boot, or MCUboot does *)
(* not know its hardware name, a file for a slot may have been taken for   *)
(* the image that B0 would accept there and that the buffer still holds.   *)
CopyJustified ==
    /\ pc \in {"erase", "copy", "finish"} => task.dst # active
    /\ pc = "erase" =>
          /\ file # NoFile
          /\ file.info >= img[task.dst].info
          /\ Trusted \/ task.dst \notin Slots => Verified(file, task.dst)
          /\ task.dst \in Slots => validate_b0_signature(buf, task.dst)

(* When MCUboot hands over after a boot in which no call failed, no update *)
(* file is left behind: each one was installed, refused or left to the     *)
(* other copy with a reboot.                                               *)
HandoverClean == pc = "handover" /\ clean => \A f \in Files : fs[f] = NoFile

(* The fw_info version a partition was last given never goes down, not     *)
(* even when a copy that failed has wiped the one there was.               *)
FwInfoNeverDecreases ==
    [][\A p \in Parts : img'[p].info >= img[p].info]_vars

(* MCUboot gives up the slot it runs from only with a file at hand to      *)
(* replace it.  In a boot whose verdicts can be trusted, B0 would accept   *)
(* that file in that slot; in any other, at least what the buffer holds.   *)
InvalidatedForReplacement ==
    [][\A s \in Slots : valid[s] /\ ~valid'[s] =>
           /\ s = active
           /\ fs'["mcuboot0"] # NoFile
           /\ Trusted' => B0Accepts(fs'["mcuboot0"], s)
           /\ validate_b0_signature(buf', s)]_vars

(* No partition ever gets an image for other hardware than the MCUboot the *)
(* device was made with, through any chain of self-updates, as long as no  *)
(* call has failed: when reading its own name does, MCUboot accepts any.   *)
HardwareKept == faults = 0 => \A p \in Parts : img[p].hw = Factory["s0"].hw

-----------------------------------------------------------------------------
(* The promise of Partitions, which this module keeps.                     *)

Abstract == INSTANCE Partitions WITH
    Shipped <- Factory,
    image   <- img,
    whole   <- [p \in Parts |-> Whole(p)],
    retired <- {s \in Slots : ~valid[s]},
    writing <- IF pc = "copy" THEN task.dst ELSE "nopart",
    trusted <- Trusted

(* check_updates_on_fs, the copy, img_invalidate and every interruption of *)
(* them keep the promise of Partitions: whatever step is taken, flash      *)
(* changes as one of its actions says, or not at all.                      *)
KeepsPromise == Abstract!Spec

-----------------------------------------------------------------------------
(* Liveness.                                                               *)

(* s1 runs, holds on to a file for itself and is what B0 will take again.  *)
PingPong == fs["mcuboot1"] # NoFile /\ B0Choice = "s1"

(* Every series of boots ends in the application or in a state that needs  *)
(* a person, unless s1 goes on rebooting for the sake of its own file.     *)
Settles == []<>(pc \in Rest) \/ <>[]PingPong

(* i is a newer MCUboot for s0, and s1 is able and willing to install it.  *)
PrimaryUpdatable(i) ==
    /\ pc = "startup" /\ active = "s0"
    /\ fs["mcuboot0"] = i /\ fs["mcuboot1"] = NoFile
    /\ B0Bootable("s1") /\ HeaderLoads("s1") /\ img["s1"].hwid /\ img["s1"].verok
    /\ HeaderLoads("s0") /\ img["s0"].hwid /\ img["s0"].verok
    /\ check_update_for_mcuboot(i, i, "s0", img["s0"].hw, TRUE) /\ i.fits
    /\ Installable(i, i, "s0", img["s0"].info, TRUE, img["s1"].hw, img["s1"].ver, TRUE)

(* The self-update of s0 takes two boots and both copies: s0 invalidates   *)
(* itself, s1 installs the file, B0 can take s0 again.  It succeeds once   *)
(* the interruptions are over, whatever they left.                         *)
PrimaryGetsUpdated ==
    \A i \in Images :
        (PrimaryUpdatable(i) /\ cuts = MaxCuts /\ faults = MaxFaults)
            ~> (img["s0"] = i /\ B0Bootable("s0"))

-----------------------------------------------------------------------------
(* What the code's log messages and comments say, and the code does not.   *)

(* "need to reboot to update it from secondary MCUboot": when s0 gives     *)
(* itself up, there is a secondary MCUboot that B0 can start.              *)
InvalidateHasFallback ==
    [][\A s \in Slots : valid[s] /\ ~valid'[s] => B0Bootable(Other(s))]_vars

(* "Downgrade prevention: New image version is older than the current      *)
(* image version": with downgrade prevention compiled in, an application   *)
(* partition never gets an image of a lower version than it has.           *)
NoImageDowngrade ==
    [][DowngradePrevention =>
          \A p \in Parts \ Slots : img'[p].ver >= img[p].ver]_vars

=============================================================================
