--------------------------- MODULE FwUpdateProofs ---------------------------
(***************************************************************************)
(* Proofs about FwUpdate, for every set of images, every factory state and *)
(* every number of cuts, failures and uploads: its invariants, that it     *)
(* implements Partitions, what Partitions promises by itself, and that the *)
(* calls of a check in FwCheckCalls amount to one step of FwUpdate.        *)
(***************************************************************************)
EXTENDS FwCheckCalls, TLAPS

USE DEF Slots, Parts, Files, NoSlot, NoHw, NoInfo

(* The facts about an image record that the proofs use: its version fields *)
(* are integers, its flags Booleans.                                       *)
LEMMA ImageFields ==
    ASSUME NEW i \in Images
    PROVE  /\ i.info \in Int
           /\ i.ver \in Nat
           /\ i.hw \in HwNames \cup {NoHw}
           /\ i.fits \in BOOLEAN /\ i.hdr \in BOOLEAN
           /\ i.hwid \in BOOLEAN /\ i.verok \in BOOLEAN
BY ImagesAssumption DEF ImageType

(* What check_updates_on_fs writes is never the slot of the running copy,  *)
(* and the four checks cover the four files.                               *)
LEMMA TaskFacts ==
    ASSUME NEW a \in Slots, NEW n \in 1..5
    PROVE  /\ Task(a, n).file \in Files
           /\ Task(a, n).dst \in Parts
           /\ Task(a, n).update \in BOOLEAN
           /\ Task(a, n).update => Task(a, n).dst # a
           /\ ~Task(a, n).update => Task(a, n).dst = a /\ Task(a, n).file = FileOf(a)
BY DEF Task, FileOf, Other

LEMMA TasksCoverFiles ==
    ASSUME NEW a \in Slots, NEW f \in Files
    PROVE  \E n \in 1..4 : Task(a, n).file = f
<1>1. CASE f = FileOf(Other(a))
  BY <1>1 DEF Task
<1>2. CASE f = FileOf(a)
  BY <1>2 DEF Task
<1>3. CASE f = "loader"
  BY <1>3 DEF Task
<1>4. CASE f = "app"
  BY <1>4 DEF Task
<1> QED
  BY <1>1, <1>2, <1>3, <1>4 DEF FileOf, Other

-----------------------------------------------------------------------------
(* Who writes what.  Flash, the file system and the budgets each change in *)
(* a few actions only; the proofs below look at those.                     *)

LEMMA WritesParts ==
    ASSUME [Next]_vars
    PROVE  UNCHANGED parts \/ Erase \/ EraseFails \/ CopyChunk \/ LeaveToOtherSlot \/ PowerCut
<1> USE DEF parts
<1>1. CASE Device
  BY <1>1 DEF Device, B0Boot, StartupHangs, StartupPasses, StartupSkipsUpdate, Mount, MountFails,
     CheckSkips, CheckRefuses, CheckAccepts, CopyGivesUp, CopyFails, CopyEnds, FinishUpdate,
     EndOfChecks, Reboot, Handover
<1>2. CASE Upload \/ Restart \/ UNCHANGED vars
  BY <1>2 DEF Upload, Restart, vars
<1> QED
  BY <1>1, <1>2 DEF Next

LEMMA WritesFiles ==
    ASSUME [Next]_vars
    PROVE  UNCHANGED fs \/ MountFails \/ CheckRefuses \/ FinishUpdate \/ Upload
<1>1. CASE Device
  BY <1>1 DEF Device, B0Boot, StartupHangs, StartupPasses, StartupSkipsUpdate, Mount,
     CheckSkips, CheckAccepts, CopyGivesUp, Erase, EraseFails, CopyChunk, CopyFails, CopyEnds,
     LeaveToOtherSlot, EndOfChecks, Reboot, Handover
<1>2. CASE Restart \/ PowerCut \/ UNCHANGED vars
  BY <1>2 DEF Restart, PowerCut, vars
<1> QED
  BY <1>1, <1>2 DEF Next

LEMMA WritesBudgets ==
    ASSUME [Next]_vars
    PROVE  /\ cuts' = cuts \/ (cuts < MaxCuts /\ cuts' = cuts + 1)
           /\ faults' = faults \/ (faults < MaxFaults /\ faults' = faults + 1)
           /\ uploads' = uploads \/ (uploads < MaxUploads /\ uploads' = uploads + 1)
<1> USE DEF budgets, Fault, NoFault
<1>1. CASE B0Boot \/ StartupHangs \/ StartupPasses \/ StartupSkipsUpdate \/ Mount \/ MountFails
  BY <1>1 DEF B0Boot, StartupHangs, StartupPasses, StartupSkipsUpdate, Mount, MountFails
<1>2. CASE CheckSkips \/ CheckRefuses \/ CheckAccepts \/ LeaveToOtherSlot \/ EndOfChecks
  BY <1>2 DEF CheckSkips, CheckRefuses, CheckAccepts, Accepted, LeaveToOtherSlot, EndOfChecks
<1>3. CASE CopyGivesUp \/ Erase \/ EraseFails \/ CopyChunk \/ CopyFails \/ CopyEnds \/ FinishUpdate
  BY <1>3 DEF CopyGivesUp, Erase, EraseFails, CopyChunk, CopyFails, CopyEnds, FinishUpdate
<1>4. CASE Reboot \/ Handover \/ Upload \/ Restart \/ PowerCut \/ UNCHANGED vars
  BY <1>4 DEF Reboot, Handover, Upload, Restart, PowerCut, vars
<1> QED
  BY <1>1, <1>2, <1>3, <1>4 DEF Next, Device

-----------------------------------------------------------------------------
(* Type correctness.                                                       *)

LEMMA TypeInit == ASSUME Init PROVE TypeOK
<1> USE DEF Init
<1>1. PartsTypeOK
  BY FactoryAssumption DEF PartsTypeOK
<1>2. fs \in [Files -> Images \cup {NoFile}]
  OBVIOUS
<1>3. ControlTypeOK
  BY DEF ControlTypeOK, PCs, Running
<1>4. CheckTypeOK
  BY ChunksAssumption DEF CheckTypeOK
<1>5. FlagsTypeOK
  BY DEF FlagsTypeOK
<1>6. BudgetTypeOK
  BY BoundsAssumption DEF BudgetTypeOK
<1> QED
  BY <1>1, <1>2, <1>3, <1>4, <1>5, <1>6 DEF TypeOK

(* All that type correctness needs to know of the checks.                  *)
FileHeld == pc = "erase" => fs[task.file] # NoFile

(* What a check reads into the buffer is the file or was there before.     *)
LEMMA BufferTypes ==
    ASSUME TypeOK, Checking
    PROVE  /\ file # NoFile => file \in Images /\ Loaded \in Images \cup {Garbage}
           /\ Leftovers \subseteq Images \cup {Garbage}
<1>1. file # NoFile => file \in Images
  BY TaskFacts DEF file, task, Checking, TypeOK, ControlTypeOK, CheckTypeOK, Running
<1>2. buf \in Images \cup {Garbage}
  BY DEF TypeOK, CheckTypeOK
<1>3. file # NoFile => Loaded \in Images \cup {Garbage}
  BY <1>1, <1>2 DEF Loaded, ReadOver
<1> QED
  BY <1>1, <1>2, <1>3 DEF Leftovers

LEMMA TypeStep ==
    ASSUME TypeOK, FileHeld, [Next]_vars
    PROVE  TypeOK'
<1>t. pc \in Running => task.file \in Files /\ task.dst \in Parts
  BY TaskFacts DEF task, TypeOK, ControlTypeOK, CheckTypeOK
<1>1. PartsTypeOK'
  <2> USE DEF TypeOK, PartsTypeOK
  <2>1. CASE UNCHANGED parts
    BY <2>1 DEF parts
  <2>2. CASE Erase
    <3>1. task.file \in Files /\ task.dst \in Parts /\ fs[task.file] \in Images
      BY <2>2, <1>t DEF Erase, Running, FileHeld, file
    <3> QED
      BY <2>2, <3>1 DEF Erase, file
  <2>3. CASE EraseFails
    BY <2>3, <1>t DEF EraseFails, PartlyErased, Running
  <2>4. CASE CopyChunk
    <3>1. chunk \in Chunks
      BY <2>4, ChunksAssumption DEF CopyChunk, CheckTypeOK, Chunks
    <3> QED
      BY <2>4, <3>1, <1>t DEF CopyChunk, Running
  <2>5. CASE LeaveToOtherSlot
    BY <2>5 DEF LeaveToOtherSlot, AfterLeaving, img_invalidate
  <2>6. CASE PowerCut
    BY <2>6, <1>t DEF PowerCut, PartlyErased
  <2> QED
    BY <2>1, <2>2, <2>3, <2>4, <2>5, <2>6, WritesParts
<1>2. (fs \in [Files -> Images \cup {NoFile}])'
  <2> USE DEF TypeOK
  <2>1. CASE UNCHANGED fs
    BY <2>1
  <2>2. CASE MountFails
    BY <2>2 DEF MountFails
  <2>3. CASE CheckRefuses
    BY <2>3 DEF CheckRefuses, unlink
  <2>4. CASE FinishUpdate
    BY <2>4 DEF FinishUpdate, unlink
  <2>5. CASE Upload
    BY <2>5, DeliverableAssumption DEF Upload
  <2> QED
    BY <2>1, <2>2, <2>3, <2>4, <2>5, WritesFiles
<1>3. ControlTypeOK'
  <2> USE DEF TypeOK, ControlTypeOK, boot, PCs, Running
  <2>1. CASE B0Boot
    BY <2>1 DEF B0Boot, B0Choice, Preferred, Other, Rest
  <2>2. CASE StartupHangs \/ StartupSkipsUpdate \/ Mount \/ MountFails
    BY <2>2 DEF StartupHangs, StartupSkipsUpdate, Mount, MountFails, Rest
  <2>3. CASE StartupPasses
    <3>1. img[active].hw \in HwNames \cup {NoHw}
      BY <2>3, ImageFields DEF StartupPasses, PartsTypeOK
    <3> QED
      BY <2>3, <3>1 DEF StartupPasses
  <2>4. CASE CheckSkips \/ CheckRefuses \/ CheckAccepts \/ LeaveToOtherSlot \/ EndOfChecks
    BY <2>4 DEF CheckSkips, CheckRefuses, CheckAccepts, LeaveToOtherSlot, EndOfChecks,
       Checking, NextStep
  <2>5. CASE CopyGivesUp \/ Erase \/ EraseFails \/ CopyChunk \/ CopyFails \/ CopyEnds \/ FinishUpdate
    BY <2>5 DEF CopyGivesUp, Erase, EraseFails, CopyChunk, CopyFails, CopyEnds, FinishUpdate,
       NextStep
  <2>6. CASE Reboot \/ Handover \/ Upload \/ Restart \/ PowerCut \/ UNCHANGED vars
    BY <2>6 DEF Reboot, Handover, Upload, Restart, PowerCut, Reset, Rest, vars
  <2> QED
    BY <2>1, <2>2, <2>3, <2>4, <2>5, <2>6 DEF Next, Device
<1>4. CheckTypeOK'
  <2> USE ChunksAssumption DEF TypeOK, CheckTypeOK, boot
  <2>1. CASE B0Boot \/ StartupHangs \/ StartupPasses \/ StartupSkipsUpdate \/ Mount \/ MountFails
    BY <2>1 DEF B0Boot, StartupHangs, StartupPasses, StartupSkipsUpdate, Mount, MountFails
  <2>2. CASE CheckSkips
    BY <2>2 DEF CheckSkips, Checking, NextStep
  <2>5. CASE CheckRefuses
    BY <2>5, BufferTypes DEF CheckRefuses, Checking, NextStep
  <2>6. CASE CheckAccepts
    BY <2>6, BufferTypes DEF CheckAccepts, Accepted, Checking
  <2>7. CASE LeaveToOtherSlot
    BY <2>7, BufferTypes DEF LeaveToOtherSlot, Accepted
  <2>8. CASE EndOfChecks
    BY <2>8 DEF EndOfChecks
  <2>3. CASE CopyGivesUp \/ Erase \/ EraseFails \/ CopyChunk \/ CopyFails \/ CopyEnds \/ FinishUpdate
    BY <2>3 DEF CopyGivesUp, Erase, EraseFails, CopyChunk, CopyFails, CopyEnds, FinishUpdate,
       NextStep
  <2>4. CASE Reboot \/ Restart \/ PowerCut
    <3>1. pc' = "b0" /\ step' = 1 /\ chunk' = 1 /\ buf' \in Images \cup {Garbage}
      BY <2>4, BufferTypes DEF Reboot, Restart, PowerCut, Reset
    <3> QED
      BY <3>1
  <2>9. CASE Handover \/ Upload \/ UNCHANGED vars
    BY <2>9 DEF Handover, Upload, vars
  <2> QED
    BY <2>1, <2>2, <2>3, <2>4, <2>5, <2>6, <2>7, <2>8, <2>9 DEF Next, Device
<1>5. FlagsTypeOK'
  BY DEF TypeOK, FlagsTypeOK, Next, vars, Reset, boot, NoFault, Fault, Device, B0Boot,
     StartupHangs, StartupPasses, StartupSkipsUpdate, Mount, MountFails, CheckSkips,
     CheckRefuses, CheckAccepts, Accepted, CopyGivesUp, Erase, EraseFails, CopyChunk, CopyFails,
     CopyEnds, FinishUpdate, LeaveToOtherSlot, EndOfChecks, Reboot, Handover, Upload, Restart,
     PowerCut
<1>6. BudgetTypeOK'
  BY WritesBudgets, BoundsAssumption DEF TypeOK, BudgetTypeOK
<1> QED
  BY <1>1, <1>2, <1>3, <1>4, <1>5, <1>6 DEF TypeOK

-----------------------------------------------------------------------------
(* What the checks guarantee when a file passes them.                      *)

LEMMA PassesFacts ==
    ASSUME TypeOK, Checking, NEW b, NEW hdr \in BOOLEAN, Passes(b, hdr)
    PROVE  /\ file \in Images
           /\ task.update => /\ task.dst # active
                             /\ check_file(file, b, task.dst)
                             /\ file.info >= img[task.dst].info
           /\ ~task.update => /\ task.dst = active /\ task.file = FileOf(active)
                              /\ validate_b0_signature(b, active)
           /\ HwNameMatches(hw, HwNameSeen(file, task.dst, hdr))
<1>1. active \in Slots /\ step \in 1..5
  BY DEF Checking, TypeOK, ControlTypeOK, CheckTypeOK, Running
<1>2. /\ task.file \in Files /\ task.dst \in Parts /\ task.update \in BOOLEAN
      /\ task.update => task.dst # active
      /\ ~task.update => task.dst = active /\ task.file = FileOf(active)
  BY <1>1, TaskFacts DEF task
<1>3. file # NoFile
  BY DEF Passes
<1>4. file \in Images /\ img[task.dst] \in Images
  BY <1>2, <1>3 DEF file, TypeOK, PartsTypeOK
<1>5. CASE task.update
  <2>1. Installable(file, b, task.dst, FwInfoVersion(task.dst), HeaderLoads(task.dst),
                    hw, img[active].ver, hdr)
    BY <1>5 DEF Passes
  <2>2. check_file(file, b, task.dst) /\ HwNameMatches(hw, HwNameSeen(file, task.dst, hdr))
    BY <2>1 DEF Installable
  <2>3. FwInfoVersion(task.dst) # NoInfo /\ FwInfoVersion(task.dst) <= file.info
    BY <2>1 DEF Installable
  <2>4. file.info >= img[task.dst].info
    BY <2>3, <1>4, ImageFields DEF FwInfoVersion
  <2> QED
    BY <1>2, <1>4, <1>5, <2>2, <2>4
<1>6. CASE ~task.update
  BY <1>2, <1>4, <1>6 DEF Passes, check_update_for_mcuboot
<1> QED
  BY <1>2, <1>5, <1>6

(* A file with the right hardware name has its header, so it is whole: the *)
(* buffer it was read into holds nothing else.                             *)
LEMMA NamedFileIsRead ==
    ASSUME TypeOK, Checking, hw # NoHw, PassesAsRead, task.dst \in Slots
    PROVE  Loaded = file
<1>1. HwNameMatches(hw, HwNameSeen(file, task.dst, TRUE))
  BY PassesFacts DEF PassesAsRead
<1>2. file.hdr
  BY <1>1 DEF HwNameMatches, HwNameSeen
<1>3. <<file, buf>> \notin Prefix
  BY <1>2, PrefixAssumption
<1> QED
  BY <1>3 DEF Loaded, ReadOver, PassesAsRead

(* What the check of a file that is let through leaves.                    *)
LEMMA AcceptedFacts ==
    ASSUME TypeOK, Checking, Accepted, hw' = hw
    PROVE  /\ file \in Images
           /\ task.update => /\ task.dst # active
                             /\ file.info >= img[task.dst].info
                             /\ task.dst \in Slots => validate_b0_signature(buf', task.dst)
                             /\ task.dst \notin Slots => Verified(file, task.dst)
           /\ ~task.update => /\ task.dst = active /\ task.file = FileOf(active)
                              /\ validate_b0_signature(buf', active)
           /\ Trusted' /\ task.dst \in Slots => B0Accepts(file, task.dst)
<1>1. PICK hdr \in BOOLEAN : Passes(buf', hdr)
  BY DEF Accepted, PassesAsRead
<1>2. /\ file \in Images
      /\ task.update => /\ task.dst # active
                        /\ check_file(file, buf', task.dst)
                        /\ file.info >= img[task.dst].info
      /\ ~task.update => /\ task.dst = active /\ task.file = FileOf(active)
                         /\ validate_b0_signature(buf', active)
  BY <1>1, PassesFacts
<1>3. ASSUME Trusted', task.dst \in Slots
      PROVE  B0Accepts(file, task.dst)
  <2>1. PassesAsRead /\ buf' = Loaded /\ hw # NoHw
    BY <1>3 DEF Trusted, Accepted, Fault
  <2>2. buf' = file
    BY <1>3, <2>1, NamedFileIsRead
  <2>3. task.update \in BOOLEAN
    BY TaskFacts DEF task, Checking, TypeOK, ControlTypeOK, CheckTypeOK, Running
  <2>4. validate_b0_signature(file, task.dst)
    BY <1>2, <1>3, <2>2, <2>3 DEF check_file
  <2> QED
    BY <2>4 DEF validate_b0_signature
<1> QED
  BY <1>2, <1>3 DEF check_file, Verified

LEMMA CopyJustifiedStep ==
    ASSUME TypeOK, CopyJustified, [Next]_vars
    PROVE  CopyJustified'
<1> USE DEF CopyJustified
<1>1. CASE CheckAccepts
  <2>1. /\ Checking /\ task.update /\ pc' = "erase" /\ Accepted
        /\ fs' = fs /\ img' = img /\ active' = active /\ step' = step /\ hw' = hw
    BY <1>1 DEF CheckAccepts, parts
  <2>2. task' = task /\ file' = file
    BY <2>1 DEF task, file
  <2>3. file # NoFile
    BY <2>1 DEF Accepted
  <2>4. /\ task.dst # active
        /\ file.info >= img[task.dst].info
        /\ task.dst \in Slots => validate_b0_signature(buf', task.dst)
        /\ task.dst \notin Slots => Verified(file, task.dst)
        /\ Trusted' /\ task.dst \in Slots => B0Accepts(file, task.dst)
    BY <2>1, AcceptedFacts
  <2>5. Trusted' \/ task.dst \notin Slots => Verified(file, task.dst)
    BY <2>4 DEF Verified
  <2> QED
    BY <2>1, <2>2, <2>3, <2>4, <2>5
<1>2. CASE CopyGivesUp \/ Erase \/ EraseFails \/ CopyChunk \/ CopyFails \/ CopyEnds
  <2>1. /\ pc \in {"erase", "copy"} /\ pc' \in {"copy", "finish"}
        /\ active' = active /\ step' = step
    BY <1>2 DEF CopyGivesUp, Erase, EraseFails, CopyChunk, CopyFails, CopyEnds, boot
  <2>2. task' = task
    BY <2>1 DEF task
  <2> QED
    BY <2>1, <2>2
<1>3. CASE Upload \/ UNCHANGED vars
  <2>1. pc' = pc /\ active' = active /\ step' = step
    BY <1>3 DEF Upload, boot, vars
  <2>2. pc # "app" => fs' = fs /\ img' = img
    BY <1>3 DEF Upload, vars
  <2>3. task' = task /\ (pc # "app" => file' = file)
    BY <2>1, <2>2 DEF task, file
  <2>4. buf' = buf /\ (Trusted' <=> Trusted)
    BY <1>3 DEF Upload, boot, vars, Trusted
  <2> QED
    BY <2>1, <2>2, <2>3, <2>4
<1>4. CASE \/ B0Boot \/ StartupHangs \/ StartupPasses \/ StartupSkipsUpdate \/ Mount \/ MountFails
           \/ CheckSkips \/ CheckRefuses \/ FinishUpdate \/ LeaveToOtherSlot \/ EndOfChecks
           \/ Reboot \/ Handover \/ Restart \/ PowerCut
  <2>1. pc' \notin {"erase", "copy", "finish"}
    BY <1>4 DEF B0Boot, StartupHangs, StartupPasses, StartupSkipsUpdate, Mount, MountFails,
       CheckSkips, CheckRefuses, FinishUpdate, NextStep, LeaveToOtherSlot, EndOfChecks, Reboot,
       Handover, Restart, PowerCut, Reset
  <2> QED
    BY <2>1
<1> QED
  BY <1>1, <1>2, <1>3, <1>4 DEF Next, Device

-----------------------------------------------------------------------------
(* The running copy, and with it the bootloader, survives.                 *)

LEMMA RunningCopyStep ==
    ASSUME TypeOK, CopyJustified, RunningCopyIntact, [Next]_vars
    PROVE  RunningCopyIntact'
<1> USE DEF RunningCopyIntact
<1>1. CASE B0Boot
  <2>1. /\ pc' \in Running => B0Bootable(active')
        /\ img' = img /\ have' = have /\ valid' = valid
    BY <1>1 DEF B0Boot, B0Choice, Running, parts
  <2> QED
    BY <2>1 DEF B0Bootable, Whole
<1>2. CASE Erase \/ EraseFails \/ CopyChunk
  <2>1. /\ pc \in {"erase", "copy"} /\ pc # "reboot" /\ active' = active
        /\ task.dst \in Parts /\ task.dst # active /\ active \in Parts
    BY <1>2, TaskFacts
       DEF Erase, EraseFails, CopyChunk, boot, task, TypeOK, ControlTypeOK, CheckTypeOK,
           CopyJustified, Running
  <2>2. img'[active] = img[active] /\ have'[active] = have[active] /\ valid'[active] = valid[active]
    BY <1>2, <2>1 DEF Erase, EraseFails, PartlyErased, CopyChunk, TypeOK, PartsTypeOK
  <2> QED
    BY <2>1, <2>2 DEF Whole, Running
<1>3. CASE LeaveToOtherSlot
  BY <1>3 DEF LeaveToOtherSlot, Checking, Running, Whole
<1>4. CASE Reboot \/ Restart \/ PowerCut
  BY <1>4 DEF Reboot, Restart, PowerCut, Reset, Running
<1>5. CASE StartupHangs \/ Handover
  BY <1>5 DEF StartupHangs, Handover, Running
<1>6. CASE \/ StartupPasses \/ StartupSkipsUpdate \/ Mount \/ MountFails \/ CheckSkips
           \/ CheckRefuses \/ CheckAccepts \/ CopyGivesUp \/ CopyFails \/ CopyEnds
           \/ FinishUpdate \/ EndOfChecks
  <2>1. /\ pc \in Running /\ pc # "reboot"
        /\ img' = img /\ have' = have /\ valid' = valid /\ active' = active
    BY <1>6 DEF StartupPasses, StartupSkipsUpdate, Mount, MountFails, CheckSkips, CheckRefuses,
       CheckAccepts, Checking, CopyGivesUp, CopyFails, CopyEnds, FinishUpdate, EndOfChecks,
       parts, boot, Running
  <2> QED
    BY <2>1 DEF Whole
<1>7. CASE Upload \/ UNCHANGED vars
  <2>1. pc' = pc /\ img' = img /\ have' = have /\ valid' = valid /\ active' = active
    BY <1>7 DEF Upload, vars, parts, boot
  <2> QED
    BY <2>1 DEF Whole
<1> QED
  BY <1>1, <1>2, <1>3, <1>4, <1>5, <1>6, <1>7 DEF Next, Device

LEMMA BootloaderStep ==
    ASSUME TypeOK, CopyJustified, RunningCopyIntact, BootloaderSurvives, [Next]_vars
    PROVE  BootloaderSurvives'
<1>1. CASE UNCHANGED parts
  BY <1>1 DEF BootloaderSurvives, B0Bootable, Whole, parts
<1>2. CASE Erase \/ EraseFails \/ CopyChunk \/ (PowerCut /\ pc = "erase")
  <2>1. /\ pc \in {"erase", "copy"} /\ active \in Slots
        /\ task.dst \in Parts /\ task.dst # active
    BY <1>2, TaskFacts
       DEF Erase, EraseFails, CopyChunk, task, TypeOK, ControlTypeOK, CheckTypeOK, CopyJustified,
           Running
  <2>2. B0Bootable(active)
    BY <2>1 DEF RunningCopyIntact, B0Bootable, Running
  <2>3. img'[active] = img[active] /\ have'[active] = have[active] /\ valid'[active] = valid[active]
    BY <1>2, <2>1 DEF Erase, EraseFails, PartlyErased, CopyChunk, PowerCut, TypeOK, PartsTypeOK
  <2>4. have'[active] = Chunks /\ valid'[active] /\ B0Accepts(img'[active], active)
    BY <2>2, <2>3 DEF B0Bootable, Whole
  <2>5. \E s \in Slots : have'[s] = Chunks /\ valid'[s] /\ B0Accepts(img'[s], s)
    BY <2>1, <2>4
  <2> QED
    BY <2>5 DEF BootloaderSurvives, B0Bootable, Whole
<1>3. CASE PowerCut /\ pc # "erase"
  BY <1>1, <1>3 DEF PowerCut, parts
<1>4. CASE LeaveToOtherSlot
  <2>1. active \in Slots /\ B0Bootable(active) /\ img' = img /\ have' = have
    BY <1>4 DEF LeaveToOtherSlot, Checking, RunningCopyIntact, B0Bootable, TypeOK, ControlTypeOK,
       Running
  <2>2. CASE valid' = valid
    BY <1>1, <2>1, <2>2 DEF parts
  <2>3. CASE valid' # valid
    <3>1. active = "s0" /\ valid' = [valid EXCEPT !["s0"] = FALSE]
      BY <1>4, <2>3 DEF LeaveToOtherSlot, AfterLeaving, img_invalidate
    <3>2. ~valid'["s0"]
      BY <3>1 DEF TypeOK, PartsTypeOK
    <3> QED
      BY <2>1, <3>1, <3>2 DEF BootloaderSurvives, B0Bootable, Whole
  <2> QED
    BY <2>2, <2>3
<1> QED
  BY <1>1, <1>2, <1>3, <1>4, WritesParts

(* The part of VerifiedContent that needs nothing of the hardware.         *)
AppsVerified == \A p \in Parts \ Slots : Verified(img[p], p)

LEMMA AppsVerifiedStep ==
    ASSUME TypeOK, CopyJustified, AppsVerified, [Next]_vars
    PROVE  AppsVerified'
<1>1. CASE Erase
  <2>1. task.dst \in Parts
    BY <1>1, TaskFacts DEF Erase, task, TypeOK, ControlTypeOK, CheckTypeOK, Running
  <2>2. /\ img' = [img EXCEPT ![task.dst] = file]
        /\ task.dst \notin Slots => Verified(file, task.dst)
    BY <1>1 DEF Erase, CopyJustified
  <2> QED
    BY <2>1, <2>2 DEF AppsVerified, TypeOK, PartsTypeOK
<1>2. CASE ~Erase
  <2>1. img' = img
    BY <1>2, WritesParts DEF parts, EraseFails, CopyChunk, LeaveToOtherSlot, PowerCut
  <2> QED
    BY <2>1 DEF AppsVerified
<1> QED
  BY <1>1, <1>2

(* Strengthened by the two facts about the copy, safety is inductive.      *)
IInv == TypeOK /\ CopyJustified /\ RunningCopyIntact /\ BootloaderSurvives /\ AppsVerified

LEMMA Inductive == Spec => []IInv
<1>1. Init => IInv
  <2> SUFFICES ASSUME Init PROVE IInv
    OBVIOUS
  <2>1. TypeOK
    BY TypeInit
  <2>2. CopyJustified /\ RunningCopyIntact
    BY DEF Init, CopyJustified, RunningCopyIntact, Running
  <2>3. AppsVerified
    BY FactoryAssumption DEF Init, AppsVerified
  <2>4. B0Bootable("s0")
    BY FactoryAssumption DEF Init, B0Bootable, Whole, Verified
  <2> QED
    BY <2>1, <2>2, <2>3, <2>4 DEF IInv, BootloaderSurvives
<1>2. IInv /\ [Next]_vars => IInv'
  <2>1. IInv => FileHeld
    BY DEF IInv, CopyJustified, FileHeld, file
  <2> QED
    BY <2>1, TypeStep, CopyJustifiedStep, RunningCopyStep, BootloaderStep, AppsVerifiedStep
       DEF IInv
<1> QED
  BY <1>1, <1>2, PTL DEF Spec

(* The state variables keep their types, a running MCUboot always has a    *)
(* slot and the checks never run past the fourth.                          *)
THEOREM TypeCorrect == Spec => []TypeOK
<1>1. IInv => TypeOK
  BY DEF IInv
<1> QED
  BY <1>1, Inductive, PTL

(* Nothing changes between a file's checks and the erase they justify: the *)
(* file is no older and verified for the partition, in a slot of a boot    *)
(* with failing calls or no hardware name only what the buffer holds is.   *)
THEOREM CopyIsJustified == Spec => []CopyJustified
<1>1. IInv => CopyJustified
  BY DEF IInv
<1> QED
  BY <1>1, Inductive, PTL

(* MCUboot never damages the copy of itself that is running.               *)
THEOREM RunningCopyStaysIntact == Spec => []RunningCopyIntact
<1>1. IInv => RunningCopyIntact
  BY DEF IInv
<1> QED
  BY <1>1, Inductive, PTL

(* No sequence of updates, cuts and failures destroys both bootloaders:    *)
(* only img_invalidate can leave B0 with nothing to start.                 *)
THEOREM BootloaderNeverDestroyed == Spec => []BootloaderSurvives
<1>1. IInv => BootloaderSurvives
  BY DEF IInv
<1> QED
  BY <1>1, Inductive, PTL

(* The anti-rollback counter of a partition's image never goes down.       *)
THEOREM NoFwInfoDowngrade == Spec => FwInfoNeverDecreases
<1>1. IInv /\ [Next]_vars => [\A p \in Parts : img'[p].info >= img[p].info]_vars
  <2> SUFFICES ASSUME IInv, [Next]_vars, NEW p \in Parts
               PROVE  img'[p].info >= img[p].info
    OBVIOUS
  <2> USE DEF IInv
  <2>1. img[p] \in Images /\ img[p].info \in Int
    BY ImageFields DEF TypeOK, PartsTypeOK
  <2>2. CASE Erase /\ p = task.dst
    <3>1. img'[p] = file /\ file.info >= img[p].info
      BY <2>2 DEF Erase, CopyJustified, TypeOK, PartsTypeOK
    <3> QED
      BY <3>1
  <2>3. CASE Erase /\ p # task.dst
    BY <2>1, <2>3 DEF Erase, TypeOK, PartsTypeOK
  <2>4. CASE ~Erase
    <3>1. img' = img
      BY <2>4, WritesParts DEF parts, EraseFails, CopyChunk, LeaveToOtherSlot, PowerCut
    <3> QED
      BY <2>1, <3>1
  <2> QED
    BY <2>2, <2>3, <2>4
<1> QED
  BY <1>1, Inductive, PTL DEF Spec, FwInfoNeverDecreases

(* The valid word is cleared in the running slot only, with a file at hand *)
(* that B0 would accept there, or, where a call has failed in this boot or *)
(* MCUboot does not know its hardware name, with such an image in the      *)
(* buffer.                                                                 *)
THEOREM InvalidationIsJustified == Spec => InvalidatedForReplacement
<1>1. IInv /\ [Next]_vars =>
        [\A s \in Slots : valid[s] /\ ~valid'[s] =>
           /\ s = active
           /\ fs'["mcuboot0"] # NoFile
           /\ Trusted' => B0Accepts(fs'["mcuboot0"], s)
           /\ validate_b0_signature(buf', s)]_vars
  <2> SUFFICES ASSUME IInv, [Next]_vars, NEW s \in Slots, valid[s], ~valid'[s]
               PROVE  /\ s = active
                      /\ fs'["mcuboot0"] # NoFile
                      /\ Trusted' => B0Accepts(fs'["mcuboot0"], s)
                      /\ validate_b0_signature(buf', s)
    OBVIOUS
  <2> USE DEF IInv
  <2>1. LeaveToOtherSlot
    <3>1. CASE Erase
      BY <3>1 DEF Erase, TypeOK, PartsTypeOK
    <3>2. CASE UNCHANGED parts \/ EraseFails \/ CopyChunk \/ PowerCut
      BY <3>2 DEF parts, EraseFails, CopyChunk, PowerCut
    <3> QED
      BY <3>1, <3>2, WritesParts
  <2>2. active = "s0" /\ valid' = [valid EXCEPT !["s0"] = FALSE]
    BY <2>1 DEF LeaveToOtherSlot, AfterLeaving, img_invalidate
  <2>3. s = "s0"
    BY <2>2 DEF TypeOK, PartsTypeOK
  <2>4. Checking /\ ~task.update /\ Accepted /\ fs' = fs /\ hw' = hw
    BY <2>1 DEF LeaveToOtherSlot
  <2>5. /\ task.dst = "s0" /\ task.file = "mcuboot0" /\ file # NoFile
        /\ validate_b0_signature(buf', "s0")
        /\ Trusted' => B0Accepts(file, "s0")
    BY <2>2, <2>4, AcceptedFacts DEF FileOf, Accepted
  <2>6. file = fs'["mcuboot0"]
    BY <2>4, <2>5 DEF file
  <2> QED
    BY <2>2, <2>3, <2>5, <2>6
<1> QED
  BY <1>1, Inductive, PTL DEF Spec, InvalidatedForReplacement

-----------------------------------------------------------------------------
(* No file is left behind.                                                 *)

(* A boot starts with the first check and, as long as no call has failed,  *)
(* the files of the checks already made are gone.                          *)
FilesHandled ==
    /\ pc \in {"b0", "startup", "mount"} => step = 1
    /\ pc \in {"check", "erase", "copy", "finish"} /\ clean =>
          \A n \in 1..4 : n < step => fs[Task(active, n).file] = NoFile

LEMMA FilesHandledStep ==
    ASSUME TypeOK, FilesHandled, [Next]_vars
    PROVE  FilesHandled'
<1> USE DEF FilesHandled
<1>1. CASE CheckSkips \/ CheckRefuses \/ FinishUpdate
  <2>c. pc' = "check"
    BY <1>1 DEF CheckSkips, CheckRefuses, FinishUpdate, NextStep
  <2> SUFFICES ASSUME clean', NEW n \in 1..4, n < step'
               PROVE  fs'[Task(active', n).file] = NoFile
    BY <2>c
  <2>1. /\ pc \in {"check", "finish"} /\ clean /\ active \in Slots /\ active' = active
        /\ step \in 1..5 /\ step' = step + 1
    BY <1>1 DEF CheckSkips, CheckRefuses, FinishUpdate, Checking, NextStep, NoFault, Fault,
       TypeOK, ControlTypeOK, CheckTypeOK, Running
  <2>2. fs' = [fs EXCEPT ![task.file] = NoFile] \/ (fs' = fs /\ fs[task.file] = NoFile)
    BY <1>1, <2>1 DEF CheckSkips, CheckRefuses, FinishUpdate, NoFault, Fault, unlink, file
  <2>3. task.file \in Files /\ fs'[task.file] = NoFile
    BY <2>1, <2>2, TaskFacts DEF task, TypeOK
  <2>4. CASE n = step
    BY <2>1, <2>3, <2>4 DEF task
  <2>5. CASE n # step
    <3>1. n < step
      BY <2>1, <2>5
    <3>2. fs[Task(active, n).file] = NoFile
      BY <2>1, <3>1
    <3>3. Task(active, n).file \in Files
      BY <2>1, TaskFacts
    <3> QED
      BY <2>1, <2>2, <2>3, <3>2, <3>3 DEF TypeOK
  <2> QED
    BY <2>4, <2>5
<1>2. CASE Mount
  <2>1. step' = 1 /\ pc' = "check"
    BY <1>2 DEF Mount, boot
  <2> QED
    BY <2>1
<1>3. CASE CheckAccepts \/ CopyGivesUp \/ Erase \/ EraseFails \/ CopyChunk \/ CopyFails \/ CopyEnds
  <2>1. /\ pc \in {"check", "erase", "copy", "finish"}
        /\ pc' \in {"erase", "copy", "finish"}
        /\ active' = active /\ step' = step /\ fs' = fs
    BY <1>3 DEF CheckAccepts, Checking, CopyGivesUp, Erase, EraseFails, CopyChunk, CopyFails,
       CopyEnds, boot
  <2>2. clean' => clean
    BY <1>3 DEF CheckAccepts, Accepted, CopyGivesUp, Erase, EraseFails, CopyChunk, CopyFails,
       CopyEnds, NoFault, Fault, boot
  <2> QED
    BY <2>1, <2>2
<1>4. CASE Upload \/ UNCHANGED vars
  <2>1. /\ pc' = pc /\ active' = active /\ step' = step /\ clean' = clean
        /\ pc # "app" => fs' = fs
    BY <1>4 DEF Upload, boot, vars
  <2> QED
    BY <2>1
<1>5. CASE B0Boot \/ StartupPasses \/ Reboot \/ Restart \/ PowerCut
  <2>1. pc' \notin {"check", "erase", "copy", "finish"} /\ step' = 1
    BY <1>5 DEF B0Boot, StartupPasses, Reboot, Restart, PowerCut, Reset
  <2> QED
    BY <2>1
<1>6. CASE \/ StartupHangs \/ StartupSkipsUpdate \/ MountFails
           \/ LeaveToOtherSlot \/ EndOfChecks \/ Handover
  <2>1. pc' \notin {"b0", "startup", "mount", "check", "erase", "copy", "finish"}
    BY <1>6 DEF StartupHangs, StartupSkipsUpdate, MountFails, LeaveToOtherSlot, EndOfChecks,
       Handover
  <2> QED
    BY <2>1
<1> QED
  BY <1>1, <1>2, <1>3, <1>4, <1>5, <1>6 DEF Next, Device

LEMMA HandoverCleanStep ==
    ASSUME TypeOK, FilesHandled, HandoverClean, [Next]_vars
    PROVE  HandoverClean'
<1> USE DEF HandoverClean
<1>1. CASE EndOfChecks
  <2> SUFFICES ASSUME clean', NEW f \in Files PROVE fs'[f] = NoFile
    OBVIOUS
  <2>1. /\ pc = "check" /\ clean /\ step = 5 /\ fs' = fs /\ active \in Slots
    BY <1>1 DEF EndOfChecks, boot, TypeOK, ControlTypeOK, Running
  <2>2. PICK n \in 1..4 : Task(active, n).file = f
    BY <2>1, TasksCoverFiles
  <2> QED
    BY <2>1, <2>2 DEF FilesHandled
<1>2. CASE StartupSkipsUpdate \/ MountFails
  BY <1>2 DEF StartupSkipsUpdate, MountFails, Fault
<1>3. CASE Upload \/ UNCHANGED vars
  BY <1>3 DEF Upload, boot, vars
<1>4. CASE ~(EndOfChecks \/ StartupSkipsUpdate \/ MountFails \/ Upload \/ UNCHANGED vars)
  <2>1. pc' # "handover"
    BY <1>4 DEF Next, Device, B0Boot, StartupHangs, StartupPasses, Mount, CheckSkips, CheckRefuses,
       CheckAccepts, CopyGivesUp, Erase, EraseFails, CopyChunk, CopyFails, CopyEnds, FinishUpdate,
       NextStep, LeaveToOtherSlot, Reboot, Handover, Restart, PowerCut, Reset
  <2> QED
    BY <2>1
<1> QED
  BY <1>1, <1>2, <1>3, <1>4

(* A boot without a failing call never hands over with a file pending.     *)
THEOREM NoFileLeftBehind == Spec => []HandoverClean
<1>1. Init => FilesHandled /\ HandoverClean
  BY DEF Init, FilesHandled, HandoverClean
<1>2. IInv /\ FilesHandled /\ HandoverClean /\ [Next]_vars => FilesHandled' /\ HandoverClean'
  BY FilesHandledStep, HandoverCleanStep DEF IInv
<1> QED
  BY <1>1, <1>2, Inductive, PTL DEF Spec

-----------------------------------------------------------------------------
(* The hardware.                                                           *)

OwnHardware == \A p \in Parts : img[p].hw = Factory["s0"].hw

(* The name on_startup read is the device's, and so is the name in a file  *)
(* that passed; the verdicts can be trusted, so what slots hold is genuine.*)
HardwareChecked ==
    faults = 0 =>
        /\ OwnHardware /\ clean
        /\ \A s \in Slots : Verified(img[s], s)
        /\ pc \in {"mount", "check", "erase", "copy", "finish"} => hw = Factory["s0"].hw
        /\ pc = "erase" => file.hw = Factory["s0"].hw

LEMMA CleanKept ==
    ASSUME clean, ~Fault, [Next]_vars
    PROVE  clean'
BY DEF Next, vars, Reset, boot, NoFault, Device, B0Boot, StartupHangs, StartupPasses,
   StartupSkipsUpdate, Mount, MountFails, CheckSkips, CheckRefuses, CheckAccepts, Accepted,
   CopyGivesUp, Erase, EraseFails, CopyChunk, CopyFails, CopyEnds, FinishUpdate, LeaveToOtherSlot,
   EndOfChecks, Reboot, Handover, Upload, Restart, PowerCut

LEMMA HardwareStep ==
    ASSUME Factory["s0"].hw # NoHw, TypeOK, CopyJustified, HardwareChecked, [Next]_vars
    PROVE  HardwareChecked'
<1> SUFFICES ASSUME faults' = 0
             PROVE  HardwareChecked'
  BY DEF HardwareChecked
<1> USE DEF HardwareChecked
<1>0. faults = 0 /\ ~Fault
  BY WritesBudgets DEF Fault, TypeOK, BudgetTypeOK
<1> USE <1>0
<1>1. OwnHardware' /\ clean' /\ \A s \in Slots : Verified(img'[s], s)
  <2>1. CASE Erase
    <3>1. /\ task.dst \in Parts /\ img' = [img EXCEPT ![task.dst] = file] /\ clean' = clean
          /\ file.hw = Factory["s0"].hw
      BY <2>1, TaskFacts DEF Erase, task, TypeOK, ControlTypeOK, CheckTypeOK, Running
    <3>2. Verified(file, task.dst)
      BY <2>1 DEF Erase, CopyJustified, Trusted
    <3> QED
      BY <3>1, <3>2 DEF OwnHardware, TypeOK, PartsTypeOK
  <2>2. CASE ~Erase
    <3>1. img' = img
      BY <2>2, WritesParts DEF parts, EraseFails, CopyChunk, LeaveToOtherSlot, PowerCut
    <3>2. clean'
      BY <1>0, CleanKept
    <3> QED
      BY <3>1, <3>2 DEF OwnHardware
  <2> QED
    BY <2>1, <2>2
<1>2. CASE StartupPasses
  <2>1. pc = "startup" /\ pc' = "mount" /\ hw' = img[active].hw /\ active \in Parts
    BY <1>0, <1>2 DEF StartupPasses, TypeOK, ControlTypeOK, Running
  <2> QED
    BY <1>1, <2>1 DEF OwnHardware
<1>3. CASE CheckAccepts
  <2>1. /\ Checking /\ PassesAsRead /\ pc' = "erase"
        /\ fs' = fs /\ active' = active /\ step' = step /\ hw' = hw
    BY <1>0, <1>3 DEF CheckAccepts, Accepted
  <2>2. HwNameMatches(hw, HwNameSeen(file, task.dst, TRUE))
    BY <2>1, PassesFacts DEF PassesAsRead
  <2>3. file.hw = Factory["s0"].hw
    BY <2>1, <2>2 DEF HwNameMatches, HwNameSeen, Checking
  <2>4. task' = task /\ file' = file
    BY <2>1 DEF task, file
  <2> QED
    BY <1>1, <2>1, <2>3, <2>4 DEF Checking
<1>4. CASE \/ Mount \/ CheckSkips \/ CheckRefuses \/ CopyGivesUp \/ Erase \/ EraseFails \/ CopyChunk
           \/ CopyFails \/ CopyEnds \/ FinishUpdate
  <2>1. /\ pc \in {"mount", "check", "erase", "copy", "finish"}
        /\ pc' # "erase" /\ hw' = hw
    BY <1>4 DEF Mount, CheckSkips, CheckRefuses, Checking, CopyGivesUp, Erase, EraseFails,
       CopyChunk, CopyFails, CopyEnds, FinishUpdate, NextStep, boot
  <2> QED
    BY <1>1, <2>1
<1>5. CASE Upload \/ UNCHANGED vars
  <2>1. pc' = pc /\ hw' = hw /\ active' = active /\ step' = step /\ (pc # "app" => fs' = fs)
    BY <1>5 DEF Upload, boot, vars
  <2>2. task' = task /\ (pc # "app" => file' = file)
    BY <2>1 DEF task, file
  <2> QED
    BY <1>1, <2>1, <2>2
<1>6. CASE \/ B0Boot \/ StartupHangs \/ StartupSkipsUpdate \/ MountFails \/ LeaveToOtherSlot
           \/ EndOfChecks \/ Reboot \/ Handover \/ Restart \/ PowerCut
  <2>1. pc' \notin {"mount", "check", "erase", "copy", "finish"}
    BY <1>6 DEF B0Boot, StartupHangs, StartupSkipsUpdate, MountFails, LeaveToOtherSlot, EndOfChecks,
       Reboot, Handover, Restart, PowerCut, Reset
  <2> QED
    BY <1>1, <2>1
<1> QED
  BY <1>2, <1>3, <1>4, <1>5, <1>6 DEF Next, Device

FactoryNamesHardware ==
    Factory["s0"].hw # NoHw /\ \A p \in Parts : Factory[p].hw = Factory["s0"].hw

LEMMA HardwareInvariant ==
    ASSUME FactoryNamesHardware
    PROVE  Spec => []HardwareChecked
<1>1. Init => HardwareChecked
  BY FactoryAssumption DEF FactoryNamesHardware, Init, HardwareChecked, OwnHardware
<1>2. IInv /\ HardwareChecked /\ [Next]_vars => HardwareChecked'
  BY HardwareStep DEF FactoryNamesHardware, IInv
<1> QED
  BY <1>1, <1>2, Inductive, PTL DEF Spec

(* On a device whose factory images all name its hardware every partition  *)
(* keeps to that hardware, self-updates of MCUboot included, as long as no *)
(* call fails.                                                             *)
THEOREM OnlyOwnHardware ==
    ASSUME FactoryNamesHardware
    PROVE  Spec => []HardwareKept
<1>1. HardwareChecked => HardwareKept
  BY DEF HardwareChecked, HardwareKept, OwnHardware
<1> QED
  BY <1>1, HardwareInvariant, PTL

(* On such a device nothing that is not verified for it is ever written to *)
(* an application partition, whatever calls fail, and, as long as none     *)
(* does, nothing that B0 would not accept to a slot: although B0's verdict *)
(* is on the buffer, what is copied is the file.                           *)
THEOREM ContentIsVerified ==
    ASSUME FactoryNamesHardware
    PROVE  Spec => []VerifiedContent
<1>1. IInv /\ HardwareChecked => VerifiedContent
  BY DEF IInv, AppsVerified, HardwareChecked, VerifiedContent
<1> QED
  BY <1>1, Inductive, HardwareInvariant, PTL

-----------------------------------------------------------------------------
(* FwUpdate implements Partitions, for all values of the constants.        *)

USE DEF Abstract!Slots, Abstract!Parts, Abstract!NoInfo, Abstract!NoPart

(* The two modules make the same checks.                                   *)
LEMMA SameChecks ==
    ASSUME NEW i, NEW p
    PROVE  /\ Abstract!B0Accepts(i, p) <=> B0Accepts(i, p)
           /\ Abstract!Verified(i, p) <=> Verified(i, p)
<1>1. Abstract!B0Accepts(i, p) <=> B0Accepts(i, p)
  BY DEF Abstract!B0Accepts, B0Accepts
<1>2. Abstract!validate_file(i, p) <=> validate_file(i, p)
  BY DEF Abstract!validate_file, validate_file
<1> QED
  BY <1>1, <1>2 DEF Abstract!Verified, Verified

(* B0 starts a copy in FwUpdate as in Partitions.                          *)
LEMMA SameStart ==
    ASSUME NEW s \in Slots
    PROVE  Abstract!Startable(s) <=> B0Bootable(s)
BY SameChecks DEF Abstract!Startable, B0Bootable

(* What FwUpdate writes is expendable: the running copy is not the target. *)
LEMMA TargetExpendable ==
    ASSUME TypeOK, CopyJustified, RunningCopyIntact, pc \in {"erase", "copy"}
    PROVE  task.dst \in Parts /\ Abstract!Expendable(task.dst)
<1>1. /\ active \in Slots /\ active # task.dst
      /\ task.dst \in Parts
  BY TaskFacts DEF task, TypeOK, ControlTypeOK, CheckTypeOK, CopyJustified, Running
<1>2. B0Bootable(active)
  BY DEF RunningCopyIntact, B0Bootable, Running
<1>3. Abstract!Startable(active)
  BY <1>1, <1>2, SameStart
<1> QED
  BY <1>1, <1>3 DEF Abstract!Expendable

(* s1 never clears its own valid word.                                     *)
OnlyS0Retires == valid["s1"]

LEMMA OnlyS0RetiresStep ==
    ASSUME TypeOK, CopyJustified, OnlyS0Retires, [Next]_vars
    PROVE  OnlyS0Retires'
<1> USE DEF OnlyS0Retires
<1>1. CASE Erase
  BY <1>1 DEF Erase, TypeOK, PartsTypeOK
<1>2. CASE LeaveToOtherSlot
  BY <1>2 DEF LeaveToOtherSlot, AfterLeaving, img_invalidate, TypeOK, PartsTypeOK
<1>3. CASE UNCHANGED parts \/ EraseFails \/ CopyChunk \/ PowerCut
  BY <1>3 DEF parts, EraseFails, CopyChunk, PowerCut
<1> QED
  BY <1>1, <1>2, <1>3, WritesParts

-----------------------------------------------------------------------------
(* Each step that changes flash is a step of Partitions.                   *)

Mapped == IInv /\ OnlyS0Retires

LEMMA EraseMaps ==
    ASSUME Mapped, Erase
    PROVE  Abstract!Next
<1>1. task.file \in Files /\ file \in Images
  BY TaskFacts DEF task, file, Erase, Mapped, IInv, CopyJustified, TypeOK, ControlTypeOK, CheckTypeOK,
     Running
<1>2. task.dst \in Parts /\ Abstract!Expendable(task.dst)
  BY TargetExpendable DEF Erase, Mapped, IInv
<1>3. PICK p \in Parts, i \in Images : p = task.dst /\ i = file
  BY <1>1, <1>2
<1>4. Abstract!Expendable(p)
  BY <1>2, <1>3
<1>5. (Trusted \/ p \notin Slots => Verified(i, p)) /\ i.info >= img[p].info
  BY <1>3 DEF Erase, Mapped, IInv, CopyJustified
<1>6. /\ p = task.dst'
      /\ pc = "erase" /\ pc' = "copy"
      /\ img' = [img EXCEPT ![p] = i]
      /\ have' = [have EXCEPT ![p] = {}]
      /\ valid' = [valid EXCEPT ![p] = TRUE]
  BY <1>3 DEF Erase, task
<1>7. [q \in Parts |-> Whole(q)]' = [[q \in Parts |-> Whole(q)] EXCEPT ![p] = FALSE]
  <2>1. Chunks # {}
    BY ChunksAssumption DEF Chunks
  <2> QED
    BY <1>6, <2>1 DEF Whole, Mapped, IInv, TypeOK, PartsTypeOK
<1>8. {s \in Slots : ~valid[s]}' = {s \in Slots : ~valid[s]} \ {p}
  BY <1>6 DEF Mapped, IInv, TypeOK, PartsTypeOK
<1>9. Abstract!Begin(p, i)
  BY <1>4, <1>5, <1>6, <1>7, <1>8, SameChecks DEF Abstract!Begin
<1> QED
  BY <1>9 DEF Abstract!Next

(* An erase that stops half-way damages a whole partition or leaves a      *)
(* partition as incomplete as it was.                                      *)
LEMMA PartlyErasedMaps ==
    ASSUME Mapped, pc = "erase", pc' # "copy", PartlyErased(task.dst), UNCHANGED <<img, valid>>
    PROVE  [Abstract!Next]_(Abstract!pvars)
<1> DEFINE p == task.dst
<1>1. p \in Parts /\ Abstract!Expendable(p)
  BY TargetExpendable DEF Mapped, IInv
<1>2. PICK left \in SUBSET have[p] : have' = [have EXCEPT ![p] = left]
  BY DEF PartlyErased
<1>3. have \in [Parts -> SUBSET Chunks]
  BY DEF Mapped, IInv, TypeOK, PartsTypeOK
<1>4. CASE left = Chunks
  <2>1. [q \in Parts |-> Whole(q)]' = [q \in Parts |-> Whole(q)]
    BY <1>1, <1>2, <1>3, <1>4 DEF Whole
  <2> QED
    BY <2>1 DEF Abstract!pvars
<1>5. CASE left # Chunks
  <2>1. [q \in Parts |-> Whole(q)]' = [[q \in Parts |-> Whole(q)] EXCEPT ![p] = FALSE]
    BY <1>1, <1>2, <1>3, <1>5 DEF Whole
  <2>2. Abstract!Damage(p)
    BY <1>1, <2>1 DEF Abstract!Damage
  <2> QED
    BY <1>1, <2>2 DEF Abstract!Next
<1> QED
  BY <1>4, <1>5

LEMMA CopyChunkMaps ==
    ASSUME Mapped, CopyChunk
    PROVE  [Abstract!Next]_(Abstract!pvars)
<1> DEFINE p == task.dst
<1>1. p \in Parts /\ p # "nopart" /\ task' = task /\ pc = "copy" /\ pc' = "copy"
  BY TargetExpendable DEF CopyChunk, Mapped, IInv, task
<1>2. /\ have \in [Parts -> SUBSET Chunks]
      /\ have' = [have EXCEPT ![p] = have[p] \cup {chunk}]
      /\ UNCHANGED <<img, valid>>
  BY DEF CopyChunk, Mapped, IInv, TypeOK, PartsTypeOK
<1>3. chunk \in Chunks
  BY ChunksAssumption DEF CopyChunk, Mapped, IInv, TypeOK, CheckTypeOK, Chunks
<1>4. CASE have[p] \cup {chunk} = Chunks
  <2>1. [q \in Parts |-> Whole(q)]' = [[q \in Parts |-> Whole(q)] EXCEPT ![p] = TRUE]
    BY <1>1, <1>2, <1>4 DEF Whole
  <2>2. Abstract!Complete
    BY <1>1, <1>2, <2>1 DEF Abstract!Complete
  <2> QED
    BY <2>2 DEF Abstract!Next
<1>5. CASE have[p] \cup {chunk} # Chunks
  <2>1. [q \in Parts |-> Whole(q)]' = [q \in Parts |-> Whole(q)]
    BY <1>1, <1>2, <1>3, <1>5 DEF Whole
  <2> QED
    BY <1>1, <1>2, <2>1 DEF Abstract!pvars
<1> QED
  BY <1>4, <1>5

LEMMA LeaveMaps ==
    ASSUME Mapped, LeaveToOtherSlot
    PROVE  [Abstract!Next]_(Abstract!pvars)
<1>1. /\ pc = "check" /\ pc' = "reboot"
      /\ UNCHANGED <<img, have>>
      /\ valid \in [Parts -> BOOLEAN]
  BY DEF LeaveToOtherSlot, Checking, Mapped, IInv, TypeOK, PartsTypeOK
<1>2. [q \in Parts |-> Whole(q)]' = [q \in Parts |-> Whole(q)]
  BY <1>1 DEF Whole
<1>3. CASE valid' = valid
  BY <1>1, <1>2, <1>3 DEF Abstract!pvars
<1>4. CASE valid' # valid
  <2>1. active = "s0" /\ valid' = [valid EXCEPT !["s0"] = FALSE]
    BY <1>4 DEF LeaveToOtherSlot, AfterLeaving, img_invalidate
  <2>2. Abstract!Startable("s0")
    BY <1>1, <2>1, SameStart DEF Mapped, IInv, RunningCopyIntact, B0Bootable, Running
  <2>3. {s \in Slots : ~valid[s]}' = {"s0"}
    BY <1>1, <2>1 DEF Mapped, OnlyS0Retires
  <2>4. Abstract!Retire
    BY <1>1, <1>2, <2>2, <2>3 DEF Abstract!Retire
  <2> QED
    BY <2>4 DEF Abstract!Next
<1> QED
  BY <1>3, <1>4

(* Leaving the copy is Stop; every other step leaves flash as it is.       *)
LEMMA FlashKeptMaps ==
    ASSUME Mapped, UNCHANGED parts, pc' # "copy" \/ UNCHANGED <<pc, active, step>>
    PROVE  [Abstract!Next]_(Abstract!pvars)
<1>1. /\ UNCHANGED <<img, valid>>
      /\ [q \in Parts |-> Whole(q)]' = [q \in Parts |-> Whole(q)]
  BY DEF parts, Whole
<1>2. CASE pc = "copy" /\ pc' # "copy"
  <2>1. task.dst # "nopart"
    BY <1>2, TargetExpendable DEF Mapped, IInv
  <2>2. Abstract!Stop
    BY <1>1, <1>2, <2>1 DEF Abstract!Stop
  <2> QED
    BY <2>2 DEF Abstract!Next
<1>3. CASE pc # "copy" \/ UNCHANGED <<pc, active, step>>
  BY <1>1, <1>3 DEF Abstract!pvars, task
<1> QED
  BY <1>2, <1>3

LEMMA EntersCopy ==
    ASSUME [Next]_vars
    PROVE  Erase \/ CopyChunk \/ pc' # "copy" \/ UNCHANGED <<pc, active, step>>
<1>1. CASE Device
  BY <1>1 DEF Device, B0Boot, StartupHangs, StartupPasses, StartupSkipsUpdate, Mount, MountFails,
     CheckSkips, CheckRefuses, CheckAccepts, NextStep, CopyGivesUp, EraseFails, CopyFails,
     CopyEnds, FinishUpdate, LeaveToOtherSlot, EndOfChecks, Reboot, Reset, Handover
<1>2. CASE Upload \/ Restart \/ PowerCut \/ UNCHANGED vars
  BY <1>2 DEF Upload, boot, Restart, PowerCut, Reset, vars
<1> QED
  BY <1>1, <1>2 DEF Next

LEMMA StepMaps ==
    ASSUME Mapped, [Next]_vars
    PROVE  [Abstract!Next]_(Abstract!pvars)
<1>1. CASE EraseFails
  BY <1>1, PartlyErasedMaps DEF EraseFails
<1>2. CASE PowerCut /\ pc = "erase"
  BY <1>2, PartlyErasedMaps DEF PowerCut, Reset
<1>3. CASE PowerCut /\ pc # "erase"
  BY <1>3, FlashKeptMaps DEF PowerCut, Reset, parts
<1>4. CASE UNCHANGED parts /\ ~Erase /\ ~CopyChunk
  BY <1>4, FlashKeptMaps, EntersCopy
<1> QED
  BY <1>1, <1>2, <1>3, <1>4, EraseMaps, CopyChunkMaps, LeaveMaps, WritesParts

(* Whatever the device does, flash changes only as Partitions allows.      *)
THEOREM PromiseKept == Spec => KeepsPromise
<1>1. Init => Abstract!Init
  BY DEF Init, Abstract!Init, Whole
<1>2. Init => OnlyS0Retires
  BY DEF Init, OnlyS0Retires
<1>3. IInv /\ OnlyS0Retires /\ [Next]_vars => OnlyS0Retires'
  BY OnlyS0RetiresStep DEF IInv
<1>4. IInv /\ OnlyS0Retires /\ [Next]_vars => [Abstract!Next]_(Abstract!pvars)
  BY StepMaps DEF Mapped
<1> QED
  BY <1>1, <1>2, <1>3, <1>4, Inductive, PTL DEF Spec, KeepsPromise, Abstract!Spec

-----------------------------------------------------------------------------
(* What Partitions promises of the bootloader follows from its own steps,  *)
(* so it holds of every program that implements Partitions: here are five  *)
(* variables that FwUpdate has nothing to do with.                         *)

VARIABLES image, whole, retired, writing, trusted

Promise == INSTANCE Partitions WITH Shipped <- Factory

USE DEF Promise!Slots, Promise!Parts, Promise!NoInfo, Promise!NoPart

PromiseTypeOK ==
    /\ image \in [Parts -> Images]
    /\ whole \in [Parts -> BOOLEAN]
    /\ retired \subseteq Slots
    /\ writing \in Parts \cup {Promise!NoPart}

LEMMA PromiseTypeStep ==
    ASSUME PromiseTypeOK, [Promise!Next]_(Promise!pvars)
    PROVE  PromiseTypeOK'
<1> USE DEF PromiseTypeOK
<1>1. CASE \E p \in Parts : Promise!Damage(p)
  BY <1>1 DEF Promise!Damage
<1>2. CASE \E p \in Parts, i \in Images : Promise!Begin(p, i)
  BY <1>2 DEF Promise!Begin
<1>3. CASE Promise!Complete \/ Promise!Stop \/ Promise!Retire \/ UNCHANGED Promise!pvars
  BY <1>3 DEF Promise!Complete, Promise!Stop, Promise!Retire, Promise!pvars
<1> QED
  BY <1>1, <1>2, <1>3 DEF Promise!Next

(* A startable copy that a step leaves alone stays startable.              *)
LEMMA StaysStartable ==
    ASSUME NEW s \in Slots, Promise!Startable(s),
           UNCHANGED image[s], whole'[s], s \notin retired'
    PROVE  Promise!Startable(s)'
BY DEF Promise!Startable

LEMMA SurvivesStep ==
    ASSUME PromiseTypeOK, Promise!Survives, [Promise!Next]_(Promise!pvars)
    PROVE  Promise!Survives'
<1>1. CASE \E p \in Parts : Promise!Damage(p) \/ \E i \in Images : Promise!Begin(p, i)
  <2>1. PICK p \in Parts : Promise!Damage(p) \/ \E i \in Images : Promise!Begin(p, i)
    BY <1>1
  <2>2. PICK s \in Slots \ {p} : Promise!Startable(s)
    BY <2>1 DEF Promise!Damage, Promise!Begin, Promise!Expendable
  <2>3. image'[s] = image[s] /\ whole'[s] = whole[s] /\ s \notin retired'
    BY <2>1, <2>2 DEF Promise!Damage, Promise!Begin, Promise!Startable, PromiseTypeOK
  <2> QED
    BY <2>2, <2>3, StaysStartable DEF Promise!Survives, Promise!Startable
<1>2. CASE Promise!Complete
  <2>1. /\ UNCHANGED <<image, retired>>
        /\ \A s \in Slots : whole[s] => whole'[s]
    BY <1>2 DEF Promise!Complete, PromiseTypeOK
  <2> QED
    BY <2>1 DEF Promise!Survives, Promise!Startable
<1>3. CASE Promise!Stop \/ UNCHANGED Promise!pvars
  BY <1>3 DEF Promise!Stop, Promise!pvars, Promise!Survives, Promise!Startable
<1>4. CASE Promise!Retire
  BY <1>4 DEF Promise!Retire, Promise!Survives, Promise!Startable
<1> QED
  BY <1>1, <1>2, <1>3, <1>4 DEF Promise!Next

(* Whatever keeps the promise, on a device shipped with good images: B0    *)
(* always has a copy of MCUboot to start, or s0 is whole and only retired. *)
THEOREM PromiseSurvives == Promise!Spec => []Promise!Survives
<1>1. Promise!Init => PromiseTypeOK /\ Promise!Survives
  <2>1. Factory \in [Parts -> Images] /\ Verified(Factory["s0"], "s0")
    BY FactoryAssumption
  <2>2. Promise!B0Accepts(Factory["s0"], "s0")
    BY <2>1 DEF Verified, B0Accepts, Promise!B0Accepts
  <2> QED
    BY <2>1, <2>2 DEF Promise!Init, PromiseTypeOK, Promise!Survives, Promise!Startable
<1>2. PromiseTypeOK /\ Promise!Survives /\ [Promise!Next]_(Promise!pvars)
         => PromiseTypeOK' /\ Promise!Survives'
  BY PromiseTypeStep, SurvivesStep
<1> QED
  BY <1>1, <1>2, PTL DEF Promise!Spec

-----------------------------------------------------------------------------
(* The calls of a check amount to one step of FwUpdate, for all images,    *)
(* all prefixes and any number of failing calls and power cuts.            *)

B0Points    == {"b0", "b0read", "b0check"}
EarlyPoints == B0Points \cup {"file", "header"}
MidPoints   == {"reset", "hwrev", "validate"}
LatePoints  == {"fwinfo", "fwread", "compare", "copyopen"}

(* The buffer: as the check found it, as it is once the file is read, or,  *)
(* when a read has failed, a part of the file.                             *)
BufferRead ==
    /\ at \in {"idle", "b0", "b0read"} => mem = buf
    /\ at # "idle" => mem \in Leftovers
    /\ at \notin {"idle", "b0", "b0read"} => failed \/ mem = Loaded
    /\ at \notin {"idle", "b0", "b0read", "refuse"} => mem \in {Loaded, buf}

(* Past B0's part of a slot's check the buffer has passed; the file fits,  *)
(* unless it could not be measured.                                        *)
AfterB0 ==
    /\ at \in B0Points => task.dst \in Slots
    /\ at = "b0check" => failed \/ file.fits
    /\ at \in ({"file", "header"} \cup MidPoints \cup LatePoints) /\ task.dst \in Slots =>
          /\ validate_b0_signature(mem, task.dst)
          /\ failed \/ file.fits

(* What validate_file has put into the header and the hardware name.       *)
SeenSoFar ==
    /\ at \in EarlyPoints \cup {"idle"} => seenVer = 0 /\ seenName = NoHw
    /\ at \in MidPoints => file.hdr /\ seenVer = file.ver
    /\ at = "idle" => failed = FALSE
    /\ at = "reset" => seenName = NoHw
    /\ at \in {"hwrev", "validate"} => file.link = task.dst
    /\ at = "hwrev" => seenName = NoHw
    /\ at = "validate" => seenName = file.hw \/ (failed /\ seenName = NoHw)

(* And what the comparisons find there: the truth, or less when a call has *)
(* failed.                                                                 *)
SeenAtLast ==
    at \in LatePoints =>
        /\ task.dst \notin Slots => validate_file(file, task.dst) /\ seenVer = VersionSeen(file, TRUE)
        /\ \/ /\ seenVer = VersionSeen(file, TRUE)
              /\ seenName = HwNameSeen(file, task.dst, TRUE)
           \/ failed /\ seenName = NoHw /\ seenVer \in {0, VersionSeen(file, TRUE)}

Verdicts ==
    /\ at \in {"compare", "copyopen"} => file.info # NoInfo
    /\ at = "copyopen" => task.update /\ Acceptable
    /\ at = "refuse" => failed \/ ~PassesAsRead

CallInv ==
    /\ CallTypeOK /\ FileHeld /\ HandlesClosed
    /\ BufferRead /\ AfterB0 /\ SeenSoFar /\ SeenAtLast /\ Verdicts

-----------------------------------------------------------------------------
(* The file in hand while a check is under way.                            *)
LEMMA InHand ==
    ASSUME CallTypeOK, pc = "check", step <= 4
    PROVE  /\ task.file \in Files /\ task.dst \in Parts /\ task.update \in BOOLEAN
           /\ active \in Slots
           /\ task.update => task.dst # active
           /\ ~task.update => task.dst = active
           /\ file # NoFile => file \in Images /\ file.info \in Int /\ file.ver \in Nat
                               /\ file.hw \in HwNames \cup {NoHw} /\ file.hdr \in BOOLEAN
                               /\ file.fits \in BOOLEAN
<1>1. active \in Slots /\ step \in 1..5
  BY DEF CallTypeOK, TypeOK, ControlTypeOK, CheckTypeOK, Running
<1>2. /\ task.file \in Files /\ task.dst \in Parts /\ task.update \in BOOLEAN
      /\ task.update => task.dst # active
      /\ ~task.update => task.dst = active
  BY <1>1, TaskFacts DEF task
<1>3. file # NoFile => file \in Images
  BY <1>2 DEF CallTypeOK, TypeOK, file
<1> QED
  BY <1>1, <1>2, <1>3, ImageFields

(* What a file must be to pass.                                            *)
LEMMA PassesMeans ==
    ASSUME CallTypeOK, at # "idle", NEW b, NEW hdr \in BOOLEAN
    PROVE  Passes(b, hdr) <=>
             /\ task.dst \in Slots => validate_b0_signature(b, task.dst)
             /\ task.dst \notin Slots => validate_file(file, task.dst) /\ hdr
             /\ file.info # NoInfo
             /\ HwNameMatches(hw, HwNameSeen(file, task.dst, hdr))
             /\ task.update =>
                   /\ FwInfoVersion(task.dst) # NoInfo
                   /\ FwInfoVersion(task.dst) <= file.info
                   /\ DowngradePrevention =>
                          check_downgrade_prevention(task.dst, HeaderLoads(task.dst),
                              VersionSeen(file, hdr), img[active].ver)
<1>1. file # NoFile /\ Checking
  BY DEF CallTypeOK, file
<1>2. /\ task.dst \in Parts /\ task.update \in BOOLEAN /\ active \in Slots
      /\ ~task.update => task.dst = active
  BY <1>1, InHand DEF Checking
<1>3. CASE task.update
  BY <1>1, <1>2, <1>3 DEF Passes, Installable, check_file
<1>4. CASE ~task.update
  BY <1>1, <1>2, <1>4 DEF Passes, check_update_for_mcuboot
<1> QED
  BY <1>2, <1>3, <1>4

-----------------------------------------------------------------------------
(* One call of a check.  FwUpdate's variables stay as they are.            *)

LEMMA InspectionKeeps ==
    ASSUME CallInv, Inspection
    PROVE  /\ UNCHANGED vars /\ UNCHANGED <<file, task, Loaded, Leftovers>>
           /\ TypeOK' /\ FileHeld'
           /\ Checking /\ Checking' /\ file # NoFile
           /\ (PassesAsRead <=> PassesAsRead') /\ (Acceptable /\ UNCHANGED seen => Acceptable')
<1>1. UNCHANGED vars
  BY DEF Inspection, Inspect, FileFound, B0Open, B0Read, B0Check, FileOpen, Header, ResetAddress,
     HwRevision, Validate, FwInfoOpen, FwInfoRead, Compare, CopyOpenFails
<1>2. Checking /\ file # NoFile
  BY DEF Inspection, Inspect, FileFound, B0Open, B0Read, B0Check, FileOpen, Header, ResetAddress,
     HwRevision, Validate, FwInfoOpen, FwInfoRead, Compare, CopyOpenFails, CallInv, CallTypeOK, file
<1>3. TypeOK' /\ FileHeld'
  BY <1>1 DEF vars, CallInv, CallTypeOK, FileHeld, task, TypeOK, PartsTypeOK, ControlTypeOK,
     CheckTypeOK, FlagsTypeOK, BudgetTypeOK
<1>4. UNCHANGED <<file, task, Loaded, Leftovers>>
  BY <1>1 DEF vars, file, task, Loaded, Leftovers
<1>5. PassesAsRead <=> PassesAsRead'
  BY <1>1, <1>4 DEF vars, PassesAsRead, Passes, FwInfoVersion, HeaderLoads
<1>6. Acceptable /\ UNCHANGED seen => Acceptable'
  BY <1>1, <1>4 DEF vars, seen, Acceptable, FwInfoVersion, HeaderLoads
<1> QED
  BY <1>1, <1>2, <1>3, <1>4, <1>5, <1>6 DEF Checking, vars

LEMMA InspectionTypes ==
    ASSUME CallInv, Inspection
    PROVE  CallTypeOK' /\ HandlesClosed'
<1>1. /\ TypeOK' /\ Checking' /\ file' # NoFile /\ file \in Images
      /\ file.ver \in Nat /\ file.hw \in HwNames \cup {NoHw}
      /\ UNCHANGED <<pc, faults>> /\ pc = "check" /\ Leftovers \subseteq Images \cup {Garbage}
  BY InspectionKeeps, InHand, BufferTypes DEF CallInv, CallTypeOK, Checking, vars
<1>2. /\ at \in Points /\ open \in 0..1 /\ mem \in Images \cup {Garbage} /\ seenVer \in Nat
      /\ seenName \in HwNames \cup {NoHw} /\ failed \in BOOLEAN /\ (failed => faults < MaxFaults)
      /\ HandlesClosed
  BY DEF CallInv, CallTypeOK
<1>3. at' \in Points /\ HandlesClosed' /\ open' \in 0..1
  BY <1>1, <1>2 DEF Points, HandlesClosed, Inspection, Inspect, Goto, Opens, Close, Unvalidated,
     FileFound, B0Open, B0Read, B0Check, FileOpen, Header, ResetAddress,
     HwRevision, Validate, FwInfoOpen, FwInfoRead, Compare, CopyOpenFails
<1>4. failed' \in BOOLEAN /\ (failed' => faults < MaxFaults)
  <2>1. Works \/ Fails
    BY DEF Inspection, Works, FileFound, B0Open, B0Read, B0Check, FileOpen, Header, ResetAddress,
       HwRevision, Validate, FwInfoOpen, FwInfoRead, Compare, CopyOpenFails
  <2>2. CASE Works
    BY <1>2, <2>2, Zenon DEF Works
  <2>3. CASE Fails
    BY <2>3, Zenon DEF Fails
  <2> QED
    BY <2>1, <2>2, <2>3
<1>5. mem' \in Images \cup {Garbage} /\ seenVer' \in Nat /\ seenName' \in HwNames \cup {NoHw}
  <2>1. CASE B0Read \/ Header \/ HwRevision
    BY <1>1, <1>2, <2>1 DEF B0Read, Header, HwRevision, ReadOver, seen
  <2>2. CASE ~(B0Read \/ Header \/ HwRevision)
    BY <1>2, <2>2 DEF Inspection, seen, FileFound, B0Open, B0Check, FileOpen, ResetAddress, Validate,
       FwInfoOpen, FwInfoRead, Compare, CopyOpenFails
  <2> QED
    BY <2>1, <2>2
<1> QED
  BY <1>1, <1>3, <1>4, <1>5 DEF CallTypeOK, file

LEMMA InspectionBuffer ==
    ASSUME CallInv, Inspection
    PROVE  BufferRead'
<1> USE DEF Inspect, Goto, Unvalidated
<1>1. /\ UNCHANGED <<file, task, Loaded, Leftovers, buf>> /\ file # NoFile
      /\ {buf, Loaded} \subseteq Leftovers
  BY InspectionKeeps DEF vars, Leftovers, Loaded
<1>2. CASE FileFound
  BY <1>1, <1>2 DEF CallInv, FileFound, BufferRead, Loaded
<1>3. CASE B0Read
  <2>1. mem = buf /\ task.dst \in Slots
    BY <1>3 DEF CallInv, B0Read, BufferRead, AfterB0, B0Points
  <2> QED
    BY <1>1, <1>3, <2>1 DEF B0Read, BufferRead, Loaded, Fails
<1>4. CASE B0Open
  BY <1>1, <1>4 DEF CallInv, B0Open, BufferRead, Fails
<1>5. CASE B0Check \/ FileOpen \/ Header \/ ResetAddress \/ HwRevision
  BY <1>1, <1>5 DEF CallInv, B0Check, FileOpen, Header, ResetAddress, HwRevision, BufferRead,
     Fails, Works
<1>6. CASE Validate \/ FwInfoOpen \/ FwInfoRead \/ Compare \/ CopyOpenFails
  BY <1>1, <1>6 DEF CallInv, Validate, FwInfoOpen, FwInfoRead, Compare, CopyOpenFails, BufferRead,
     Fails, Works
<1> QED
  BY <1>2, <1>3, <1>4, <1>5, <1>6 DEF Inspection

LEMMA InspectionB0 ==
    ASSUME CallInv, Inspection
    PROVE  AfterB0'
<1> USE DEF Inspect, Goto, Unvalidated, AfterB0, B0Points, MidPoints, LatePoints
<1>1. UNCHANGED <<file, task>> /\ pc = "check" /\ step <= 4 /\ file.fits \in BOOLEAN
  BY InspectionKeeps, InHand DEF CallInv, Checking
<1>2. CASE FileFound
  BY <1>1, <1>2, InHand DEF CallInv, FileFound
<1>3. CASE B0Read
  BY <1>1, <1>3 DEF CallInv, B0Read, Fails
<1>4. CASE B0Check
  BY <1>1, <1>4 DEF CallInv, B0Check
<1>5. CASE B0Open \/ FileOpen \/ Header \/ ResetAddress \/ HwRevision
  BY <1>1, <1>5 DEF CallInv, B0Open, FileOpen, Header, ResetAddress, HwRevision, Fails, Works
<1>6. CASE Validate \/ FwInfoOpen \/ FwInfoRead \/ Compare \/ CopyOpenFails
  BY <1>1, <1>6 DEF CallInv, Validate, FwInfoOpen, FwInfoRead, Compare, CopyOpenFails, Fails, Works
<1> QED
  BY <1>2, <1>3, <1>4, <1>5, <1>6 DEF Inspection

LEMMA InspectionSeen ==
    ASSUME CallInv, Inspection
    PROVE  SeenSoFar' /\ SeenAtLast'
<1> USE DEF Inspect, Goto, Unvalidated, EarlyPoints, B0Points, MidPoints, LatePoints
<1>1. UNCHANGED <<file, task>> /\ file.hdr \in BOOLEAN
  BY InspectionKeeps, InHand DEF CallInv, Checking
<1>2. /\ VersionSeen(file, TRUE) = IF file.hdr THEN file.ver ELSE 0
      /\ HwNameSeen(file, task.dst, TRUE) =
             IF file.hdr /\ file.link = task.dst THEN file.hw ELSE NoHw
  BY DEF VersionSeen, HwNameSeen
<1>3. SeenSoFar'
  <2>1. CASE FileFound \/ B0Open \/ B0Read \/ B0Check \/ FileOpen
    BY <1>1, <2>1 DEF CallInv, FileFound, B0Open, B0Read, B0Check, FileOpen, SeenSoFar, seen
  <2>2. CASE Header \/ ResetAddress \/ HwRevision
    BY <1>1, <2>2 DEF CallInv, Header, ResetAddress, HwRevision, SeenSoFar, seen, Works, Fails
  <2>3. CASE Validate \/ FwInfoOpen \/ FwInfoRead \/ Compare \/ CopyOpenFails
    BY <1>1, <2>3 DEF CallInv, Validate, FwInfoOpen, FwInfoRead, Compare, CopyOpenFails, SeenSoFar
  <2> QED
    BY <2>1, <2>2, <2>3 DEF Inspection
<1>4. SeenAtLast'
  <2>1. CASE FileFound \/ B0Open \/ B0Read \/ B0Check \/ HwRevision
    BY <1>1, <2>1 DEF FileFound, B0Open, B0Read, B0Check, HwRevision, SeenAtLast
  <2>2. CASE FileOpen
    BY <1>1, <2>2 DEF CallInv, FileOpen, SeenSoFar, SeenAtLast, seen, Fails
  <2>3. CASE Header
    BY <1>1, <1>2, <2>3 DEF CallInv, Header, SeenSoFar, SeenAtLast, Fails, Works
  <2>4. CASE ResetAddress
    <3>1. file.hdr /\ seenVer' = file.ver /\ seenName' = NoHw
      BY <2>4 DEF CallInv, ResetAddress, SeenSoFar, seen
    <3>2. CASE Fails
      <4>1. at' \in LatePoints => task.dst \in Slots
        BY <2>4, <3>2 DEF ResetAddress
      <4> QED
        BY <1>1, <1>2, <3>1, <3>2, <4>1 DEF SeenAtLast, Fails
    <3>3. CASE ~Fails
      <4>1. at' \in LatePoints => file.link # task.dst /\ task.dst \in Slots
        BY <2>4, <3>3 DEF ResetAddress
      <4> QED
        BY <1>1, <1>2, <3>1, <4>1 DEF SeenAtLast
    <3> QED
      BY <3>2, <3>3
  <2>5. CASE Validate
    <3>1. /\ file.hdr /\ file.link = task.dst /\ UNCHANGED seen
          /\ seenVer = file.ver
          /\ seenName = file.hw \/ (failed /\ seenName = NoHw)
      BY <2>5 DEF CallInv, Validate, SeenSoFar
    <3>2. failed => failed'
      BY <2>5 DEF Validate, Works, Fails
    <3>3. at' \in LatePoints /\ task.dst \notin Slots => file.sig
      BY <2>5 DEF Validate
    <3> QED
      BY <1>1, <1>2, <3>1, <3>2, <3>3 DEF SeenAtLast, seen, validate_file
  <2>6. CASE FwInfoOpen \/ FwInfoRead \/ Compare \/ CopyOpenFails
    BY <1>1, <1>2, <2>6 DEF CallInv, FwInfoOpen, FwInfoRead, Compare, CopyOpenFails, SeenAtLast,
       seen, Fails, Works
  <2> QED
    BY <2>1, <2>2, <2>3, <2>4, <2>5, <2>6 DEF Inspection
<1> QED
  BY <1>3, <1>4

LEMMA InspectionVerdicts ==
    ASSUME CallInv, Inspection
    PROVE  Verdicts'
<1> USE DEF Inspect, Goto, Unvalidated
<1>1. /\ UNCHANGED <<file, task>> /\ (PassesAsRead <=> PassesAsRead')
      /\ (Acceptable /\ UNCHANGED seen => Acceptable')
  BY InspectionKeeps
<1>2. CASE FileFound \/ HwRevision
  BY <1>2 DEF FileFound, HwRevision, Verdicts
<1>3. CASE B0Open \/ CopyOpenFails
  BY <1>1, <1>3 DEF B0Open, CopyOpenFails, Verdicts, Fails
<1>p. at # "idle" /\ PassesAsRead =>
        /\ task.dst \in Slots => file.fits /\ validate_b0_signature(Loaded, task.dst)
        /\ task.dst \notin Slots => validate_file(file, task.dst)
        /\ file.info # NoInfo
        /\ HwNameMatches(hw, HwNameSeen(file, task.dst, TRUE))
        /\ task.update =>
              /\ FwInfoVersion(task.dst) # NoInfo
              /\ FwInfoVersion(task.dst) <= file.info
              /\ DowngradePrevention =>
                     check_downgrade_prevention(task.dst, HeaderLoads(task.dst),
                         VersionSeen(file, TRUE), img[active].ver)
  BY PassesMeans DEF CallInv, PassesAsRead
<1>4. CASE B0Read
  BY <1>1, <1>p, <1>4 DEF CallInv, AfterB0, B0Points, B0Read, Verdicts, Fails
<1>5. CASE B0Check
  <2>1. task.dst \in Slots /\ (failed \/ mem = Loaded)
    BY <1>5 DEF CallInv, AfterB0, B0Points, BufferRead, B0Check
  <2> QED
    BY <1>1, <1>p, <1>5, <2>1 DEF B0Check, Verdicts
<1>6. CASE FileOpen \/ Header \/ ResetAddress \/ Validate
  BY <1>1, <1>p, <1>6 DEF CallInv, FileOpen, Header, ResetAddress, Validate, Verdicts, Fails,
     validate_file
<1>7. CASE FwInfoOpen \/ FwInfoRead
  BY <1>1, <1>p, <1>7 DEF CallInv, FwInfoOpen, FwInfoRead, Verdicts, Fails
<1>8. CASE Compare
  <2>1. ~failed /\ PassesAsRead => Acceptable
    BY <1>8, <1>p DEF Compare, CallInv, SeenAtLast, LatePoints, Acceptable
  <2> QED
    BY <1>1, <1>8, <2>1 DEF CallInv, Compare, Verdicts, Fails, Works
<1> QED
  BY <1>2, <1>3, <1>4, <1>5, <1>6, <1>7, <1>8 DEF Inspection

-----------------------------------------------------------------------------
(* The last call of a check, and everything that is no check.              *)

LEMMA EndsKeepFlashTypes ==
    ASSUME CallInv, CopyOpen \/ Leave \/ Refuse
    PROVE  TypeOK' /\ FileHeld'
<1>1. /\ Checking /\ file # NoFile /\ task.file \in Files /\ TypeOK /\ active \in Slots
  BY InHand DEF CallInv, CallTypeOK, Checking, CopyOpen, Leave, Refuse, file
<1>2. NoFault \/ Fault
  BY DEF CopyOpen, Leave, Refuse, Settled
<1>3. BudgetTypeOK'
  BY <1>1, <1>2, BoundsAssumption DEF TypeOK, BudgetTypeOK, NoFault, Fault, CopyOpen, Leave, Refuse
<1>8. FlagsTypeOK'
  BY <1>1, <1>2, Zenon DEF TypeOK, FlagsTypeOK, NoFault, Fault, CopyOpen, Leave, Refuse
<1>4. PartsTypeOK'
  BY <1>1 DEF TypeOK, PartsTypeOK, CopyOpen, Leave, AfterLeaving, img_invalidate, Refuse, parts
<1>9. buf' \in Images \cup {Garbage}
  BY DEF CopyOpen, Leave, Refuse, CheckOver, CallInv, CallTypeOK
<1>5. ControlTypeOK' /\ CheckTypeOK'
  BY <1>1, <1>9 DEF TypeOK, ControlTypeOK, CheckTypeOK, PCs, Running, Checking, CopyOpen, Leave,
     Refuse, NextStep
<1>6. fs' \in [Files -> Images \cup {NoFile}]
  BY <1>1 DEF TypeOK, CopyOpen, Leave, Refuse, unlink
<1>7. FileHeld'
  BY <1>1 DEF CopyOpen, Leave, Refuse, NextStep, FileHeld, task, file
<1> QED
  BY <1>3, <1>4, <1>5, <1>6, <1>7, <1>8 DEF TypeOK

LEMMA OtherStepsAreNext ==
    ASSUME CallInv, Restarts \/ Otherwise \/ CopyClose \/ UNCHANGED callVars
    PROVE  [Next]_vars
BY DEF Restarts, Otherwise, CopyClose, callVars, Next, Device

LEMMA OtherStepsKeepFlashTypes ==
    ASSUME CallInv, Restarts \/ Otherwise \/ CopyClose \/ UNCHANGED callVars
    PROVE  TypeOK' /\ FileHeld'
<1>1. TypeOK'
  BY OtherStepsAreNext, TypeStep DEF CallInv, CallTypeOK
<1>2. FileHeld'
  <2>2. CASE Restarts
    BY <2>2 DEF Restarts, Reboot, Restart, PowerCut, Reset, FileHeld
  <2>3. CASE Otherwise
    BY <2>3 DEF Otherwise, CallInv, FileHeld, task, B0Boot, StartupHangs, StartupPasses,
       StartupSkipsUpdate, Mount, MountFails, CheckSkips, NextStep, CopyGivesUp, Erase, EraseFails,
       CopyChunk, CopyFails, CopyEnds, FinishUpdate, EndOfChecks, Handover, Upload, boot
  <2>4. CASE CopyClose \/ UNCHANGED callVars
    BY <2>4 DEF CopyClose, callVars, vars, FileHeld, task, CallInv
  <2> QED
    BY <2>2, <2>3, <2>4
<1> QED
  BY <1>1, <1>2

(* With no check under way the invariant says little.                      *)
LEMMA IdleInv ==
    ASSUME CallInv, (CopyOpen \/ Leave \/ Refuse) \/ (Restarts \/ Otherwise \/ CopyClose),
           TypeOK' /\ FileHeld'
    PROVE  CallInv'
<1>1. CASE CopyClose
  <2>1. at = "idle" /\ UNCHANGED at
    BY <1>1 DEF CopyClose, CallInv, CallTypeOK, Checking
  <2> QED
    BY <1>1, <2>1 DEF CopyClose, Close, vars, seen, CallInv, CallTypeOK, HandlesClosed, AfterB0,
       B0Points, BufferRead, SeenSoFar, EarlyPoints, MidPoints, SeenAtLast, LatePoints, Verdicts
<1>2. CASE ~CopyClose
  <2>1. at' = "idle" /\ seenVer' = 0 /\ seenName' = NoHw /\ failed' = FALSE
    BY <1>2 DEF CopyOpen, Leave, Refuse, Restarts, Otherwise, Forget, CheckOver, calls, CallInv,
       SeenSoFar, CallTypeOK
  <2>2. HandlesClosed /\ open \in 0..1 /\ TypeOK
    BY DEF CallInv, CallTypeOK
  <2>3. HandlesClosed' /\ open' \in 0..1
    <3>1. CASE CopyOpen \/ Leave \/ Refuse
      BY <2>2, <3>1 DEF CopyOpen, Leave, Refuse, NextStep, Opens, CheckOver, Forget, HandlesClosed, CallInv,
         CallTypeOK, Checking
    <3>2. CASE Restarts
      BY <3>2 DEF Restarts, Forget, Reboot, Restart, PowerCut, Reset, HandlesClosed
    <3>3. CASE Otherwise /\ pc = "finish"
      BY <2>2, <3>3 DEF Otherwise, calls, HandlesClosed, B0Boot, StartupHangs, StartupPasses,
         StartupSkipsUpdate, Mount, MountFails, CheckSkips, Checking, CopyGivesUp, Erase,
         EraseFails, CopyChunk, CopyFails, CopyEnds, FinishUpdate, NextStep, EndOfChecks, Handover,
         Upload
    <3>4. CASE Otherwise /\ pc \in {"erase", "copy"}
      BY <2>2, <3>4 DEF Otherwise, calls, HandlesClosed, B0Boot, StartupHangs, StartupPasses,
         StartupSkipsUpdate, Mount, MountFails, CheckSkips, Checking, CopyGivesUp, Erase,
         EraseFails, CopyChunk, CopyFails, CopyEnds, FinishUpdate, EndOfChecks, Handover, Upload
    <3>5. CASE Otherwise /\ pc \notin {"erase", "copy", "finish"}
      BY <2>2, <3>5 DEF Otherwise, calls, HandlesClosed, B0Boot, StartupHangs, StartupPasses,
         StartupSkipsUpdate, Mount, MountFails, CheckSkips, NextStep, CopyGivesUp, Erase,
         EraseFails, CopyChunk, CopyFails, CopyEnds, FinishUpdate, EndOfChecks, Handover, Upload
    <3> QED
      BY <1>2, <3>1, <3>2, <3>3, <3>4, <3>5
  <2>4. mem' = buf'
    <3>1. CASE CopyOpen \/ Leave \/ Refuse
      BY <3>1 DEF CopyOpen, Leave, Refuse, CheckOver
    <3>2. CASE Restarts
      BY <3>2 DEF Restarts
    <3>3. CASE Otherwise
      <4>1. mem' = mem /\ mem = buf
        BY <3>3 DEF Otherwise, calls, CallInv, BufferRead
      <4>2. buf' = buf
        BY <3>3 DEF Otherwise, B0Boot, StartupHangs, StartupPasses, StartupSkipsUpdate, Mount,
           MountFails, CheckSkips, CopyGivesUp, Erase, EraseFails, CopyChunk, CopyFails, CopyEnds,
           FinishUpdate, EndOfChecks, Handover, Upload, boot
      <4> QED
        BY <4>1, <4>2
    <3> QED
      BY <1>2, <3>1, <3>2, <3>3
  <2>5. CallTypeOK'
    BY <2>1, <2>3, <2>4 DEF CallTypeOK, TypeOK, CheckTypeOK, Points
  <2> QED
    BY <2>1, <2>3, <2>4, <2>5 DEF CallInv, BufferRead, AfterB0, B0Points, SeenSoFar, EarlyPoints,
       MidPoints, SeenAtLast, LatePoints, Verdicts
<1> QED
  BY <1>1, <1>2

LEMMA CallStep ==
    ASSUME CallInv, [CallNext]_callVars
    PROVE  CallInv'
<1>1. CASE Inspection
  BY <1>1, InspectionKeeps, InspectionTypes, InspectionBuffer, InspectionB0, InspectionSeen, InspectionVerdicts
     DEF CallInv
<1>2. CASE CopyOpen \/ Leave \/ Refuse
  BY <1>2, EndsKeepFlashTypes, IdleInv
<1>3. CASE Restarts \/ Otherwise \/ CopyClose
  BY <1>3, OtherStepsKeepFlashTypes, IdleInv
<1>4. CASE UNCHANGED callVars
  <2>1. UNCHANGED <<vars, calls, file, task, Loaded, Leftovers>>
    BY <1>4 DEF callVars, vars, file, task, Loaded, Leftovers
  <2>2. /\ TypeOK' /\ FileHeld'
    BY <1>4, OtherStepsKeepFlashTypes
  <2>3. (PassesAsRead <=> PassesAsRead') /\ (Acceptable <=> Acceptable')
    BY <2>1 DEF vars, calls, PassesAsRead, Passes, Acceptable, FwInfoVersion, HeaderLoads
  <2>4. CallTypeOK'
    BY <2>1, <2>2 DEF vars, calls, CallInv, CallTypeOK, Checking, file
  <2>5. HandlesClosed' /\ BufferRead' /\ AfterB0'
    BY <2>1 DEF vars, calls, CallInv, HandlesClosed, BufferRead, AfterB0
  <2>6. SeenSoFar' /\ SeenAtLast'
    BY <2>1 DEF calls, CallInv, SeenSoFar, SeenAtLast
  <2>7. Verdicts'
    BY <2>1, <2>3 DEF calls, CallInv, Verdicts
  <2> QED
    BY <2>2, <2>4, <2>5, <2>6, <2>7 DEF CallInv
<1> QED
  BY <1>1, <1>2, <1>3, <1>4 DEF CallNext

-----------------------------------------------------------------------------
(* The verdicts.                                                           *)

(* A file that a check lets through passes on what is in the buffer, and,  *)
(* when no call has failed, as it is read.                                 *)
LEMMA AcceptedPasses ==
    ASSUME CallInv, Acceptable, at \in {"compare", "copyopen"}
    PROVE  /\ mem \in {Loaded, buf} /\ \E hdr \in BOOLEAN : Passes(mem, hdr)
           /\ ~failed => PassesAsRead /\ mem = Loaded
<1>1. /\ task.dst \in Slots => validate_b0_signature(mem, task.dst) /\ (failed \/ file.fits)
      /\ mem \in {Loaded, buf} /\ (failed \/ mem = Loaded)
      /\ file.info # NoInfo
  BY DEF CallInv, AfterB0, BufferRead, LatePoints, Verdicts
<1>2. /\ task.dst \notin Slots => validate_file(file, task.dst) /\ seenVer = VersionSeen(file, TRUE)
      /\ \/ seenVer = VersionSeen(file, TRUE) /\ seenName = HwNameSeen(file, task.dst, TRUE)
         \/ failed /\ seenName = NoHw /\ seenVer \in {0, VersionSeen(file, TRUE)}
  BY DEF CallInv, SeenAtLast, LatePoints
<1>4. seenName = NoHw => hw = NoHw
  BY DEF Acceptable, HwNameMatches
<1>5. CASE seenVer = VersionSeen(file, TRUE)
  <2>1. HwNameMatches(hw, HwNameSeen(file, task.dst, TRUE))
    BY <1>2, <1>4 DEF Acceptable, HwNameMatches
  <2>2. Passes(mem, TRUE)
    BY <1>1, <1>2, <1>5, <2>1, PassesMeans DEF CallInv, Acceptable
  <2> QED
    BY <1>1, <2>2 DEF PassesAsRead
<1>6. CASE seenVer # VersionSeen(file, TRUE)
  <2>1. failed /\ hw = NoHw /\ seenVer = VersionSeen(file, FALSE) /\ task.dst \in Slots
    BY <1>2, <1>4, <1>6 DEF VersionSeen
  <2>2. HwNameMatches(hw, HwNameSeen(file, task.dst, FALSE))
    BY <2>1 DEF HwNameMatches
  <2>3. Passes(mem, FALSE)
    BY <1>1, <2>1, <2>2, PassesMeans DEF CallInv, Acceptable
  <2> QED
    BY <1>1, <2>1, <2>3
<1> QED
  BY <1>5, <1>6

LEMMA VerdictIsAStep ==
    ASSUME CallInv, CopyOpen \/ Leave \/ Refuse
    PROVE  Next
<1>1. Checking /\ file # NoFile
  BY DEF CallInv, CallTypeOK, CopyOpen, Leave, Refuse, file
<1>2. ASSUME Acceptable, at \in {"compare", "copyopen"}, buf' = mem, Settled \/ Fault
      PROVE  Accepted
  BY <1>1, <1>2, AcceptedPasses DEF Accepted, Settled
<1>3. CASE CopyOpen
  <2>1. Acceptable /\ task.update
    BY <1>3 DEF CopyOpen, CallInv, Verdicts
  <2>2. CheckAccepts
    BY <1>1, <1>2, <1>3, <2>1 DEF CopyOpen, CheckAccepts, CheckOver
  <2> QED
    BY <2>2 DEF Next, Device
<1>4. CASE Leave
  <2>1. Accepted
    BY <1>2, <1>4 DEF Leave, CheckOver
  <2>2. LeaveToOtherSlot
    BY <1>1, <1>4, <2>1 DEF Leave, LeaveToOtherSlot
  <2> QED
    BY <2>2 DEF Next, Device
<1>5. CASE Refuse
  <2>1. /\ failed \/ ~PassesAsRead
        /\ mem \in Leftovers /\ (failed \/ mem = Loaded)
    BY <1>5 DEF Refuse, CallInv, Verdicts, BufferRead
  <2>2. CheckRefuses
    BY <1>1, <1>5, <2>1 DEF Refuse, CheckOver, CheckRefuses, Settled
  <2> QED
    BY <2>2 DEF Next, Device
<1> QED
  BY <1>3, <1>4, <1>5

LEMMA CallInvariant == CallSpec => []CallInv
<1>1. CallInit => CallInv
  <2> SUFFICES ASSUME CallInit PROVE CallInv
    OBVIOUS
  <2>1. TypeOK
    BY TypeInit DEF CallInit
  <2>2. /\ pc = "b0" /\ at = "idle" /\ open = 0 /\ mem = buf
        /\ seenVer = 0 /\ seenName = NoHw /\ failed = FALSE
    BY DEF CallInit, Init
  <2>3. CallTypeOK
    <3>1. failed \in BOOLEAN /\ (failed => faults < MaxFaults)
      BY <2>2, Zenon
    <3> QED
      BY <2>1, <2>2, <3>1 DEF CallTypeOK, TypeOK, CheckTypeOK, Points
  <2>4. FileHeld /\ HandlesClosed
    BY <2>2 DEF FileHeld, HandlesClosed
  <2>5. BufferRead /\ AfterB0 /\ SeenSoFar /\ SeenAtLast /\ Verdicts
    BY <2>2 DEF BufferRead, AfterB0, B0Points, SeenSoFar, EarlyPoints, MidPoints, SeenAtLast, LatePoints, Verdicts
  <2> QED
    BY <2>3, <2>4, <2>5 DEF CallInv
<1> QED
  BY <1>1, CallStep, PTL DEF CallSpec

(* The checks keep their types and never run without a file in hand.       *)
THEOREM CallTypesCorrect == CallSpec => []CallTypeOK
<1>1. CallInv => CallTypeOK
  BY DEF CallInv
<1> QED
  BY <1>1, CallInvariant, PTL

(* No way through the checks leaves a file open or opens a second one.     *)
THEOREM HandlesAreClosed == CallSpec => []HandlesClosed
<1>1. CallInv => HandlesClosed
  BY DEF CallInv
<1> QED
  BY <1>1, CallInvariant, PTL

(* FwUpdate's one-step checks are what the calls amount to, the failing    *)
(* size query after which the file is not read at all included.            *)
THEOREM CallsAmountToChecks == CallSpec => ChecksAreAtomic
<1>1. CallInit => Init
  BY DEF CallInit
<1>2. CallInv /\ [CallNext]_callVars => [Next]_vars
  <2> SUFFICES ASSUME CallInv, [CallNext]_callVars
               PROVE  [Next]_vars
    OBVIOUS
  <2>1. CASE Inspection
    BY <2>1, InspectionKeeps
  <2>2. CASE CopyOpen \/ Leave \/ Refuse
    BY <2>2, VerdictIsAStep
  <2>3. CASE Restarts \/ Otherwise \/ CopyClose \/ UNCHANGED callVars
    BY <2>3, OtherStepsAreNext
  <2> QED
    BY <2>1, <2>2, <2>3 DEF CallNext
<1> QED
  BY <1>1, <1>2, CallInvariant, PTL DEF CallSpec, ChecksAreAtomic

=============================================================================
