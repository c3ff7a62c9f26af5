---------------------------- MODULE FwCheckCalls ----------------------------
(***************************************************************************)
(* The checks of check_updates_on_fs call by call.  FwUpdate takes a check *)
(* and its verdict for one step; here a file is opened, read, judged and   *)
(* closed three times over, any call may fail, power may go in between,    *)
(* and the verdicts are gathered from what each call left behind: the      *)
(* header, the hardware name and g_shared_img_buf, which keeps what it     *)
(* held where a read does not reach, over checks and over resets.  That    *)
(* buffer is mem here: FwUpdate's buf is what the check in hand found in   *)
(* it, and becomes mem when the check is over.                             *)
(***************************************************************************)
EXTENDS FwUpdate

VARIABLES
    at,         \* the next call of the check in hand
    open,       \* file handles open
    mem,        \* the image in g_shared_img_buf, call by call
    seenVer,    \* file_img_hdr.ih_ver
    seenName,   \* hw_rev.hw_rev_name
    failed      \* a call of this check has failed

seen     == <<seenVer, seenName>>
calls    == <<at, open, mem, seenVer, seenName, failed>>
callVars == <<vars, calls>>

Points == {"idle", "b0", "b0read", "b0check", "file", "header", "reset", "hwrev", "validate",
           "fwinfo", "fwread", "compare", "copyopen", "refuse"}

(* A check is under way at the points its calls are made at.               *)
CallTypeOK ==
    /\ TypeOK
    /\ at \in Points
    /\ at # "idle" => Checking /\ fs[task.file] # NoFile
    /\ open \in 0..1
    /\ mem \in Images \cup {Garbage}
    /\ seenVer \in Nat
    /\ seenName \in HwNames \cup {NoHw}
    /\ failed \in BOOLEAN
    /\ failed => faults < MaxFaults

CallInit ==
    /\ Init
    /\ at = "idle" /\ open = 0 /\ mem = buf
    /\ seenVer = 0 /\ seenName = NoHw /\ failed = FALSE

-----------------------------------------------------------------------------
Inspect(point) == at = point /\ UNCHANGED vars
Goto(point)    == at' = point

Works == UNCHANGED failed
Fails == faults < MaxFaults /\ failed' = TRUE

Opens == open' = open + 1

(* Faulty: a file that is refused stays open.                              *)
CloseAccepted == open' = IF at' = "refuse" THEN open ELSE open - 1

Close == open' = open - 1

(* A check that failed a call counts as one failure of FwUpdate.           *)
Settled == IF failed THEN Fault ELSE NoFault

(* The check is over, and with it the caller's locals.                     *)
Forget == at' = "idle" /\ seenVer' = 0 /\ seenName' = NoHw /\ failed' = FALSE

(* What the check leaves in the buffer is what the next one finds.         *)
CheckOver == Forget /\ buf' = mem /\ UNCHANGED mem

(* Without MCUboot's signature a copy of MCUboot goes on, a warning later; *)
(* any other file is refused.                                              *)
Unvalidated == IF task.dst \in Slots THEN "fwinfo" ELSE "refuse"

-----------------------------------------------------------------------------
(* check_file and check_update_for_mcuboot find the file.                  *)

(* Faulty: the file is checked without having been found.                  *)
FoundUnasked ==
    /\ Inspect("idle") /\ Checking
    /\ Goto(IF task.dst \in Slots THEN "b0" ELSE "file")
    /\ UNCHANGED <<open, mem, seen, failed>>

FileFound ==
    /\ Inspect("idle") /\ Checking /\ file # NoFile
    /\ Goto(IF task.dst \in Slots THEN "b0" ELSE "file")
    /\ UNCHANGED <<open, mem, seen, failed>>

(* validate_b0_signature.                                                  *)
B0Open ==
    /\ Inspect("b0")
    /\ \/ Works /\ Opens /\ Goto("b0read")
       \/ Fails /\ UNCHANGED open /\ Goto("refuse")
    /\ UNCHANGED <<mem, seen>>

(* The file is read over what the buffer holds.  A size query that fails   *)
(* answers 0: then no byte is read, none is missing, and the check goes on *)
(* with the buffer as it is.                                               *)
B0Read ==
    /\ Inspect("b0read")
    /\ \/ file.fits /\ Works /\ mem' = ReadOver(file, mem) /\ Goto("b0check") /\ UNCHANGED open
       \/ ~file.fits /\ Works /\ UNCHANGED mem /\ Goto("refuse") /\ Close
       \/ Fails /\ UNCHANGED <<mem, open>> /\ Goto("b0check")
       \/ Fails /\ mem' \in Leftovers /\ Goto("refuse") /\ Close
    /\ UNCHANGED seen

(* The verdict is on the buffer, to the end the image in it gives itself.  *)
B0Check ==
    /\ Inspect("b0check")
    /\ Goto(IF validate_b0_signature(mem, task.dst) THEN "file" ELSE "refuse")
    /\ Close
    /\ UNCHANGED <<mem, seen, failed>>

(* validate_file: found once more, opened, and its header read.            *)
FileOpen ==
    /\ Inspect("file")
    /\ \/ Works /\ Opens /\ Goto("header")
       \/ Fails /\ UNCHANGED open /\ Goto(Unvalidated)
    /\ UNCHANGED <<mem, seen>>

Header ==
    /\ Inspect("header")
    /\ \/ file.hdr /\ Works /\ seenVer' = file.ver /\ Goto("reset") /\ UNCHANGED open
       \/ ~file.hdr /\ Works /\ UNCHANGED seenVer /\ Goto(Unvalidated) /\ Close
       \/ Fails /\ UNCHANGED seenVer /\ Goto(Unvalidated) /\ Close
    /\ UNCHANGED <<mem, seenName>>

ResetAddress ==
    /\ Inspect("reset")
    /\ \/ file.link = task.dst /\ Works /\ Goto("hwrev") /\ UNCHANGED open
       \/ file.link # task.dst /\ Works /\ Goto(Unvalidated) /\ Close
       \/ Fails /\ Goto(Unvalidated) /\ Close
    /\ UNCHANGED <<mem, seen>>

(* No hardware revision, or none that can be read, is only logged.  A call *)
(* that fails behind the name leaves it read.                              *)
HwRevision ==
    /\ Inspect("hwrev")
    /\ Goto("validate")
    /\ \/ Works /\ seenName' = file.hw
       \/ Fails /\ seenName' \in {NoHw, file.hw}
    /\ UNCHANGED <<open, mem, seenVer>>

Validate ==
    /\ Inspect("validate")
    /\ \/ Works /\ Goto(IF file.sig THEN "fwinfo" ELSE Unvalidated)
       \/ Fails /\ Goto(Unvalidated)
    /\ Close
    /\ UNCHANGED <<mem, seen>>

(* fw_info_find_in_file.                                                   *)
FwInfoOpen ==
    /\ Inspect("fwinfo")
    /\ \/ Works /\ Opens /\ Goto("fwread")
       \/ Fails /\ UNCHANGED open /\ Goto("refuse")
    /\ UNCHANGED <<mem, seen>>

FwInfoRead ==
    /\ Inspect("fwread")
    /\ \/ Works /\ Goto(IF file.info # NoInfo THEN "compare" ELSE "refuse")
       \/ Fails /\ Goto("refuse")
    /\ Close
    /\ UNCHANGED <<mem, seen>>

(* Faulty: the name found is not looked at.                                *)
AcceptableOnVersions ==
    /\ task.update =>
           /\ FwInfoVersion(task.dst) # NoInfo
           /\ FwInfoVersion(task.dst) <= file.info
           /\ DowngradePrevention =>
                  check_downgrade_prevention(task.dst, HeaderLoads(task.dst), seenVer, img[active].ver)

(* The comparisons made on what the calls have left.                       *)
Acceptable ==
    /\ HwNameMatches(hw, seenName)
    /\ task.update =>
           /\ FwInfoVersion(task.dst) # NoInfo
           /\ FwInfoVersion(task.dst) <= file.info
           /\ DowngradePrevention =>
                  check_downgrade_prevention(task.dst, HeaderLoads(task.dst), seenVer, img[active].ver)

Compare ==
    /\ Inspect("compare")
    /\ \/ Acceptable /\ task.update /\ Works /\ Goto("copyopen")
       \/ ~Acceptable /\ Works /\ Goto("refuse")
       \/ task.update /\ DowngradePrevention /\ Fails /\ Goto("refuse")
    /\ UNCHANGED <<open, mem, seen>>

CopyOpenFails ==
    /\ Inspect("copyopen")
    /\ Fails
    /\ Goto("refuse")
    /\ UNCHANGED <<open, mem, seen>>

Inspection ==
    \/ FileFound \/ B0Open \/ B0Read \/ B0Check \/ FileOpen \/ Header \/ ResetAddress
    \/ HwRevision \/ Validate \/ FwInfoOpen \/ FwInfoRead \/ Compare \/ CopyOpenFails

-----------------------------------------------------------------------------
(* The calls that end a check, each with its effect in FwUpdate.           *)

(* The copy starts with the file open.                                     *)
CopyOpen ==
    /\ at = "copyopen"
    /\ Opens
    /\ pc' = "erase"
    /\ Settled
    /\ UNCHANGED <<parts, fs, active, hw, step, found, chunk, cuts, uploads>>
    /\ CheckOver

(* check_update_for_mcuboot says yes; img_invalidate, in s0, may fail.     *)
Leave ==
    /\ at = "compare" /\ Acceptable /\ ~task.update
    /\ \/ valid' = AfterLeaving /\ Settled
       \/ active = "s0" /\ valid' = valid /\ Fault
    /\ pc' = "reboot"
    /\ UNCHANGED <<img, have, fs, active, hw, step, found, chunk, cuts, uploads, open>>
    /\ CheckOver

(* btldr_fs_unlink_file, which may fail too.                               *)
Refuse ==
    /\ at = "refuse"
    /\ \/ unlink(task.file) /\ Settled
       \/ UNCHANGED fs /\ Fault
    /\ NextStep
    /\ UNCHANGED <<parts, active, hw, found, chunk, cuts, uploads, open>>
    /\ CheckOver

(* btldr_fs_close_file, before the file that was copied is unlinked.       *)
CopyClose ==
    /\ pc = "finish" /\ open = 1
    /\ UNCHANGED <<vars, at, mem, seen, failed>>
    /\ Close

-----------------------------------------------------------------------------
(* FwUpdate's other steps.                                                 *)

(* RAM may or may not keep what is in the buffer over a reset.             *)
Restarts ==
    /\ Reboot \/ Restart \/ PowerCut
    /\ Forget /\ open' = 0
    /\ buf' \in {mem, Garbage} /\ mem' = buf'

Otherwise ==
    /\ at = "idle"
    /\ \/ B0Boot \/ StartupHangs \/ StartupPasses \/ StartupSkipsUpdate \/ Mount \/ MountFails
       \/ CheckSkips \/ CopyGivesUp \/ Erase \/ EraseFails \/ CopyChunk \/ CopyFails \/ CopyEnds
       \/ open = 0 /\ FinishUpdate
       \/ EndOfChecks \/ Handover \/ Upload
    /\ UNCHANGED calls

CallNext == Inspection \/ CopyOpen \/ Leave \/ Refuse \/ CopyClose \/ Restarts \/ Otherwise

CallSpec == CallInit /\ [][CallNext]_callVars

-----------------------------------------------------------------------------

(* Every way out of a check closes what it opened: there is never a second *)
(* handle, and none while a file is removed or when the device goes on.    *)
HandlesClosed ==
    open = IF at \in {"b0read", "b0check", "header", "reset", "hwrev", "validate", "fwread"}
              \/ pc \in {"erase", "copy"}
           THEN 1
           ELSE IF pc = "finish" THEN open ELSE 0

(* The calls of a check, whatever fails between them and whatever they     *)
(* find in the buffer, amount to one of the verdicts FwUpdate gives in one *)
(* step, with the file and the buffer as they were when the check began.   *)
ChecksAreAtomic == Init /\ [][Next]_vars

(* "B0 signature in file %s validated successfully": when this is logged,  *)
(* B0 would accept the file.                                               *)
B0VerdictIsOfTheFile ==
    at = "file" /\ task.dst \in Slots => B0Accepts(file, task.dst)

=============================================================================
