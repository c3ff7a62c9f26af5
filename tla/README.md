# RuuviAir MCUboot: a TLA+ verification project

RuuviAir MCUboot is the second-stage bootloader of the Ruuvi Air sensor. The immutable first
stage (Nordic's NSIB, called B0 in the code) starts one of two copies of MCUboot, in the slots
`s0` and `s1`. Before MCUboot boots the application, the extensions in `src/` look for update
files in a LittleFS partition on external flash and install them: new copies of MCUboot, the
firmware loader (`mcuboot_secondary`) and the application (`mcuboot_primary`). There is no
swap and no backup of a partition: a copy erases its target first. What keeps a device alive
is the order of checks, copies, invalidations and reboots, and that is what this project
models, model-checks with TLC and proves with TLAPS.

Paths below are relative to the repository; `mcuboot_fw_update.c` stands for
`src/mcuboot_fw_update.c`, and so on.

## Inventory

| Component | State | Operations | Interacts with |
| --- | --- | --- | --- |
| File-based update, `mcuboot_fw_update.c` | `flag_updates_found`, the shared image buffer, the four partitions, `fw_info.valid` | `mcuboot_fw_update`, `check_updates_on_fs`, `check_file_and_update`, `check_update_for_mcuboot`, `validate_file`, `validate_b0_signature`, `check_downgrade_prevention`, `img_invalidate`, `reboot_cold` | called by the hook; calls file system, image copy, verification, TLV search; B0 reads what it leaves |
| MCUboot hook, `mcuboot_hook.c` | active slot, hardware revision, shared data | `mcuboot_status_change`, `on_startup` | called by MCUboot; calls the update and hands over |
| Update file system, `btldr_fs.c` | mount point, path buffer with its mutex | mount, unmount, stat, open, unlink, size, erase on a failed mount | the application writes the same files |
| Flash access, `mcuboot_fa_utils.c` | compiled-in version | `load_image_header`, address and size of a partition | update, hook |
| Image copy, `mcuboot_img_op.c` | offset, remaining length, 256-byte buffer, partition | copy, compare | called by the update |
| Image verification, `file_img_validate.c` | hash, `key_id`, the two verdicts | `file_img_validate` | called by `validate_file`; uses the TLV iterator |
| TLV iterator, `file_tlv.c` | offsets of the current entry and of the two section ends | begin, next, is_prot | verification |
| Hardware revision TLVs, `fw_img_hw_rev.c` | name and id found so far | search in a partition, search in a file | hook, `validate_file` |
| Supercapacitor and GPIO, `mcuboot_supercap.c`, `mcuboot_gpio_input.c` | pin, interrupt, callback | init, ISR that powers off | may interrupt everything |
| Early init, `mcuboot_early_init.c`, `mcuboot_ext_flash_power.c` | pins | one init function | supercapacitor, LED, button |
| Error indication, `mcuboot_led_err.c`, `mcuboot_err_handler.c`, `mcuboot_button.c`, `mcuboot_led.c` | button seen released | blink loop, reboot on a new press | fatal errors, asserts |
| Logging, RTT, build, CI | - | - | - |

What is hard here:

- **Crash and restart.** Power may fail anywhere, in particular inside an erase of many pages.
  On a REV_1 board the supercapacitor interrupt does so on purpose. Flash and files stay, and
  so may what RAM holds in the shared image buffer.
- **Partial failure.** Nearly every call can fail. A failed check deletes the file, a failed
  copy is only logged, a failed mount erases the whole file system, a failed
  `img_invalidate` is ignored.
- **Protocols over several boots.** A slot cannot overwrite itself. `s0` invalidates itself so
  that B0 takes `s1`, which then installs the file for `s0`. Three programs (two copies of
  MCUboot, and B0) have to agree.
- **Boundaries.** Padding to write blocks at the end of buffer and partition, section
  boundaries in the TLV area, empty TLVs.
- **Order dependence.** A signature is checked with the key TLV before it; versions are
  compared field by field.

- **Leftovers.** The buffer that a file is read into is shared by all checks and never
  cleared, a search that fails leaves what it had found, and both are used.
- **An interrupt that never returns.** The supercapacitor handler may run between any two
  calls of the main thread, also of the set-up that registers it and of the same shutdown.

The update runs in one thread to completion. Its concurrency is with the power supply, B0 and
the application, one boot at a time; the supercapacitor interrupt is what takes the power.

What makes each component correct:

- update: the running copy and one bootable MCUboot survive; partitions only ever receive
  verified images (a slot as long as no call fails), not older ones, not for other hardware;
  files do not linger; boots come to rest; a self-update of `s0` that starts also ends;
- copy: `true` means the partition holds the file; nothing is accessed out of bounds, no
  flash is written twice between erases;
- verification: an accepted file is hashed and signed with a known key, an ordinary file is
  accepted;
- TLV iterator: exactly the entries asked for, in order, and an end;
- hardware revision: what is found is in the protected section, and the search in flash, by
  which the device knows its own name, agrees with the one in files;
- board: a lost supply is never missed and ends in an orderly power-off, which ends when the
  supply is back; the blink loop is left by a new press of the button and by nothing else;
- version comparison: a total preorder.

## Modules

| Module | Models | Runs, proofs |
| --- | --- | --- |
| `FwImages` | images as records of facts, and every check on an image as an operator | used by `FwUpdate` and `Partitions` |
| `Partitions` | abstract: what an update promises about flash | refined by `FwUpdate`; `FwUpdateProofs` |
| `FwUpdate` | boot, `on_startup`, mount, the four checks, copy, invalidate, reboot, hand-over, world | `MCFwUpdate`, four runs; `FwUpdateProofs` |
| `FwCheckCalls` | the checks of `FwUpdate` call by call, with open files and the shared buffer | `MCFwCheckCalls`, two runs; `FwUpdateProofs` |
| `ImageVersion` | `boot_version_cmp` on real version records | `MCImageVersion`; `ImageVersionProofs` |
| `ImgOp` | `img_process` with both callbacks, byte by byte | `MCImgOp`; `ImgOpProofs` |
| `ImgOpChunks` | which chunks a copy of `ImgOp` has put in flash, and what `FwUpdate` sees of it | the run of `ImgOp`; `ImgOpProofs` |
| `FileTlv` | layout of a TLV area and the iterator's steps, as operators | used by the next three; `FileTlvProofs` |
| `TlvIter` | a caller walking a TLV area | `MCTlvIter`; `TlvIterProofs` |
| `FileImgValidate` | `file_img_validate` | `MCFileImgValidate`; `FileImgValidateProofs` |
| `HwRev` | both searches for the hardware revision | `MCHwRev`; `HwRevProofs` |
| `Board` | early initialisation, supercapacitor interrupt, error handlers, LED and button | `MCBoard`; `BoardProofs` |

How they fit together: `Partitions` is what `FwUpdate` implements, and `FwUpdate` is what
`FwCheckCalls` implements. `ImgOpChunks` shows that `ImgOp` implements the copy steps of
`FwUpdate`. `ImgOp`, `FileImgValidate` with `TlvIter`, `HwRev` and
`ImageVersion` each open one call that `FwUpdate` takes as a step or as a fact of an image:
`CopyChunk` to `CopyEnds`, the field `sig`, the fields `hw` and `hwid`, the field `ver`.
`Board` is the ground for `PowerCut`: power may go between any two steps.

### FwImages and FwUpdate

An image is a record: the partition it is linked for, whether B0's key and MCUboot's key accept
it, whether it starts with a bootable MCUboot header, whether its file fits, whether it belongs
to the board and the version compiled into it, and the hardware name, `fw_info` version and
header version it carries. `check_file`, `Installable`, `check_update_for_mcuboot` and the
others are the code's functions on such records, in the order of the code where the order can
be seen. `DowngradePrevention` is the build option of that name.

A partition is three variables: `img`, the image whose copy was last begun (the erase of the
old one finished), `have`, the chunks of it in flash, and `valid`, the `fw_info.valid` word.
An image has `NChunks` chunks; chunk 1 is the header, `InfoChunk` holds `fw_info`. `fs` is the
file system. `pc` names the stage of a boot, `step` the check in hand (1 to 4 as in `Task`,
which depends on the running slot), `found` is `flag_updates_found`, `hw` is
`p_hw_rev->hw_rev_name`, `buf` is `g_shared_img_buf`.

`buf` matters because `validate_b0_signature` judges it and not the file. It is one buffer for
both slots' files, it is not cleared, and the linker puts it in a section that no start-up code
initialises, so a reset may leave it as it was (`Reset`). Two things make the verdict one on
another image than the file's:

- a file that was cut short is read over the start of the whole image that is still there
  (`Prefix`, `ReadOver`), and the signature is checked to the end the image gives itself;
- the seek in `btldr_fs_get_file_size` fails and the function returns 0: no byte is read, none
  is missing, and the old contents are judged (the second disjunct of `Accepted`).

`check_file` and the operators on it therefore take the buffer `b` beside the file `i`.
`Verified(i, p)` is what they are after, a fact of the file. The two agree where
`Trusted` holds: no call has failed in this boot and MCUboot knows its hardware name. Then the
whole file is read, and one that passed for what the buffer held has no readable header, so no
name, and the comparison of names refuses it. Where `Trusted` does not hold the code
does invalidate `s0` or start a copy of a slot's file that is not what B0 would accept, and
the properties below say no more than the code keeps.

What the application leaves in the memory of the buffer is none of the images (`Garbage`), and
so is what remains of a file whose reading failed half-way (`Leftovers`).

| Action | Code |
| --- | --- |
| `B0Boot`, `Handover` | external: B0 chooses a slot; MCUboot's own boot |
| `StartupHangs`, `StartupPasses`, `StartupSkipsUpdate` | `on_startup` with `print_image_info` |
| `Mount`, `MountFails` | `btldr_fs_mount`, including the erase of the file system |
| `CheckSkips`, `CheckRefuses`, `CheckAccepts` | `check_file_and_update` and `check_update_for_mcuboot` up to the copy; `Accepted` is what a check that passes requires and leaves in the buffer |
| `CopyGivesUp`, `Erase`, `EraseFails`, `CopyChunk`, `CopyFails`, `CopyEnds` | `mcuboot_img_op_copy` |
| `FinishUpdate` | the end of `check_file_and_update`: unlink and report, copied or not |
| `LeaveToOtherSlot` | the file for the running slot passes: invalidate (s0) and reboot |
| `EndOfChecks`, `Reboot` | `mcuboot_fw_update`, `reboot_cold` |
| `Upload`, `Restart` | external: the application stores a file, somebody resets the device |
| `PowerCut` | power goes away, inside an erase too |

A check reads flash and files without changing them, so a whole check is one step: a power cut
in the middle of one leaves what a power cut before it leaves, but for the buffer, which may
be anything the check makes of it (`Reset`). `FwCheckCalls` bears that out. A
failing call is the disjunct with `Fault` of the action it occurs in, and `clean` remembers it.
B0 is modelled from how the code relies on it: it takes the copy with the higher `fw_info`
version that it can validate, and falls back to the other one.

What the properties say of verdicts that are about the buffer:

| Property | Application partitions | Slots |
| --- | --- | --- |
| `VerifiedContent` | always verified | as long as no call has failed on the device |
| `CopyJustified` | verified, no older, not running | verified where `Trusted` holds, else only the buffer is what B0 accepts; no older and not running always |
| `InvalidatedForReplacement` | - | B0 would accept the file where `Trusted` holds, else at least the buffer |
| `KeepsPromise` | `Begin` needs `Verified` | `Begin` needs it if the input `trusted` says so |

`RunningCopyIntact`, `BootloaderSurvives`, `FwInfoNeverDecreases` and the others rest on no
verdict and hold whatever the buffer holds.

### Partitions

The abstract specification has no boots, files, checks or reboots: per partition an `image`
and whether it is `whole`, the slots `retired` by a cleared valid word, and the one partition
being `writing`. `Damage` is an erase that does not finish, `Begin` one that does, `Complete`
and `Stop` end a copy, `Retire` is what `s0` does to itself. `Damage` and `Begin` need a
startable copy of MCUboot elsewhere (`Expendable`), and `Begin` an image of no lower `fw_info`
version that is verified for the partition; for a slot only while the input `trusted` is TRUE.
`trusted` is a variable no action accounts for: whether verdicts can be trusted is decided
elsewhere, and is `Trusted` in `FwUpdate`. `FwUpdate` maps onto `Partitions` in `Abstract`: a
partition is whole when all chunks of its image are there, and `writing` is the destination of
a copy under way. `KeepsPromise == Abstract!Spec` is a property of `FwUpdate_safety`.

### FwCheckCalls

`at` is the next call of the check in hand, `open` the number of open files, `mem` the image
in `g_shared_img_buf` after each call, `seenVer` and `seenName` what `validate_file` has filled
in, `failed` whether a call of this check has failed. `FwUpdate`'s `buf` stays what the check
found in the buffer until the check is over (`CheckOver`), as in `FwUpdate`, where a check is
one step.

| Action | Code |
| --- | --- |
| `FileFound` | `check_file`, `check_update_for_mcuboot`: the file is there |
| `B0Open`, `B0Read`, `B0Check` | `validate_b0_signature`, into the shared buffer |
| `FileOpen`, `Header`, `ResetAddress`, `HwRevision`, `Validate` | `validate_file` |
| `FwInfoOpen`, `FwInfoRead`, `Compare` | `fw_info_find_in_file` and the comparisons |
| `CopyOpen`, `CopyOpenFails`, `CopyClose`, `Leave`, `Refuse` | what the check ends in |
| `Restarts`, `Otherwise` | all other steps of `FwUpdate` |

A file cut short within its body (`Prefix`) is read over whatever the buffer holds. If that is
the whole image, the buffer then holds it again, and B0's signature is checked on the buffer.
`B0Read` has four outcomes: the file is read, it does not fit the buffer, the size query fails
and the check goes on with the buffer as it is, or the read fails and the file is refused with
the buffer in any state. `Restarts` keeps the buffer over a reset or not.

`ChecksAreAtomic` says that every step here is a step of `FwUpdate` or a stutter, in every
state and whatever the buffer holds: the failures a check runs into, wherever they strike,
leave no verdict and no buffer that `FwUpdate`'s single step does not allow.

### ImgOp

`file` and `flash` are functions from offsets to bytes, `len`, `Padding`, `offset` and
`rem_len` are the code's. A call ends in `done` with its result in `ok`; `NextCall` makes
another one on the same file, so that copies over partial copies and comparisons after copies
occur. A failing write leaves any part of the block written.

`ImgOpChunks` closes the gap to `FwUpdate`, which knows a copy only by chunks. It adds to the
calls of `ImgOp` what they never look at: `begun` (the image in the partition is the file's),
`have` (the chunks of it in flash) and `chunk` (the next one). A chunk is a run of whole
buffers, the last one whatever is left. `Update` is an instance of `FwUpdate` in the middle of
its check for the application, with these three in place of its own variables and the call's
outcome in place of `clean` and `faults`; `CopiesByChunks` says that each step of a copy is
one of `FwUpdate`'s `CopyGivesUp`, `Erase`, `EraseFails`, `CopyChunk`, `CopyFails` and
`CopyEnds`, or changes nothing there, and `ChunksAreInFlash` what `have` stands for in bytes.
It asks for files that reach into every chunk (`AllChunks`): a shorter one holds no image, and
the checks let none through to a copy.

### FileTlv, TlvIter, FileImgValidate

Offsets are bytes from the start of the TLV area. `Taken` adds up the bytes of a section's
first entries, `EntryOff` says from these sums where the header of the k-th entry of the file
lies, and `Placed` pairs every entry with its offset; the iterator has only `tlv_off`, `prot_end` and `tlv_end`, as in the code, and a header
it reads at an offset where none lies would be an error. `TlvIter` compares what its walk returns
with `Kept`, the entries asked for among the first n. `FileImgValidate` reduces payloads
to what the code asks of them: whether a hash is the image's, which key a key hash names,
under which keys a signature verifies. The configuration is the one of the repository's
`#else` branches (no `MCUBOOT_HW_KEY`, no pure signatures, no rollback counter), with a
signature type whose length is only bounded by the buffer.

### HwRev

`off`, `end`, `tlv` are the code's `data_off`, `tlvs_end_off` and `tlv`; `num` and `name` are
`p_hw_rev`. `medium` tells the two functions apart, which are the same loop over different
reads. `eof` cuts the file at any byte, and `Headers`, `HighBytes` and `Text` say what a read
of fewer bytes than asked leaves. `end` is four bytes past the section's last entry, because
`it_tlv_tot`, which counts the `image_tlv_info`, is added to the offset behind it: `At` says
what those four bytes are. TLV types are `"id"`, `"name"` and `"other"`; their numbers are in
a header of the Ruuvi board support outside this repository. Lengths of entries stay below
256, so that a header read in part is one of few.

### Board

`at.main` and `at.isr` are the next call of the main thread and of the interrupt handler;
while the handler runs the main thread does not. `sense`, `cb`, `pending` and `locked` are
the pin's interrupt configuration, the registered callback, the latched interrupt and
`arch_irq_lock`; `led`, `pinhole`, `flash` the other pins; `beat` and `red` the blink loop in
turns of 100 ms; `up`, kept for the properties only, says whether the button has been up
since the error.

| Action | Code |
| --- | --- |
| `ConfigurePin`, `ConfigureInterrupt`, `AddCallback`, `Sample` | `mcuboot_gpio_input_init`, `mcuboot_supercap_init` |
| `InitLed`, `InitButton`, `PowerFlash` | the rest of `mcuboot_early_init_post_kernel` |
| `Interrupt` | the GPIO driver's interrupt, calling back |
| `DisconnectButton`, `DisconnectLed`, `ArmWakeUp`, `PowerOff` | `mcuboot_on_supercap_active`, from either thread |
| `WakeUp`, `Reboot` | reset from power-off; `sys_reboot` |
| `Error` | `arch_system_halt`, `assert_post_action` |
| `BeginBlinking`, `Turn` | `mcuboot_led_err_blink_red_led`, one turn with its look at the button |
| `SupplyLost`, `SupplyBack`, `Press`, `Release` | the world |

Every GPIO call may fail; `failed` remembers it. A failing `gpio_add_callback`, whose result the
code ignores, leaves the pin without callback (`AddCallback`), and after a call that failed the
pin is taken to read as anything. That the pin is low when the supply is lost
is read off the code's configuration (interrupt on the falling edge, wake-up on the high
level); the devicetree is not in the repository. Only a REV_1 board has the pin.

## Runs

All runs use two TLC workers and finish within three minutes. The types of `ImgOp` and `HwRev`
are proved and left out of their runs.

| Run | Bounds | Shows |
| --- | --- | --- |
| `FwUpdate_safety` | 3 chunks, 2 power cuts, 2 faults, 2 uploads of 17 kinds, among them files that pass for what an earlier one left in the buffer | `TypeOK`, `RunningCopyIntact`, `BootloaderSurvives`, `VerifiedContent`, `CopyJustified`, `HandoverClean`, `HardwareKept`, `KeepsPromise`, `FwInfoNeverDecreases`, `InvalidatedForReplacement` |
| `FwUpdate_settles` | 3 chunks, 1 cut, 1 fault, 3 uploads of MCUboot copies, fair | `Settles`, `PrimaryGetsUpdated` |
| `FwCalls` | 2 chunks, 1 cut, 2 faults, 3 uploads of 10 kinds, cut and empty files among them | `CallTypeOK`, `HandlesClosed`, `ChecksAreAtomic` |
| `ImageVersion` | 24 versions, build number compared | `NeverOlder`, `Consistent` |
| `ImgOp` | partition 12, buffer 4, files 0 to 13 bytes, 2 chunks | `SuccessMeansInstalled`, `BlocksInBounds`, `ChunksAreInFlash`, `WriteOnce`, `CopiesByChunks` |
| `TlvIter` | up to 2 protected and 3 unprotected entries, 0 or 4 bytes, 2 types | `FindsInOrder`, `FindsAll`, `WalkEnds` |
| `FileImgValidate` | up to 3 TLVs of 14 kinds, up to 4 of 8, with and without protected ones | `TypeOK`, `AcceptedMeansSigned`, `NoHashDisagrees`, `OrdinaryAccepted`, `Decides` |
| `HwRev` | up to 3 protected entries of 9 kinds, file cut at every byte | `OnlyProtected`, `AsReference`, `SearchEnds` |
| `Board` | 3 and 4 blinks, any number of resets and failures | `TypeOK`, `LossIsKnown`, `OffIsOrderly`, `LossEndsInPowerOff`, `SupplyEndsPowerOff`, `HeldPressStays`, `CanReboot` |

Why the bounds are enough. Three chunks are the least with a header, an `fw_info` and a rest,
so every combination of what an interruption leaves that the code can tell apart occurs, torn
halves of an erase included. A second interruption can hit the recovery from the first, or the
other slot; with two faults one call can fail so that MCUboot does not know its hardware name
and another in the check that follows. Two uploads are what a stale verdict takes, a whole
image under the wrong name and a file cut short; three, in `FwUpdate_settles`, allow an update
of each slot and one more on top.
The checks look at no chunk but the header's and `fw_info`'s, so two suffice for `FwCalls`;
two faults let a check lose two calls, or two checks one each, and a third upload a file
that is read over what the other two left.
For the copy loop, 12, 4 and 13 bytes give full and partial buffers, a file that fills the
partition, one that does not fit, and every rest modulo 4; of the two chunks the first takes
two buffers, so that a copy may fail inside a chunk. The iterator's decisions depend
on one entry and the section boundary, so two and three entries put every kind of entry
before, at and after it. The search for the hardware revision remembers whether it has found
a number and a name: three entries give a first, a second and a duplicate in every order.
`Board` is finite as it is: its only constants are the two numbers of blinks of the code. The
proofs remove these bounds where it matters most.

Runs that are expected to be violated state what a log line says. Each is a finding in
`PROJECT.json`:

| Run | What the code does |
| --- | --- |
| `FwUpdate_no_fallback` | `s0` invalidates itself without asking whether `s1` can be booted: after an interrupted update of `s1` no copy is left that B0 starts |
| `FwUpdate_downgrade` | `check_downgrade_prevention` compares the file's version with itself |
| `FwCalls_stale` | a file of MCUboot cut short passes `validate_b0_signature` when an earlier check has left the whole image in `g_shared_img_buf`; the comparison of hardware names still refuses it, if no call fails |

Three more behaviours came up that the properties allow for explicitly instead: `s1` reboots
"to update it from primary MCUboot" but changes nothing B0 looks at, so it may do so for ever
(a disjunct of `Settles`); `s0` may invalidate itself for a file that `s1` then refuses as
older than `s0`'s own and deletes, and stays invalid (`InvalidatedForReplacement` asks only
for B0's acceptance); and a signature with an unknown key ends the walk of `file_img_validate`,
whose log line says "try next TLV", so that a second signature is never tried
(`SigWithoutKey`).

Two boundaries the properties step around, because no text in the repository rules on
them for images its tools produce: with an empty unprotected section the iterator steps over
its `image_tlv_info` to `tlv_end`, reads a TLV there and returns -1 where its comment promises
1 for the end (`FindsAll` therefore asks for an unprotected entry); and a last protected TLV
without a payload counts as unprotected in `file_tlv_iter_is_prot` and has the image refused
(`OrdinaryAccepted` asks for a payload).

`CHECK_DEADLOCK FALSE` is set only where the modelled call returns (`TlvIter`,
`FileImgValidate`, `HwRev`).

## Fairness and liveness

`FairSpec` adds `WF_vars(Device)`: while the device has power it executes the next
statement. Nothing is assumed of the application (`Upload`), of people (`Restart`) or of the
power supply. `Settles` says that boots come to rest (application started, no image, hung, or
no bootloader) unless `s1` reboots for its own file for ever; `PrimaryGetsUpdated` that the
two-boot update of `s0` ends with the new image bootable in `s0` once no more power cuts and
failures come, from whatever state the earlier ones left. In `TlvIter`, `FileImgValidate` and
`HwRev` the code's own steps are weakly fair, failing reads are not.

`Board` assumes `WF_vars(MainStep)`, `WF_vars(HandlerStep)` and `WF_vars(WakeUp)`: the
processor executes the next statement of the thread that may run, recognises a pending
interrupt that is not locked out, and is reset by an armed pin. A running handler disables
the main thread, so the main thread's fairness asks nothing of it then. Nothing makes an error
occur, the supply change or anybody press the button.

## Proofs

`tlapm` proves, for all values of the constants (any images, any number of chunks, cuts,
faults and uploads):

- `FwUpdateProofs`: `TypeOK`, `RunningCopyIntact`, `BootloaderSurvives`, `VerifiedContent`,
  `CopyJustified`, `HandoverClean`, `FwInfoNeverDecreases`, `InvalidatedForReplacement`, and
  `HardwareKept`. `VerifiedContent` and `HardwareKept` are proved for devices whose factory
  images carry one hardware name (`FactoryNamesHardware`): for a slot, the name is what keeps
  out a file that passed for what the buffer held. The assumptions are those of the two
  modules: images are of `ImageType`, a file cut short has neither header nor signatures
  (`PrefixAssumption`), the buffer without an image is none (`GarbageAssumption`), and the
  factory wrote verified images into all partitions.
  In the same module, `KeepsPromise`, that is `Spec => Abstract!Spec`, the refinement of
  `Partitions` by `FwUpdate`. From the steps of `Partitions` alone: every implementation of it
  on a device made with accepted images keeps a startable copy of MCUboot, or a whole s0 that
  is only retired; with the refinement this gives `BootloaderSurvives` a second time, from the
  shape of the steps. And of `FwCheckCalls`: `CallTypeOK`, `HandlesClosed` and
  `ChecksAreAtomic`.
- `BoardProofs`: `TypeOK`, `LossIsKnown`, `OffIsOrderly` and `HeldPressStays` for all numbers
  of blinks.
- `ImgOpProofs`: the types and the three properties of `ImgOp` for every partition and buffer
  whose sizes are multiples of four, and every file; and `ChunksAreInFlash` and
  `CopiesByChunks`, that `ImgOp` implements the copy of `FwUpdate`, for any number of chunks of
  any numbers of whole buffers (`ChunksAssumption`).
- `ImageVersionProofs`: `NeverOlder` and `Consistent` for all versions, with and without the
  build number.
- `FileTlvProofs`: how the iterator gets from one entry to the next, for every TLV area: any
  number of entries in either section, of any lengths.
- `TlvIterProofs`: `FindsInOrder` and `FindsAll` for every area and every type.
- `FileImgValidateProofs`: `TypeOK`, `AcceptedMeansSigned`, `NoHashDisagrees` and
  `OrdinaryAccepted` for every set of candidate images and every partition size. It is assumed
  that a candidate is a TLV area whose key hashes name one of the keys or none
  (`CandidatesAssumption`).
- `HwRevProofs`: `TypeOK`, `OnlyProtected` and `AsReference` for every set of images and
  wherever the file ends. It is assumed that an image is a TLV area whose hardware
  numbers are natural (`AreasAssumption`).

The inductive invariant of `FwUpdate` is the conjunction of `TypeOK`, `CopyJustified`,
`RunningCopyIntact`, `BootloaderSurvives` and `AppsVerified` (the part of `VerifiedContent`
about application partitions). None stands alone: that
the running copy stays intact needs that no copy targets it; that a bootloader survives needs
that the running copy is whole when the other one is erased, and that, once s0 has cleared its
valid word, the only copy that can target s0 is one made by a whole s1; that content is
verified needs that the file in the copy's hands is still the one that was checked.
None of them needs a slot's file to be what its verdict says; `RunningCopyIntact` gets the
genuineness of the copy that runs from B0.
`NamedFileIsRead` is the argument about the buffer: a file with a hardware name to show has a
header, so it is no cut one, and reading it leaves itself in the buffer.
`HandoverClean` adds `FilesHandled` (all files of finished checks are gone when no call
failed). `HardwareKept` adds `HardwareChecked`, which with `CopyJustified` also gives the part
of `VerifiedContent` about slots: with no failed call every MCUboot knows its name, so every
verdict can be trusted. The action properties follow from the same
invariant, one action at a time. In `ImgOp` the invariant is `Progress`: a copy leaves the
prefix of the file before `offset` in otherwise erased flash, a comparison has found that
prefix, and `offset` is aligned as long as something remains. `BlockFacts` and the lemmas on
`Padding` carry the arithmetic. For the refinement, `CopyProgress` adds that a copy with bytes
left stands in front of a full buffer inside the chunk in hand, with exactly the chunks before
it copied (`FullBuffers` and `ChunkEnds`: no buffer straddles the end of a chunk), and that at
the end of a file that reaches into every chunk none is left; that is what the guards of
`CopyFails` and `CopyEnds` ask for.

The refinement of `Partitions` rests on the same invariant: it supplies what `Begin` and
`Damage` ask for (`Expendable` from `RunningCopyIntact`, `Verified` where it is asked for and
the version from `CopyJustified`), and each action of `FwUpdate` is then one lemma, most of them a stutter. In
`FwCheckCalls` the invariant `CallInv` says what the calls have established by each point
of a check: `BufferRead` that `mem` is what the check found, that with the file read over it, or,
after a failed read, a part of the file; `AfterB0` that past B0's part of a check B0 would
accept what is in `mem`; `SeenSoFar` and `SeenAtLast` what is in the header and the hardware
name, or less when a call has failed; `Verdicts` that a file is only refused for a reason or
after a failed call. These are what `CheckAccepts`, `LeaveToOtherSlot` and `CheckRefuses` of
`FwUpdate` ask for (`AcceptedPasses`, `VerdictIsAStep`), in any state of the buffer.

`BoardProofs` conjoins three facts with the types. `SetUp`: how far early initialisation has
got fixes which pins are used, whether the interrupt senses the falling edge and the callback
is there, and that past the sample a lost supply is pending or being acted on. `ShutDown`: how
far a thread is on its way to power-off fixes what it has disconnected and armed, where the
main thread interrupted half-way through the same sequence is the case that needs care.
`Blinking`: a button taken as released has been up since the error. `InitOrder` and
`ShutdownOrder` turn the two sequences of calls into facts about single calls.

The proofs about TLVs all stand on `FileTlvProofs`. Its centre is `IterAt(i, type, prot, k)`,
the state of an iterator that has dealt with the first k - 1 entries: `Reached` is the offset
of the k-th header, except that an iterator at the end of the protected section has yet to
step over the second `image_tlv_info`. `IterStarts` says that `file_tlv_iter_begin` makes
`IterAt(1)`, `IterLoads` that `IterAt(k)` reads the header of entry k and no other,
`IterPasses` that stepping over it gives `IterAt(k + 1)`, `IterEnds` what is found behind the
last one, `IterProtected` when the code takes an entry for a protected one. With these an
invariant speaks of entry numbers and no proof on top speaks of bytes:

- `TlvIter`: `Standing(k)`, the iterator is at entry k and has returned the wanted ones of the
  first k - 1. That alone is inductive while the walk goes on.
- `FileImgValidate`: `Walked(k)`. `KeyNamed`: `key_id` is what the last key TLV named, and no
  signature has come since. `SignatureSeen`, `HashSeen`: a verdict that is set has an entry
  before k to show for it; `HashesAgree`: every hash before k agrees. For an ordinary image
  `OnTrack(k)` fixes the verdicts by k. `OrdinaryAccepted` is the only one that needs more
  than soundness: `OrdinaryNotRefused` shows that no refusing action is enabled on track.
- `HwRev`: `Placement` says where the search can stand: at an entry of the protected section,
  closer to its end than a header is long, or, after a short read, beyond the end of the file,
  where nothing is read any more. `Progress` adds what was found: as long as no read failed or
  came back short, `num` and `name` are the values of the entries that count among those
  passed (`Found`). `AsReference` follows because the walk stops for the reasons the reference
  stops for: both found, an entry no search may pass, or the end of the section.

Where an entry lies is a sum over the entries before it. The facts about it (`TakenFacts`,
`TakenIncreases`) and about `Kept` are proved by induction, but not with the library's theorems,
which take a predicate as a parameter. `LeastNumber`, every nonempty set of natural numbers has
a least element, comes from `NatLessThanWellFounded` and `WFMin` of `WellFoundedInduction`;
`SetInduction` puts it as induction over a set S, and each proof names as S the set of numbers
for which its claim holds. Recursive functions are unfolded by first showing that a function
with the defining equation exists (`SumsExists`, `KeepsExists`). The length of a sequence is an
opaque `Count` in these modules, which only leaves that need nothing but first-order reasoning
expand: the SMT encoding of `Len` is about sequences, and a proof about a value not yet known
to be one should not use it.

Only model-checked: everything about liveness (`Settles`, `PrimaryGetsUpdated`, `WalkEnds`,
`Decides`, `SearchEnds`, `LossEndsInPowerOff`, `SupplyEndsPowerOff`, `CanReboot`), which is
beyond the prover. Every safety invariant and every action property that a passing run checks
is proved.

## Not modelled

- B0, MCUboot's own boot procedure, LittleFS, the flash and GPIO drivers and the
  cryptography: external, modelled by what the code relies on.
- `boot_add_shared_data`: one call into MCUboot's library, whose state is not in this
  repository.
- The path buffer of `btldr_fs.c` and its mutex: one thread uses it from the first to the last
  line of each function. The unmount before the hand-over.
- Boards other than REV_1, which have no supercapacitor pin; the green LED, which is switched
  off once; errors before early initialisation has ended; `mcuboot_ext_flash_power_off`, which
  nothing calls; a supercapacitor that runs dry before the shutdown is through.
- `file_img_get_security_cnt` and the code under `MCUBOOT_HW_KEY`, `MCUBOOT_SIGN_PURE` and
  `MCUBOOT_HW_ROLLBACK_PROT`, which the build does not enable. Most of `file_tlv_priv.h` is
  declarations.
- Logging, the RTT buffer check, the printk wrapper, the build and CI: no state the
  properties depend on.

## Plan

Done, in this order: the core (`FwImages`, `FwUpdate` and its proofs), `ImgOp`,
`ImageVersion`, `FileTlv`, `TlvIter`, `FileImgValidate`; then `Partitions` with its
refinement, `FwCheckCalls`, `HwRev` and `Board` with their proofs; then the proofs of
everything about TLVs, and `ImgOpChunks`, the refinement of `FwUpdate`'s copy by `ImgOp`.

Left, in this order:

1. `on_startup` call by call, as `FwCheckCalls` does for the checks, with the search of
   `HwRev` as one of its calls.
2. The safety core of the liveness properties: a measure that every step of a walk decreases
   (`WalkEnds`, `Decides`, `SearchEnds`), as an action property that can be proved.
