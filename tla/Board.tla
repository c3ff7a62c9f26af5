-------------------------------- MODULE Board --------------------------------
(***************************************************************************)
(* The board under MCUboot (REV_1): early initialisation, the interrupt of *)
(* the pin that tells that the supply is lost and the supercapacitor feeds *)
(* the board, and the blink loop that a fatal error or a failed assertion  *)
(* ends in, which the pinhole button leaves.                               *)
(*                                                                         *)
(* The main thread (at.main) and the interrupt handler (at.isr) take turns *)
(* between any two calls of the GPIO driver; the handler, once it runs,    *)
(* keeps the main thread from running.  The supply and the button change   *)
(* at any time, and any call of the driver may fail.                       *)
(***************************************************************************)
EXTENDS Integers, Sequences

CONSTANT BlinksOn    \* [Errors -> Nat]: num_red_blinks, the error's number of blinks

Errors == {"halt", "assert"}    \* arch_system_halt, assert_post_action

ASSUME BlinksAssumption == BlinksOn \in [Errors -> Nat]

VARIABLES
    supply,      \* the supply is there: the pin SUPERCAP_ACTIVE is high
    button,      \* the button is pressed
    power,       \* "on", or "off" after sys_poweroff
    at,          \* what the main thread and the handler do next
    sense,       \* the pin's interrupt: "none", "falling" or "high"
    cb,          \* the handler is registered
    pending,     \* the pin's interrupt is pending
    locked,      \* arch_irq_lock has been called
    led, pinhole,\* the pins of LED and button: "reset", "used", "off"
    flash,       \* the external flash memory has been powered on
    error,       \* the error that occurred, or "none"
    beat,        \* the blink loop's turn of 100 ms
    red,         \* the red LED is lit
    released,    \* is_button_released
    up,          \* the button has been up since the error occurred
    failed       \* a call of the GPIO driver has failed since reset

vars  == <<supply, button, power, at, sense, cb, pending, locked, led, pinhole, flash,
           error, beat, red, released, up, failed>>
env   == <<supply, button>>
pin   == <<sense, cb, pending, locked>>
loop  == <<error, beat, red, released, up>>
ports == <<led, pinhole, flash>>

(* Faulty: the pin is looked at before its interrupt is set up.            *)
SampledFirst == <<"sample", "pin", "sense", "callback", "led", "button", "flash", "boot">>

(* mcuboot_early_init_post_kernel, with mcuboot_supercap_init in it.       *)
EarlyInit == <<"pin", "sense", "callback", "sample", "led", "button", "flash", "boot">>

(* Faulty: the LED is forgotten.                                           *)
ShutdownLeavesLed == <<"button_off", "wake", "poweroff">>

(* mcuboot_on_supercap_active.                                             *)
Shutdown == <<"button_off", "led_off", "wake", "poweroff">>

Places    == {EarlyInit[k] : k \in DOMAIN EarlyInit}
Down      == {Shutdown[k] : k \in DOMAIN Shutdown}
Following(seq, p) == seq[(CHOOSE k \in DOMAIN seq : seq[k] = p) + 1]

ThreadsTypeOK ==
    at \in [main : Places \cup Down \cup {"error", "blink", "reboot"}, isr : Down \cup {"idle"}]

PinsTypeOK ==
    /\ supply \in BOOLEAN /\ button \in BOOLEAN
    /\ power \in {"on", "off"}
    /\ sense \in {"none", "falling", "high"}
    /\ cb \in BOOLEAN /\ pending \in BOOLEAN /\ locked \in BOOLEAN
    /\ led \in {"reset", "used", "off"} /\ pinhole \in {"reset", "used", "off"}
    /\ flash \in BOOLEAN /\ failed \in BOOLEAN

LoopTypeOK ==
    /\ error \in Errors \cup {"none"}
    /\ beat \in Nat
    /\ error = "none" => beat = 0
    /\ error # "none" => beat < 15 + 2 * BlinksOn[error]
    /\ red \in BOOLEAN /\ released \in BOOLEAN /\ up \in BOOLEAN

TypeOK == ThreadsTypeOK /\ PinsTypeOK /\ LoopTypeOK

Idle == [main |-> EarlyInit[1], isr |-> "idle"]

(* After reset the pins are disconnected and no interrupt is configured.   *)
Init ==
    /\ supply \in BOOLEAN /\ button \in BOOLEAN
    /\ power = "on" /\ at = Idle
    /\ sense = "none" /\ cb = FALSE /\ pending = FALSE /\ locked = FALSE
    /\ led = "reset" /\ pinhole = "reset" /\ flash = FALSE
    /\ error = "none" /\ beat = 0 /\ red = FALSE /\ released = FALSE /\ up = FALSE
    /\ failed = FALSE

Reset ==
    /\ power' = "on" /\ at' = Idle
    /\ sense' = "none" /\ cb' = FALSE /\ pending' = FALSE /\ locked' = FALSE
    /\ led' = "reset" /\ pinhole' = "reset" /\ flash' = FALSE
    /\ error' = "none" /\ beat' = 0 /\ red' = FALSE /\ released' = FALSE /\ up' = FALSE
    /\ failed' = FALSE
    /\ UNCHANGED env

-----------------------------------------------------------------------------
(* Threads.                                                                *)

At(who, p) == power = "on" /\ at[who] = p /\ (who = "main" => at.isr = "idle")
Goto(who, p) == at' = [at EXCEPT ![who] = p]

Works == UNCHANGED failed
Fails == failed' = TRUE

(* A step of early initialisation that is one call: it does its work or    *)
(* fails, and the thread goes on.                                          *)
Step(p) == At("main", p) /\ Goto("main", Following(EarlyInit, p))

-----------------------------------------------------------------------------
(* mcuboot_gpio_input_init of the pin, left at the first call that fails,  *)
(* and the rest of mcuboot_supercap_init.                                  *)

ConfigurePin ==
    /\ At("main", "pin")
    /\ \/ Works /\ Goto("main", Following(EarlyInit, "pin"))
       \/ Fails /\ Goto("main", "sample")
    /\ UNCHANGED <<env, power, pin, ports, loop>>

ConfigureInterrupt ==
    /\ At("main", "sense")
    /\ \/ Works /\ sense' = "falling" /\ Goto("main", Following(EarlyInit, "sense"))
       \/ Fails /\ UNCHANGED sense /\ Goto("main", "sample")
    /\ UNCHANGED <<env, power, cb, pending, locked, ports, loop>>

(* Whether the callback could be added is not asked.                       *)
AddCallback ==
    /\ Step("callback")
    /\ (Works /\ cb' = TRUE) \/ (Fails /\ UNCHANGED cb)
    /\ UNCHANGED <<env, power, sense, pending, locked, ports, loop>>

(* After a call that failed the pin is taken to read as anything.          *)
SampledActive == IF failed THEN BOOLEAN ELSE {~supply}

Sample ==
    /\ At("main", "sample")
    /\ \/ /\ Works
          /\ \E active \in SampledActive :
                Goto("main", IF active THEN Shutdown[1] ELSE Following(EarlyInit, "sample"))
       \/ Fails /\ Goto("main", Following(EarlyInit, "sample"))
    /\ UNCHANGED <<env, power, pin, ports, loop>>

(* mcuboot_led_init, mcuboot_button_init, mcuboot_ext_flash_power_on.  The *)
(* button's second call disables its interrupt.                            *)
InitLed ==
    /\ Step("led")
    /\ (Works /\ led' = "used") \/ (Fails /\ UNCHANGED led)
    /\ UNCHANGED <<env, power, pin, pinhole, flash, loop>>

InitButton ==
    /\ Step("button")
    /\ (Works /\ pinhole' = "used") \/ (Fails /\ pinhole' \in {pinhole, "used"})
    /\ UNCHANGED <<env, power, pin, led, flash, loop>>

PowerFlash ==
    /\ Step("flash")
    /\ (Works /\ flash' = TRUE) \/ (Fails /\ UNCHANGED flash)
    /\ UNCHANGED <<env, power, pin, led, pinhole, loop>>

-----------------------------------------------------------------------------
(* The interrupt.  It is recognised while no other instance of it runs; an *)
(* edge before the callback is added has no effect.                        *)

Interrupt ==
    /\ power = "on" /\ pending /\ ~locked /\ at.isr = "idle"
    /\ pending' = (sense = "high" /\ supply)
    /\ IF cb THEN Goto("isr", Shutdown[1]) ELSE UNCHANGED at
    /\ UNCHANGED <<env, power, sense, cb, locked, ports, loop, failed>>

(* mcuboot_on_supercap_active, by the main thread or by the handler.       *)

DisconnectButton(who) ==
    /\ At(who, "button_off")
    /\ Goto(who, Following(Shutdown, "button_off"))
    /\ (Works /\ pinhole' = "off") \/ (Fails /\ UNCHANGED pinhole)
    /\ UNCHANGED <<env, power, pin, led, flash, loop>>

DisconnectLed(who) ==
    /\ At(who, "led_off")
    /\ Goto(who, Following(Shutdown, "led_off"))
    /\ \/ Works /\ red' = FALSE /\ led' = "off"
       \/ Fails /\ red' \in {red, FALSE} /\ UNCHANGED led
    /\ UNCHANGED <<env, power, pin, pinhole, flash, error, beat, released, up>>

(* Faulty: the device waits for the next loss of the supply.               *)
WakeOnLoss == "falling"

WakeOn == "high"

ArmWakeUp(who) ==
    /\ At(who, "wake")
    /\ Goto(who, Following(Shutdown, "wake"))
    /\ \/ Works /\ sense' = WakeOn /\ pending' = (pending \/ supply)
       \/ Fails /\ UNCHANGED <<sense, pending>>
    /\ UNCHANGED <<env, power, cb, locked, ports, loop>>

PowerOff(who) ==
    /\ At(who, "poweroff")
    /\ power' = "off"
    /\ UNCHANGED <<env, at, pin, ports, loop, failed>>

(* An armed pin that is high wakes the device: it is reset.                *)
WakeUp ==
    /\ power = "off" /\ sense = "high" /\ supply
    /\ Reset

-----------------------------------------------------------------------------
(* The error handlers and mcuboot_led_err_blink_red_led.                   *)

(* Faulty: a failed assertion locks the interrupts as well.                *)
AlwaysLocks(e) == TRUE

LocksInterrupts(e) == e = "halt"

Error(e) ==
    /\ At("main", "boot")
    /\ Goto("main", "error")
    /\ error' = e
    /\ locked' = LocksInterrupts(e)
    /\ up' = ~button
    /\ UNCHANGED <<env, power, sense, cb, pending, ports, beat, red, released, failed>>

(* mcuboot_button_get.  A call that fails looks like a button that is up,  *)
(* and a pin that was not configured reads as anything.                    *)
Reads(b) ==
    \/ Works /\ b \in (IF pinhole = "used" THEN {button} ELSE BOOLEAN)
    \/ Fails /\ b = FALSE

(* Faulty: the first look at the button is left out.                       *)
TakenAsReleased(b) == TRUE

Released(b) == ~b

BeginBlinking ==
    /\ At("main", "error")
    /\ \E b \in BOOLEAN : Reads(b) /\ released' = Released(b)
    /\ Goto("main", "blink")
    /\ beat' = 0 /\ red' = TRUE
    /\ UNCHANGED <<env, power, pin, ports, error, up>>

(* A first flash and 5 dark turns, num_red_blinks times a flash and a dark *)
(* turn, then 9 dark turns.                                                *)
Lit(n) == n = 0 \/ (n >= 6 /\ n < 6 + 2 * BlinksOn[error] /\ n % 2 = 0)

(* Faulty: one turn too many.                                              *)
LateNextBeat == (beat + 1) % (16 + 2 * BlinksOn[error])

NextBeat == (beat + 1) % (15 + 2 * BlinksOn[error])

(* Faulty: is_button_released is not passed back.                          *)
NeverReleased(b) == released

NowReleased(b) == released \/ ~b

(* Every turn ends with check_if_button_released_and_pressed.              *)
Turn ==
    /\ At("main", "blink")
    /\ \E b \in BOOLEAN :
        /\ Reads(b)
        /\ IF released /\ b
           THEN Goto("main", "reboot") /\ UNCHANGED <<beat, red, released>>
           ELSE /\ released' = NowReleased(b)
                /\ beat' = NextBeat /\ red' = Lit(beat')
                /\ UNCHANGED at
    /\ UNCHANGED <<env, power, pin, ports, error, up>>

(* sys_reboot, after 100 ms.                                               *)
Reboot ==
    /\ At("main", "reboot")
    /\ Reset

-----------------------------------------------------------------------------
(* The world.                                                              *)

SupplyLost ==
    /\ supply /\ supply' = FALSE
    /\ pending' = (pending \/ (power = "on" /\ sense = "falling"))
    /\ UNCHANGED <<button, power, at, sense, cb, locked, ports, loop, failed>>

SupplyBack ==
    /\ ~supply /\ supply' = TRUE
    /\ pending' = (pending \/ (power = "on" /\ sense = "high"))
    /\ UNCHANGED <<button, power, at, sense, cb, locked, ports, loop, failed>>

Press ==
    /\ ~button /\ button' = TRUE
    /\ UNCHANGED <<supply, power, at, pin, ports, loop, failed>>

Release ==
    /\ button /\ button' = FALSE
    /\ up' = (error # "none")
    /\ UNCHANGED <<supply, power, at, pin, ports, error, beat, red, released, failed>>

InitStep ==
    \/ ConfigurePin \/ ConfigureInterrupt \/ AddCallback \/ Sample
    \/ InitLed \/ InitButton \/ PowerFlash

ShutdownStep(who) ==
    DisconnectButton(who) \/ DisconnectLed(who) \/ ArmWakeUp(who) \/ PowerOff(who)

MainStep    == InitStep \/ ShutdownStep("main") \/ BeginBlinking \/ Turn \/ Reboot
HandlerStep == Interrupt \/ ShutdownStep("isr")
World       == SupplyLost \/ SupplyBack \/ Press \/ Release

Next == MainStep \/ HandlerStep \/ WakeUp \/ (\E e \in Errors : Error(e)) \/ World

(* The processor runs one of its two threads.  Nothing makes an error, a   *)
(* press or a change of the supply happen.                                 *)
Fairness ==
    /\ WF_vars(MainStep)
    /\ WF_vars(HandlerStep)
    /\ WF_vars(WakeUp)

Spec == Init /\ [][Next]_vars /\ Fairness

-----------------------------------------------------------------------------

(* Past its first look at the pin, and unless a call has failed, MCUboot   *)
(* cannot have missed that the supply is lost: as long as it is, the       *)
(* interrupt is pending or a thread is on its way to power-off.  The       *)
(* interrupt is enabled before there is a handler for it, and an edge in   *)
(* between is dropped; the look at the pin after both makes up for it.     *)
Watching == {"led", "button", "flash", "boot", "error", "blink", "reboot"}
LossIsKnown ==
    power = "on" /\ at.main \in Watching /\ ~failed /\ ~supply => pending \/ at.isr # "idle"

(* In power-off neither the LED nor the button draws current from the      *)
(* supercapacitor and the pin is armed to wake the device, whichever of    *)
(* the two threads got there and wherever the handler interrupted the      *)
(* main thread, in the middle of the same shutdown included.               *)
OffIsOrderly ==
    power = "off" /\ ~failed =>
        led # "used" /\ pinhole # "used" /\ ~red /\ sense = "high"

(* A loss of the supply that lasts ends in power-off, also from the blink  *)
(* loop of a failed assertion.  After a fatal error the interrupts are     *)
(* locked and it does not.                                                 *)
LossEndsInPowerOff == []<>(supply \/ power = "off" \/ error = "halt" \/ failed)

(* With the supply back for good the device does not stay in power-off.    *)
SupplyEndsPowerOff == []<>(power = "on" \/ ~supply \/ failed)

(* A press that began before the error occurred, or before the button had  *)
(* been up since, never reboots.                                           *)
HeldPressStays == [][at'.main = "reboot" /\ at.main # "reboot" => failed' \/ (button /\ up)]_vars

(* The user can always leave the blink loop: a button that stays up is seen*)
(* to be up, also one that was down when the error occurred, and a press   *)
(* that then lasts reboots, unless the device powers off first.            *)
CanReboot ==
    LET Otherwise == at.main # "blink" \/ power = "off" \/ failed IN
    /\ (at.main = "blink" /\ ~button) ~> (button \/ released \/ Otherwise)
    /\ (at.main = "blink" /\ released /\ button) ~> (~button \/ Otherwise)

=============================================================================
