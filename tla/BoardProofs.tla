----------------------------- MODULE BoardProofs -----------------------------
(***************************************************************************)
(* Proofs about Board, for every number of blinks.                         *)
(***************************************************************************)
EXTENDS Board, TLAPS

(***************************************************************************)
(* The order of the calls, one by one.                                     *)
(***************************************************************************)

LEMMA InitOrder ==
    /\ EarlyInit[1] = "pin"
    /\ Following(EarlyInit, "pin") = "sense"
    /\ Following(EarlyInit, "sense") = "callback"
    /\ Following(EarlyInit, "sample") = "led"
    /\ Following(EarlyInit, "callback") = "sample"
    /\ Following(EarlyInit, "led") = "button"
    /\ Following(EarlyInit, "button") = "flash"
    /\ Following(EarlyInit, "flash") = "boot"
<1>1. ASSUME NEW n \in 1 .. 7
      PROVE  Following(EarlyInit, EarlyInit[n]) = EarlyInit[n + 1]
  <2> DEFINE k == CHOOSE k \in DOMAIN EarlyInit : EarlyInit[k] = EarlyInit[n]
  <2>1. DOMAIN EarlyInit = 1 .. 8
    BY DEF EarlyInit
  <2>2. k \in 1 .. 8 /\ EarlyInit[k] = EarlyInit[n]
    BY <2>1
  <2>3. k = n
    BY <2>2 DEF EarlyInit
  <2> QED
    BY <2>3 DEF Following
<1> QED
  BY <1>1 DEF EarlyInit

LEMMA ShutdownOrder ==
    /\ Shutdown[1] = "button_off"
    /\ Following(Shutdown, "button_off") = "led_off"
    /\ Following(Shutdown, "led_off") = "wake"
    /\ Following(Shutdown, "wake") = "poweroff"
<1>1. ASSUME NEW n \in 1 .. 3
      PROVE  Following(Shutdown, Shutdown[n]) = Shutdown[n + 1]
  <2> DEFINE k == CHOOSE k \in DOMAIN Shutdown : Shutdown[k] = Shutdown[n]
  <2>1. DOMAIN Shutdown = 1 .. 4
    BY DEF Shutdown
  <2>2. k \in 1 .. 4 /\ Shutdown[k] = Shutdown[n]
    BY <2>1
  <2>3. k = n
    BY <2>2 DEF Shutdown
  <2> QED
    BY <2>3 DEF Following
<1> QED
  BY <1>1 DEF Shutdown

LEMMA PlacesAre ==
    /\ Places = {"pin", "sense", "callback", "sample", "led", "button", "flash", "boot"}
    /\ Down = {"button_off", "led_off", "wake", "poweroff"}
<1>1. DOMAIN EarlyInit = 1 .. 8 /\ DOMAIN Shutdown = 1 .. 4
  BY DEF EarlyInit, Shutdown
<1>2. Places = {"pin", "sense", "callback", "sample", "led", "button", "flash", "boot"}
  BY <1>1 DEF Places, EarlyInit
<1>3. Down = {"button_off", "led_off", "wake", "poweroff"}
  BY <1>1 DEF Down, Shutdown
<1> QED
  BY <1>2, <1>3

-----------------------------------------------------------------------------
(***************************************************************************)
(* The inductive invariant.  SetUp: how far the pin's interrupt has been   *)
(* set up where the main thread is, while no call has failed and no thread *)
(* shuts down.  ShutDown: how far each of the two shutdowns has come.      *)
(* Blinking: what the blink loop has seen of the button.                   *)
(***************************************************************************)

SetUp ==
    ~failed /\ at.isr = "idle" =>
        /\ at.main \in {"callback", "sample"} \cup Watching => sense = "falling"
        /\ at.main \in {"sample"} \cup Watching => cb
        /\ at.main \in {"flash", "boot", "error", "blink", "reboot"} => pinhole = "used"

ShutDown ==
    /\ power = "off" => at.main = "poweroff" \/ at.isr = "poweroff"
    /\ ~failed =>
        \A who \in {"main", "isr"} :
            /\ at[who] \in {"led_off", "wake", "poweroff"} => pinhole # "used"
            /\ at[who] \in {"wake", "poweroff"} => led # "used" /\ ~red
            /\ at[who] = "poweroff" => sense = "high"

Blinking ==
    /\ at.main \in {"error", "blink", "reboot"} => error \in Errors
    /\ at.main \notin {"error", "blink", "reboot"} => error = "none"
    /\ at.main \notin {"blink", "reboot"} => beat = 0
    /\ error # "none" /\ ~button => up
    /\ ~failed /\ at.main = "blink" /\ released => up

IInv == TypeOK /\ LossIsKnown /\ SetUp /\ ShutDown /\ Blinking

LEMMA InitIInv == Init => IInv
<1> SUFFICES ASSUME Init PROVE IInv
  OBVIOUS
<1>1. at = [main |-> "pin", isr |-> "idle"]
  BY InitOrder DEF Init, Idle
<1>2. TypeOK
  <2>1. ThreadsTypeOK
    BY <1>1, PlacesAre DEF ThreadsTypeOK
  <2>2. PinsTypeOK
    BY DEF Init, PinsTypeOK
  <2>3. LoopTypeOK
    BY DEF Init, LoopTypeOK
  <2> QED
    BY <2>1, <2>2, <2>3 DEF TypeOK
<1>3. LossIsKnown
  BY <1>1 DEF Init, LossIsKnown, Watching
<1>4. SetUp
  BY <1>1 DEF Init, SetUp, Watching
<1>5. ShutDown
  BY <1>1 DEF Init, ShutDown
<1>6. Blinking
  BY <1>1 DEF Init, Blinking
<1> QED
  BY <1>2, <1>3, <1>4, <1>5, <1>6 DEF IInv

LEMMA ThreadsStep == ThreadsTypeOK /\ [Next]_vars => ThreadsTypeOK'
<1> SUFFICES ASSUME ThreadsTypeOK, [Next]_vars PROVE ThreadsTypeOK'
  OBVIOUS
<1> USE InitOrder, ShutdownOrder, PlacesAre DEF ThreadsTypeOK, At, Goto
<1>1. CASE ConfigurePin
  BY <1>1 DEF ConfigurePin
<1>2. CASE ConfigureInterrupt
  BY <1>2 DEF ConfigureInterrupt
<1>3. CASE AddCallback
  BY <1>3 DEF AddCallback, Step, Works, Fails
<1>4. CASE Sample
  BY <1>4 DEF Sample
<1>5. CASE InitLed
  BY <1>5 DEF InitLed, Step
<1>6. CASE InitButton
  BY <1>6 DEF InitButton, Step
<1>7. CASE PowerFlash
  BY <1>7 DEF PowerFlash, Step
<1>8. CASE BeginBlinking
  BY <1>8 DEF BeginBlinking
<1>9. CASE Turn
  BY <1>9 DEF Turn
<1>10. CASE Reboot
  BY <1>10 DEF Reboot, Reset, Idle
<1>11. CASE Interrupt
  BY <1>11 DEF Interrupt
<1>12. CASE WakeUp
  BY <1>12 DEF WakeUp, Reset, Idle
<1>13. CASE SupplyLost
  BY <1>13 DEF SupplyLost
<1>14. CASE SupplyBack
  BY <1>14 DEF SupplyBack
<1>15. CASE Press
  BY <1>15 DEF Press
<1>16. CASE Release
  BY <1>16 DEF Release
<1>17. ASSUME NEW who \in {"main", "isr"}, DisconnectButton(who) PROVE ThreadsTypeOK'
  BY <1>17 DEF DisconnectButton
<1>18. ASSUME NEW who \in {"main", "isr"}, DisconnectLed(who) PROVE ThreadsTypeOK'
  BY <1>18 DEF DisconnectLed
<1>19. ASSUME NEW who \in {"main", "isr"}, ArmWakeUp(who) PROVE ThreadsTypeOK'
  BY <1>19 DEF ArmWakeUp
<1>20. ASSUME NEW who \in {"main", "isr"}, PowerOff(who) PROVE ThreadsTypeOK'
  BY <1>20 DEF PowerOff
<1>21. ASSUME NEW e \in Errors, Error(e) PROVE ThreadsTypeOK'
  BY <1>21 DEF Error
<1>22. CASE UNCHANGED vars
  BY <1>22 DEF vars
<1> QED
  BY <1>1, <1>2, <1>3, <1>4, <1>5, <1>6, <1>7, <1>8, <1>9, <1>10, <1>11, <1>12, <1>13, <1>14, <1>15, <1>16, <1>17, <1>18, <1>19, <1>20, <1>21, <1>22
  DEF Next, MainStep, HandlerStep, World, InitStep, ShutdownStep

LEMMA PinsStep == PinsTypeOK /\ [Next]_vars => PinsTypeOK'
<1> SUFFICES ASSUME PinsTypeOK, [Next]_vars PROVE PinsTypeOK'
  OBVIOUS
<1> USE DEF PinsTypeOK, env, pin, loop, ports
<1>1. CASE ConfigurePin
  BY <1>1 DEF ConfigurePin, Works, Fails
<1>2. CASE ConfigureInterrupt
  BY <1>2 DEF ConfigureInterrupt, Works, Fails
<1>3. CASE AddCallback
  BY <1>3 DEF AddCallback, Step, Works, Fails
<1>4. CASE Sample
  BY <1>4 DEF Sample, Works, Fails
<1>5. CASE InitLed
  BY <1>5 DEF InitLed, Works, Fails
<1>6. CASE InitButton
  BY <1>6 DEF InitButton, Works, Fails
<1>7. CASE PowerFlash
  BY <1>7 DEF PowerFlash, Works, Fails
<1>8. CASE BeginBlinking
  BY <1>8 DEF BeginBlinking, Works, Fails, Reads
<1>9. CASE Turn
  BY <1>9 DEF Turn, Works, Fails, Reads
<1>10. CASE Reboot
  BY <1>10 DEF Reboot, Reset, Idle
<1>11. CASE Interrupt
  BY <1>11 DEF Interrupt
<1>12. CASE WakeUp
  BY <1>12 DEF WakeUp, Reset, Idle
<1>13. CASE SupplyLost
  BY <1>13 DEF SupplyLost
<1>14. CASE SupplyBack
  BY <1>14 DEF SupplyBack
<1>15. CASE Press
  BY <1>15 DEF Press
<1>16. CASE Release
  BY <1>16 DEF Release
<1>17. ASSUME NEW who \in {"main", "isr"}, DisconnectButton(who) PROVE PinsTypeOK'
  BY <1>17 DEF DisconnectButton, Works, Fails
<1>18. ASSUME NEW who \in {"main", "isr"}, DisconnectLed(who) PROVE PinsTypeOK'
  BY <1>18 DEF DisconnectLed, Works, Fails
<1>19. ASSUME NEW who \in {"main", "isr"}, ArmWakeUp(who) PROVE PinsTypeOK'
  BY <1>19 DEF ArmWakeUp, Works, Fails, WakeOn
<1>20. ASSUME NEW who \in {"main", "isr"}, PowerOff(who) PROVE PinsTypeOK'
  BY <1>20 DEF PowerOff
<1>21. ASSUME NEW e \in Errors, Error(e) PROVE PinsTypeOK'
  BY <1>21 DEF Error, LocksInterrupts
<1>22. CASE UNCHANGED vars
  BY <1>22 DEF vars
<1> QED
  BY <1>1, <1>2, <1>3, <1>4, <1>5, <1>6, <1>7, <1>8, <1>9, <1>10, <1>11, <1>12, <1>13, <1>14, <1>15, <1>16, <1>17, <1>18, <1>19, <1>20, <1>21, <1>22
  DEF Next, MainStep, HandlerStep, World, InitStep, ShutdownStep

LEMMA NextBeatInRange ==
    ASSUME error \in Errors, beat \in Nat
    PROVE  NextBeat \in Nat /\ NextBeat < 15 + 2 * BlinksOn[error]
<1> DEFINE d == 15 + 2 * BlinksOn[error]
<1>1. BlinksOn[error] \in Nat
  BY BlinksAssumption
<1>2. d \in Nat /\ d > 0
  BY <1>1
<1>3. \A x, y \in Nat : y > 0 => x % y \in Nat /\ x % y < y
  OBVIOUS
<1>4. (beat + 1) % d \in Nat /\ (beat + 1) % d < d
  <2> HIDE DEF d
  <2> QED
    BY <1>2, <1>3
<1> QED
  BY <1>4 DEF NextBeat

LEMMA LoopStep == ThreadsTypeOK /\ PinsTypeOK /\ LoopTypeOK /\ Blinking /\ [Next]_vars => LoopTypeOK'
<1> SUFFICES ASSUME ThreadsTypeOK /\ PinsTypeOK /\ LoopTypeOK /\ Blinking, [Next]_vars PROVE LoopTypeOK'
  OBVIOUS
<1> USE DEF LoopTypeOK, env, pin, loop, ports
<1>1. CASE ConfigurePin
  BY <1>1 DEF ConfigurePin, Works, Fails
<1>2. CASE ConfigureInterrupt
  BY <1>2 DEF ConfigureInterrupt, Works, Fails
<1>3. CASE AddCallback
  BY <1>3 DEF AddCallback, Step, Works, Fails
<1>4. CASE Sample
  BY <1>4 DEF Sample, Works, Fails
<1>5. CASE InitLed
  BY <1>5 DEF InitLed, Works, Fails
<1>6. CASE InitButton
  BY <1>6 DEF InitButton, Works, Fails
<1>7. CASE PowerFlash
  BY <1>7 DEF PowerFlash, Works, Fails
<1>8. CASE BeginBlinking
  BY <1>8 DEF BeginBlinking, Works, Fails, Reads, Released, Blinking, At
<1>9. CASE Turn
  <2>1. error \in Errors /\ error # "none" /\ beat < 15 + 2 * BlinksOn[error]
    BY <1>9 DEF Turn, At, Blinking, Errors
  <2>2. NextBeat \in Nat /\ NextBeat < 15 + 2 * BlinksOn[error]
    BY <2>1, NextBeatInRange
  <2>3. error' = error /\ up' = up /\ beat' \in {beat, NextBeat}
    BY <1>9 DEF Turn
  <2>4. red' \in BOOLEAN /\ released' \in BOOLEAN
    BY <1>9 DEF Turn, NowReleased, Lit
  <2> QED
    BY <2>1, <2>2, <2>3, <2>4
<1>10. CASE Reboot
  BY <1>10 DEF Reboot, Reset, Idle
<1>11. CASE Interrupt
  BY <1>11 DEF Interrupt
<1>12. CASE WakeUp
  BY <1>12 DEF WakeUp, Reset, Idle
<1>13. CASE SupplyLost
  BY <1>13 DEF SupplyLost
<1>14. CASE SupplyBack
  BY <1>14 DEF SupplyBack
<1>15. CASE Press
  BY <1>15 DEF Press
<1>16. CASE Release
  BY <1>16 DEF Release, PinsTypeOK
<1>17. ASSUME NEW who \in {"main", "isr"}, DisconnectButton(who) PROVE LoopTypeOK'
  BY <1>17 DEF DisconnectButton, Works, Fails
<1>18. ASSUME NEW who \in {"main", "isr"}, DisconnectLed(who) PROVE LoopTypeOK'
  BY <1>18 DEF DisconnectLed, Works, Fails
<1>19. ASSUME NEW who \in {"main", "isr"}, ArmWakeUp(who) PROVE LoopTypeOK'
  BY <1>19 DEF ArmWakeUp, Works, Fails, WakeOn
<1>20. ASSUME NEW who \in {"main", "isr"}, PowerOff(who) PROVE LoopTypeOK'
  BY <1>20 DEF PowerOff
<1>21. ASSUME NEW e \in Errors, Error(e) PROVE LoopTypeOK'
  <2>1. beat = 0 /\ error' = e /\ BlinksOn[e] \in Nat
    BY <1>21, BlinksAssumption DEF Error, At, Blinking
  <2>2. beat' = 0 /\ error' = e /\ error' # "none" /\ 0 < 15 + 2 * BlinksOn[e]
    BY <1>21, <2>1 DEF Error, Errors
  <2>3. up' \in BOOLEAN /\ red' = red /\ released' = released
    BY <1>21 DEF Error
  <2> QED
    BY <2>2, <2>3
<1>22. CASE UNCHANGED vars
  BY <1>22 DEF vars
<1> QED
  BY <1>1, <1>2, <1>3, <1>4, <1>5, <1>6, <1>7, <1>8, <1>9, <1>10, <1>11, <1>12, <1>13, <1>14, <1>15, <1>16, <1>17, <1>18, <1>19, <1>20, <1>21, <1>22
  DEF Next, MainStep, HandlerStep, World, InitStep, ShutdownStep

LEMMA BlinkingStep == TypeOK /\ SetUp /\ Blinking /\ [Next]_vars => Blinking'
<1> SUFFICES ASSUME TypeOK, SetUp, Blinking, [Next]_vars PROVE Blinking'
  OBVIOUS
<1> USE InitOrder, ShutdownOrder, PlacesAre
    DEF SetUp, Blinking, Watching, TypeOK, ThreadsTypeOK, PinsTypeOK, At, Goto, Step, env, pin, loop, ports
<1>1. CASE ConfigurePin
  BY <1>1 DEF ConfigurePin, Works, Fails
<1>2. CASE ConfigureInterrupt
  BY <1>2 DEF ConfigureInterrupt, Works, Fails
<1>3. CASE AddCallback
  BY <1>3 DEF AddCallback, Works, Fails
<1>4. CASE Sample
  BY <1>4 DEF Sample, Works, Fails, SampledActive
<1>5. CASE InitLed
  BY <1>5 DEF InitLed, Works, Fails
<1>6. CASE InitButton
  BY <1>6 DEF InitButton, Works, Fails
<1>7. CASE PowerFlash
  BY <1>7 DEF PowerFlash, Works, Fails
<1>8. CASE BeginBlinking
  <2>1. at'.main = "blink" /\ at.main = "error" /\ at.isr = "idle"
    BY <1>8 DEF BeginBlinking
  <2>2. error \in Errors /\ error' = error /\ up' = up /\ button' = button
    BY <1>8, <2>1 DEF BeginBlinking
  <2>3. PICK b \in BOOLEAN : Reads(b) /\ released' = Released(b)
    BY <1>8 DEF BeginBlinking
  <2>4. failed' \/ (~failed /\ pinhole = "used" /\ b = button)
    BY <2>1, <2>3 DEF Reads, Works, Fails
  <2>5. ~failed' /\ released' => up'
    BY <2>2, <2>3, <2>4, Zenon DEF Released, Blinking, Errors
  <2> QED
    BY <2>1, <2>2, <2>5 DEF Errors
<1>9. CASE Turn
  <2>1. at'.main \in {"blink", "reboot"} /\ at.main = "blink" /\ at.isr = "idle"
    BY <1>9 DEF Turn
  <2>2. error \in Errors /\ error' = error /\ up' = up /\ button' = button
    BY <1>9, <2>1 DEF Turn
  <2>3. PICK b \in BOOLEAN : Reads(b) /\ released' \in {released, NowReleased(b)}
    BY <1>9 DEF Turn
  <2>4. failed' \/ (~failed /\ pinhole = "used" /\ b = button)
    BY <2>1, <2>3 DEF Reads, Works, Fails
  <2>5. ~failed /\ released => up
    BY <2>1
  <2>6. ~button => up
    BY <2>2 DEF Errors
  <2>7. ~failed' /\ released' => up'
    BY <2>2, <2>3, <2>4, <2>5, <2>6, Zenon DEF NowReleased
  <2> QED
    BY <2>1, <2>2, <2>6, <2>7 DEF Errors
<1>10. CASE Reboot
  BY <1>10 DEF Reboot, Reset, Idle
<1>11. CASE Interrupt
  BY <1>11 DEF Interrupt
<1>12. CASE WakeUp
  BY <1>12 DEF WakeUp, Reset, Idle
<1>13. CASE SupplyLost
  BY <1>13 DEF SupplyLost
<1>14. CASE SupplyBack
  BY <1>14 DEF SupplyBack
<1>15. CASE Press
  BY <1>15 DEF Press
<1>16. CASE Release
  <2>1. error # "none" => up'
    BY <1>16 DEF Release
  <2>2. error = "none" => at.main \notin {"error", "blink", "reboot"}
    BY DEF Errors
  <2> QED
    BY <1>16, <2>1, <2>2 DEF Release
<1>17. ASSUME NEW who \in {"main", "isr"}, DisconnectButton(who) PROVE Blinking'
  BY <1>17 DEF DisconnectButton, Works, Fails
<1>18. ASSUME NEW who \in {"main", "isr"}, DisconnectLed(who) PROVE Blinking'
  <2>1. UNCHANGED <<button, error, beat, released, up>> /\ (failed' \/ failed' = failed)
    BY <1>18 DEF DisconnectLed, Works, Fails
  <2>2. CASE who = "main"
    BY <1>18, <2>1, <2>2 DEF DisconnectLed
  <2>3. CASE who = "isr"
    BY <1>18, <2>1, <2>3 DEF DisconnectLed
  <2> QED
    BY <2>2, <2>3
<1>19. ASSUME NEW who \in {"main", "isr"}, ArmWakeUp(who) PROVE Blinking'
  BY <1>19 DEF ArmWakeUp, Works, Fails, WakeOn
<1>20. ASSUME NEW who \in {"main", "isr"}, PowerOff(who) PROVE Blinking'
  BY <1>20 DEF PowerOff
<1>21. ASSUME NEW e \in Errors, Error(e) PROVE Blinking'
  BY <1>21 DEF Error, LocksInterrupts, Errors
<1>22. CASE UNCHANGED vars
  BY <1>22 DEF vars
<1> QED
  BY <1>1, <1>2, <1>3, <1>4, <1>5, <1>6, <1>7, <1>8, <1>9, <1>10, <1>11, <1>12, <1>13, <1>14, <1>15, <1>16, <1>17, <1>18, <1>19, <1>20, <1>21, <1>22
  DEF Next, MainStep, HandlerStep, World, InitStep, ShutdownStep

LEMMA SetUpStep == TypeOK /\ SetUp /\ [Next]_vars => SetUp'
<1> SUFFICES ASSUME TypeOK, SetUp, [Next]_vars PROVE SetUp'
  OBVIOUS
<1> USE InitOrder, ShutdownOrder, PlacesAre
    DEF SetUp, Watching, TypeOK, ThreadsTypeOK, PinsTypeOK, At, Goto, Step, env, pin, loop, ports
<1>1. CASE ConfigurePin
  BY <1>1 DEF ConfigurePin, Works, Fails
<1>2. CASE ConfigureInterrupt
  BY <1>2 DEF ConfigureInterrupt, Works, Fails
<1>3. CASE AddCallback
  BY <1>3 DEF AddCallback, Works, Fails
<1>4. CASE Sample
  BY <1>4 DEF Sample, Works, Fails, SampledActive
<1>5. CASE InitLed
  BY <1>5 DEF InitLed, Works, Fails
<1>6. CASE InitButton
  BY <1>6 DEF InitButton, Works, Fails
<1>7. CASE PowerFlash
  BY <1>7 DEF PowerFlash, Works, Fails
<1>8. CASE BeginBlinking
  BY <1>8 DEF BeginBlinking, Works, Fails, Reads, Released
<1>9. CASE Turn
  BY <1>9 DEF Turn, Works, Fails, Reads, NowReleased
<1>10. CASE Reboot
  BY <1>10 DEF Reboot, Reset, Idle
<1>11. CASE Interrupt
  BY <1>11 DEF Interrupt
<1>12. CASE WakeUp
  BY <1>12 DEF WakeUp, Reset, Idle
<1>13. CASE SupplyLost
  BY <1>13 DEF SupplyLost
<1>14. CASE SupplyBack
  BY <1>14 DEF SupplyBack
<1>15. CASE Press
  BY <1>15 DEF Press
<1>16. CASE Release
  BY <1>16 DEF Release
<1>17. ASSUME NEW who \in {"main", "isr"}, DisconnectButton(who) PROVE SetUp'
  BY <1>17 DEF DisconnectButton, Works, Fails
<1>18. ASSUME NEW who \in {"main", "isr"}, DisconnectLed(who) PROVE SetUp'
  BY <1>18 DEF DisconnectLed, Works, Fails
<1>19. ASSUME NEW who \in {"main", "isr"}, ArmWakeUp(who) PROVE SetUp'
  BY <1>19 DEF ArmWakeUp, Works, Fails, WakeOn
<1>20. ASSUME NEW who \in {"main", "isr"}, PowerOff(who) PROVE SetUp'
  BY <1>20 DEF PowerOff
<1>21. ASSUME NEW e \in Errors, Error(e) PROVE SetUp'
  BY <1>21 DEF Error, LocksInterrupts, Errors
<1>22. CASE UNCHANGED vars
  BY <1>22 DEF vars
<1> QED
  BY <1>1, <1>2, <1>3, <1>4, <1>5, <1>6, <1>7, <1>8, <1>9, <1>10, <1>11, <1>12, <1>13, <1>14, <1>15, <1>16, <1>17, <1>18, <1>19, <1>20, <1>21, <1>22
  DEF Next, MainStep, HandlerStep, World, InitStep, ShutdownStep

LEMMA ShutDownStep == TypeOK /\ ShutDown /\ [Next]_vars => ShutDown'
<1> SUFFICES ASSUME TypeOK, ShutDown, [Next]_vars PROVE ShutDown'
  OBVIOUS
<1> USE InitOrder, ShutdownOrder, PlacesAre
    DEF ShutDown, TypeOK, ThreadsTypeOK, PinsTypeOK, At, Goto, Step, env, pin, loop, ports
<1>1. CASE ConfigurePin
  BY <1>1 DEF ConfigurePin, Works, Fails
<1>2. CASE ConfigureInterrupt
  BY <1>2 DEF ConfigureInterrupt, Works, Fails
<1>3. CASE AddCallback
  BY <1>3 DEF AddCallback, Works, Fails
<1>4. CASE Sample
  BY <1>4 DEF Sample, Works, Fails, SampledActive
<1>5. CASE InitLed
  BY <1>5 DEF InitLed, Works, Fails
<1>6. CASE InitButton
  BY <1>6 DEF InitButton, Works, Fails
<1>7. CASE PowerFlash
  BY <1>7 DEF PowerFlash, Works, Fails
<1>8. CASE BeginBlinking
  BY <1>8 DEF BeginBlinking, Works, Fails, Reads, Released
<1>9. CASE Turn
  BY <1>9 DEF Turn, Works, Fails, Reads, NowReleased
<1>10. CASE Reboot
  BY <1>10 DEF Reboot, Reset, Idle
<1>11. CASE Interrupt
  BY <1>11 DEF Interrupt
<1>12. CASE WakeUp
  BY <1>12 DEF WakeUp, Reset, Idle
<1>13. CASE SupplyLost
  BY <1>13 DEF SupplyLost
<1>14. CASE SupplyBack
  BY <1>14 DEF SupplyBack
<1>15. CASE Press
  BY <1>15 DEF Press
<1>16. CASE Release
  BY <1>16 DEF Release
<1>17. ASSUME NEW who \in {"main", "isr"}, DisconnectButton(who) PROVE ShutDown'
  BY <1>17 DEF DisconnectButton, Works, Fails
<1>18. ASSUME NEW who \in {"main", "isr"}, DisconnectLed(who) PROVE ShutDown'
  <2>1. UNCHANGED <<power, pinhole, sense>> /\ power = "on"
    BY <1>18 DEF DisconnectLed
  <2>2. failed' \/ (~failed /\ ~red' /\ led' = "off") \/ failed
    BY <1>18 DEF DisconnectLed, Works, Fails
  <2>3. failed => failed'
    BY <1>18 DEF DisconnectLed, Works, Fails
  <2>4. CASE who = "main"
    BY <1>18, <2>1, <2>2, <2>3, <2>4 DEF DisconnectLed
  <2>5. CASE who = "isr"
    BY <1>18, <2>1, <2>2, <2>3, <2>5 DEF DisconnectLed
  <2> QED
    BY <2>4, <2>5
<1>19. ASSUME NEW who \in {"main", "isr"}, ArmWakeUp(who) PROVE ShutDown'
  BY <1>19 DEF ArmWakeUp, Works, Fails, WakeOn
<1>20. ASSUME NEW who \in {"main", "isr"}, PowerOff(who) PROVE ShutDown'
  BY <1>20 DEF PowerOff
<1>21. ASSUME NEW e \in Errors, Error(e) PROVE ShutDown'
  BY <1>21 DEF Error, LocksInterrupts, Errors
<1>22. CASE UNCHANGED vars
  BY <1>22 DEF vars
<1> QED
  BY <1>1, <1>2, <1>3, <1>4, <1>5, <1>6, <1>7, <1>8, <1>9, <1>10, <1>11, <1>12, <1>13, <1>14, <1>15, <1>16, <1>17, <1>18, <1>19, <1>20, <1>21, <1>22
  DEF Next, MainStep, HandlerStep, World, InitStep, ShutdownStep

LEMMA LossStep == TypeOK /\ SetUp /\ LossIsKnown /\ [Next]_vars => LossIsKnown'
<1> SUFFICES ASSUME TypeOK, SetUp, LossIsKnown, [Next]_vars PROVE LossIsKnown'
  OBVIOUS
<1> USE InitOrder, ShutdownOrder, PlacesAre
    DEF SetUp, LossIsKnown, Watching, TypeOK, ThreadsTypeOK, PinsTypeOK, At, Goto, Step, env, pin, loop, ports
<1>1. CASE ConfigurePin
  BY <1>1 DEF ConfigurePin, Works, Fails
<1>2. CASE ConfigureInterrupt
  BY <1>2 DEF ConfigureInterrupt, Works, Fails
<1>3. CASE AddCallback
  BY <1>3 DEF AddCallback, Works, Fails
<1>4. CASE Sample
  BY <1>4 DEF Sample, Works, Fails, SampledActive
<1>5. CASE InitLed
  BY <1>5 DEF InitLed, Works, Fails
<1>6. CASE InitButton
  BY <1>6 DEF InitButton, Works, Fails
<1>7. CASE PowerFlash
  BY <1>7 DEF PowerFlash, Works, Fails
<1>8. CASE BeginBlinking
  BY <1>8 DEF BeginBlinking, Works, Fails, Reads, Released
<1>9. CASE Turn
  BY <1>9 DEF Turn, Works, Fails, Reads, NowReleased
<1>10. CASE Reboot
  BY <1>10 DEF Reboot, Reset, Idle
<1>11. CASE Interrupt
  BY <1>11 DEF Interrupt
<1>12. CASE WakeUp
  BY <1>12 DEF WakeUp, Reset, Idle
<1>13. CASE SupplyLost
  BY <1>13 DEF SupplyLost
<1>14. CASE SupplyBack
  BY <1>14 DEF SupplyBack
<1>15. CASE Press
  BY <1>15 DEF Press
<1>16. CASE Release
  BY <1>16 DEF Release
<1>17. ASSUME NEW who \in {"main", "isr"}, DisconnectButton(who) PROVE LossIsKnown'
  BY <1>17 DEF DisconnectButton, Works, Fails
<1>18. ASSUME NEW who \in {"main", "isr"}, DisconnectLed(who) PROVE LossIsKnown'
  BY <1>18 DEF DisconnectLed, Works, Fails
<1>19. ASSUME NEW who \in {"main", "isr"}, ArmWakeUp(who) PROVE LossIsKnown'
  BY <1>19 DEF ArmWakeUp, Works, Fails, WakeOn
<1>20. ASSUME NEW who \in {"main", "isr"}, PowerOff(who) PROVE LossIsKnown'
  BY <1>20 DEF PowerOff
<1>21. ASSUME NEW e \in Errors, Error(e) PROVE LossIsKnown'
  BY <1>21 DEF Error, LocksInterrupts, Errors
<1>22. CASE UNCHANGED vars
  BY <1>22 DEF vars
<1> QED
  BY <1>1, <1>2, <1>3, <1>4, <1>5, <1>6, <1>7, <1>8, <1>9, <1>10, <1>11, <1>12, <1>13, <1>14, <1>15, <1>16, <1>17, <1>18, <1>19, <1>20, <1>21, <1>22
  DEF Next, MainStep, HandlerStep, World, InitStep, ShutdownStep

-----------------------------------------------------------------------------

LEMMA Invariance == Spec => []IInv
<1>1. Init => IInv
  BY InitIInv
<1>2. IInv /\ [Next]_vars => IInv'
  BY ThreadsStep, PinsStep, LoopStep, BlinkingStep, SetUpStep, ShutDownStep, LossStep
  DEF IInv, TypeOK
<1> QED
  BY <1>1, <1>2, PTL DEF Spec

(***************************************************************************)
(* The device's variables keep their types; in particular the blink loop   *)
(* never counts beyond the period that the number of blinks gives it.      *)
(***************************************************************************)
THEOREM TypesCorrect == Spec => []TypeOK
<1>1. IInv => TypeOK
  BY DEF IInv
<1> QED
  BY <1>1, Invariance, PTL

(***************************************************************************)
(* mcuboot_supercap_init followed by the interrupt: once the pin has been  *)
(* looked at, a lost supply is never missed.                               *)
(***************************************************************************)
THEOREM LossIsNeverMissed == Spec => []LossIsKnown
<1>1. IInv => LossIsKnown
  BY DEF IInv
<1> QED
  BY <1>1, Invariance, PTL

(***************************************************************************)
(* mcuboot_on_supercap_active, by either thread and interrupted anywhere:  *)
(* power-off finds LED and button disconnected and the wake-up armed.      *)
(***************************************************************************)
THEOREM PowerOffIsOrderly == Spec => []OffIsOrderly
<1>1. IInv => OffIsOrderly
  BY DEF IInv, ShutDown, OffIsOrderly
<1> QED
  BY <1>1, Invariance, PTL

(***************************************************************************)
(* The blink loop: a button that has been down since before the error      *)
(* occurred never reboots.                                                 *)
(***************************************************************************)
THEOREM HeldPressNeverReboots == Spec => HeldPressStays
<1> DEFINE Stays == at'.main = "reboot" /\ at.main # "reboot" => failed' \/ (button /\ up)
<1>1. IInv /\ [Next]_vars => [Stays]_vars
  <2> SUFFICES ASSUME IInv, Next, at'.main = "reboot", at.main # "reboot"
               PROVE  failed' \/ (button /\ up)
    OBVIOUS
  <2> USE InitOrder, ShutdownOrder, PlacesAre DEF IInv, TypeOK, ThreadsTypeOK, Goto
  <2>1. Turn
    <3>1. ~InitStep
      BY DEF InitStep, ConfigurePin, ConfigureInterrupt, AddCallback, Sample, InitLed, InitButton,
             PowerFlash, Step
    <3>2. \A who \in {"main", "isr"} : ~ShutdownStep(who)
      BY DEF ShutdownStep, DisconnectButton, DisconnectLed, ArmWakeUp, PowerOff
    <3>3. ~Interrupt /\ ~WakeUp /\ ~Reboot /\ ~BeginBlinking
      BY DEF Interrupt, WakeUp, Reboot, Reset, Idle, BeginBlinking
    <3>4. ~World /\ \A e \in Errors : ~Error(e)
      BY DEF World, SupplyLost, SupplyBack, Press, Release, Error
    <3> QED
      BY <3>1, <3>2, <3>3, <3>4 DEF Next, MainStep, HandlerStep
  <2>2. at.main = "blink" /\ at.isr = "idle"
    BY <2>1 DEF Turn, At
  <2>3. PICK b \in BOOLEAN : Reads(b) /\ released /\ b
    BY <2>1, <2>2 DEF Turn
  <2>4. ~failed => pinhole = "used"
    BY <2>2 DEF SetUp
  <2>5. failed' \/ (~failed /\ button)
    <3>1. CASE Fails
      BY <3>1 DEF Fails
    <3>2. CASE Works /\ b \in (IF pinhole = "used" THEN {button} ELSE BOOLEAN)
      <4>1. pinhole = "used" => b = button
        BY <3>2
      <4>2. failed' = failed
        BY <3>2 DEF Works
      <4> QED
        BY <2>3, <2>4, <4>1, <4>2, Zenon DEF PinsTypeOK
    <3> QED
      BY <2>3, <3>1, <3>2 DEF Reads
  <2> QED
    BY <2>2, <2>3, <2>5 DEF Blinking
<1> QED
  BY <1>1, Invariance, PTL DEF Spec, HeldPressStays

=============================================================================
