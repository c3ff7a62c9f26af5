SPECIFICATION Spec
CONSTANT BlinksOn <- NumBlinks
INVARIANTS TypeOK LossIsKnown OffIsOrderly
PROPERTIES LossEndsInPowerOff SupplyEndsPowerOff HeldPressStays CanReboot
