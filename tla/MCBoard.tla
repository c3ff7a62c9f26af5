------------------------------- MODULE MCBoard -------------------------------
(***************************************************************************)
(* The two errors with their numbers of blinks.                            *)
(***************************************************************************)
EXTENDS Board

(* NUM_RED_LED_BLINKS_ON_HALT_SYSTEM, NUM_RED_LED_BLINKS_ON_ASSERT         *)
NumBlinks == [halt |-> 3, assert |-> 4]

=============================================================================
