--------------------------- MODULE MCStepperNode ---------------------------
(* The instance of StepperNode for TLC.                                    *)
EXTENDS StepperNode

(* Beyond the full duty, backwards, and not a number.                      *)
MCSetpoints == {-2, NaN}

(* Two wheels; a shovel board with one channel that is not used.           *)
MCNumChannels == [drivebase |-> 2, shovel |-> 3]
=============================================================================
