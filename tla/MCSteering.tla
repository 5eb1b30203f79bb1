----------------------------- MODULE MCSteering -----------------------------
(* The instance of Steering for TLC: the two front wheels, and the         *)
(* orientations of the one-key commands w, q and a.                        *)
EXTENDS Steering, TLC

CONSTANTS fl, fr

MCOrientations == {"straight", "strafe", "rotate"}
MCAngles ==
  [straight |-> (fl :> 0 @@ fr :> 0),
   strafe   |-> (fl :> 1571 @@ fr :> 1571),
   rotate   |-> (fl :> -1040 @@ fr :> 1060)]
=============================================================================
