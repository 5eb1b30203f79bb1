---------------------------- MODULE RoverMotion ----------------------------
(***************************************************************************)
(* What the console promises about the rover's wheels, whatever it keeps   *)
(* and however its setpoints travel.  A wheel is steered only while the    *)
(* whole rover is halted, a wheel is driven only when every wheel has been *)
(* steered for that move, and a wheel can be halted at any time.  Each     *)
(* step reaches some of the wheels: a setpoint is lost, or comes late.     *)
(***************************************************************************)

CONSTANTS Wheels, Orientations, Ahead, STOP

VARIABLES vesc, stepper   \* setpoints each wheel has received

vars == <<vesc, stepper>>

Halted     == \A w \in Wheels : vesc[w] = STOP
Steered(o) == \A w \in Wheels : stepper[w] = o

Reached(setpoint, ws, v) == [w \in Wheels |-> IF w \in ws THEN v ELSE setpoint[w]]

Init == /\ vesc = [w \in Wheels |-> STOP]
        /\ stepper = [w \in Wheels |-> Ahead]

Steer(o, ws) == /\ Halted
                /\ stepper' = Reached(stepper, ws, o)
                /\ UNCHANGED vesc

Drive(o, ws) == /\ Steered(o)
                /\ vesc' = Reached(vesc, ws, o)
                /\ UNCHANGED stepper

Stop(ws) == /\ vesc' = Reached(vesc, ws, STOP)
            /\ UNCHANGED stepper

Next == \E ws \in SUBSET Wheels :
          \/ Stop(ws)
          \/ \E o \in Orientations : Steer(o, ws) \/ Drive(o, ws)

Spec == Init /\ [][Next]_vars

=============================================================================
