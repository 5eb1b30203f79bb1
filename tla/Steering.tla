------------------------------ MODULE Steering ------------------------------
(***************************************************************************)
(* The time a turn of the wheels takes.  deckard steers before it drives,  *)
(* and takes the wheels to be in position three seconds later; the         *)
(* drivebase firmware turns them with the ramp that it has programmed into *)
(* the TMC5160s.  This module puts the two side by side, in real units.    *)
(*                                                                         *)
(* Time is counted in ticks of 10 ms.  Angles are in milliradians, of the  *)
(* motor shaft where nothing else is said, velocities in milliradians per  *)
(* tick.  deckard's messages are taken to arrive; what happens when some   *)
(* do not is the subject of Deckard.                                       *)
(***************************************************************************)
EXTENDS Integers

CONSTANTS
  Wheels,        \* FL, FR, BL, BR, or some of them
  Orientations,  \* the names of the orientations that the operator asks for
  Angles,        \* the angle of each wheel (not its motor) in each of them
  Straight,      \* WheelOrientation::Aligned(0.0)
  MaxMoves       \* bound: moves

(* Straight is one of the orientations, and all of its angles are 0.       *)

GEAR_RATIO == 60
EPSILON == 1 * GEAR_RATIO        \* is_idle: 0.001 radians of the wheel
TIMEOUT == 300                   \* the three seconds, as_secs() >= 3
PUBLISH == 5                     \* three publications, 19 ms after each

(* The programmed ramp: rps() and rps2() are radians per second.           *)
rps(x) == x * 10
rps2(x) == x \div 10
VSTART == rps(3)
A1     == rps2(50)
V1     == rps(50)
AMAX   == rps2(30)
VMAX   == rps(50)
DMAX   == rps2(40)
D1     == rps2(60)
VSTOP  == rps(5)

VARIABLES
  repl,       \* "prompt", "steering" (blocked in recv) or "driving"
  wheels,     \* the orientation that deckard believes the wheels to be in
  target,     \* the one it is steering for, or has steered for
  elapsed,    \* ticks since the first setpoint of this turn was published
  motor,      \* XTARGET, XACTUAL and VACTUAL of each chip
  moves       \* how much of the bound is used up

vars == <<repl, wheels, target, elapsed, motor, moves>>

Abs(x) == IF x < 0 THEN -x ELSE x
Sign(x) == IF x > 0 THEN 1 ELSE IF x < 0 THEN -1 ELSE 0
Least(a, b) == IF a < b THEN a ELSE b
Most(a, b) == IF a > b THEN a ELSE b

(* The ramp generator of a chip in positioning mode.  v is the speed in    *)
(* the direction of the target, d the distance that is left.               *)
Faster(v) == Least(Most(v, VSTART) + (IF v < V1 THEN A1 ELSE AMAX), VMAX)
Slower(v) == Most(v - (IF v > V1 THEN DMAX ELSE D1), VSTOP)
MustBrake(v, d) == d <= v + ((v * v - VSTOP * VSTOP) \div (2 * D1))

Ramp(m) ==
  LET d == Abs(m.xtarget - m.xactual)
      s == Sign(m.xtarget - m.xactual)
      v == s * m.vactual
      next == IF MustBrake(v, d) THEN Slower(v) ELSE Faster(v) IN
  IF s = 0 THEN [m EXCEPT !.vactual = 0]
  ELSE IF v < 0                  \* on its way in the other direction
  THEN [m EXCEPT !.vactual = Sign(@) * Most(Abs(@) - D1, 0), !.xactual = @ + m.vactual]
  ELSE IF d <= next
  THEN [m EXCEPT !.xactual = m.xtarget, !.vactual = 0]
  ELSE [m EXCEPT !.xactual = @ + s * next, !.vactual = s * next]

(* set_position                                                            *)
set_position(m, angle) == [m EXCEPT !.xtarget = angle * GEAR_RATIO]

Init ==
  /\ repl = "prompt" /\ wheels = Straight /\ target = Straight
  /\ elapsed = 0 /\ moves = 0
  /\ motor = [w \in Wheels |-> [xtarget |-> 0, xactual |-> 0, vactual |-> 0]]

(* A move whose orientation is not the one the wheels are in: the rover    *)
(* stops, every wheel gets its setpoint, and the REPL waits.               *)
Steer(o) ==
  /\ repl \in {"prompt", "driving"} /\ moves < MaxMoves
  /\ o # wheels
  /\ repl' = "steering" /\ target' = o /\ elapsed' = 0 /\ moves' = moves + 1
  /\ motor' = [w \in Wheels |-> set_position(motor[w], Angles[o][w])]
  /\ UNCHANGED wheels

(* The timeout: recv returns, the wheels are taken to be in position, and  *)
(* the drive command follows.                                              *)
Timeout ==
  /\ repl = "steering" /\ elapsed >= PUBLISH + TIMEOUT
  /\ repl' = "driving" /\ wheels' = target /\ elapsed' = 0
  /\ UNCHANGED <<target, motor, moves>>

(* Ten milliseconds go by.                                                 *)
Tick ==
  /\ repl = "steering" /\ elapsed < PUBLISH + TIMEOUT
  /\ elapsed' = elapsed + 1
  /\ motor' = [w \in Wheels |-> Ramp(motor[w])]
  /\ UNCHANGED <<repl, wheels, target, moves>>

Next == Timeout \/ Tick \/ \E o \in Orientations : Steer(o)

Spec == Init /\ [][Next]_vars

-----------------------------------------------------------------------------
(* When deckard says "Wheels are now in position. Driving!" they are: each *)
(* within the tolerance of is_idle of the angle it was steered to.         *)
InPosition ==
  repl = "driving" =>
    \A w \in Wheels : Abs(motor[w].xactual - Angles[wheels][w] * GEAR_RATIO) < EPSILON
=============================================================================
