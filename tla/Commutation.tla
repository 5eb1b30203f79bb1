---------------------------- MODULE Commutation ----------------------------
(***************************************************************************)
(* The commutation interrupt of the VESC firmware: from the hall sensors   *)
(* and the control mode to the duty cycles of the three phases, in the     *)
(* fixed-point arithmetic of the code, while the rotor turns under it.     *)
(*                                                                         *)
(* Fixed-point numbers (I16F16) are integers here, in units of 2^-16.      *)
(* Sectors of the rotor are numbered by their angle in units of 60         *)
(* degrees, electrical.                                                    *)
(***************************************************************************)
EXTENDS Integers, Sequences

CONSTANTS
  Voltages    \* the setpoints on the bus, as fixed-point numbers

ONE == 65536

(* I16F16::from_num keeps what fits into 32 bits; setpoints are duty       *)
(* cycles from -1 to 1.                                                    *)
ASSUME VoltageAssumption == Voltages \subseteq -ONE .. ONE

PWM_SENSE_LIMIT == 6000 - 100
DEADBAND == 1311         \* the least fixed-point number that is not below 0.02

PI        == 205887
FRAC_PI_2 == 102943
FRAC_PI_3 == 68629
TAU       == 411774

VARIABLES
  sector,     \* where the rotor really is
  connected,  \* the hall sensors are plugged in
  settled,    \* an interrupt has begun and ended since the rotor entered its sector
  main,       \* the main thread: "loop", or "set" after motor_disable
  msg,        \* the setpoint that it has in hand
  control,    \* G_CONTROL: the voltage, 0 for Disabled
  moe,        \* the outputs of TIM1 are enabled
  isr,        \* the interrupt: "idle", "halls" or "duty"
  halls,      \* the pins it has read so far
  quiet,      \* ghost: the rotor has not left its sector since the interrupt began
  v_q,        \* the voltage that this interrupt has read, or the last one used
  duty        \* the compare registers of TIM1

vars == <<sector, connected, settled, main, msg, control, moe, isr, halls, quiet, v_q, duty>>

-----------------------------------------------------------------------------
(* Fixed-point arithmetic.  A product is rounded down; it is taken in two  *)
(* halves, so that no number is longer than 32 bits.  A quotient by an     *)
(* integer is rounded towards zero.                                        *)

Abs(x) == IF x < 0 THEN -x ELSE x
Mul(a, b) == (a * (b \div 256) + (a * (b % 256)) \div 256) \div 256
Quo(a, n) == IF a < 0 THEN -((-a) \div n) ELSE a \div n

Pow3(x) == Mul(Mul(x, x), x)
Pow5(x) == Mul(Mul(Pow3(x), x), x)

(* The angle between -pi/2 and pi/2 with the same sine.                    *)
Folded(angle) ==
  IF angle > FRAC_PI_2 THEN PI - angle
  ELSE IF angle < -FRAC_PI_2 THEN -PI - angle
  ELSE angle

(* Mutant: the term of fifth order is missing.                             *)
sinCubic(angle) ==
  LET x == Folded(angle) IN x - Quo(Pow3(x), 6)

sin(angle) ==
  LET x == Folded(angle) IN x - Quo(Pow3(x), 6) + Quo(Pow5(x), 127)

cos(angle) ==
  LET x == angle + FRAC_PI_2 IN sin(IF x > PI THEN x - TAU ELSE x)

(* K_HALL_TABLE, for the pins as the bits of an index, the first one high. *)
K_HALL_TABLE == <<0, 3, 5, 4, 1, 2, 0, 0>>

(* Mutant: the pins are taken in the opposite order.                       *)
HallAngleReversed(pins) ==
  LET idx == pins[1] + 2 * pins[2] + 4 * pins[3]
      angle == FRAC_PI_3 * K_HALL_TABLE[idx + 1] IN
  IF angle > PI THEN angle - TAU ELSE angle

(* The angle that the pins stand for, between -pi and pi.                  *)
HallAngle(pins) ==
  LET idx == 4 * pins[1] + 2 * pins[2] + pins[3]
      angle == FRAC_PI_3 * K_HALL_TABLE[idx + 1] IN
  IF angle > PI THEN angle - TAU ELSE angle

(* foc::park_clarke::inverse_park, with d = 0.                             *)
inverse_park(c, s, q) == [alpha |-> -Mul(s, q), beta |-> Mul(c, q)]

(* foc::pwm::SpaceVector: the inverse Clarke transform, stretched by       *)
(* 2 / sqrt(3), with the middle of the largest and the smallest phase      *)
(* moved to 0.                                                             *)
SQRT_3 == 113511
SpaceVector(v) ==
  LET r == Mul(SQRT_3, v.alpha)
      x == v.beta
      y == Quo(v.beta + r, 2)
      z == Quo(v.beta - r, 2) IN
  IF (y > 0) = (z > 0) THEN <<y - z, y + z, -y - z>>
  ELSE IF (x > 0) = (y > 0) THEN <<x - z, x + z, z - x>>
  ELSE <<y - x, x - y, -y - x>>

(* Mutant: the whole period of the timer is used.                          *)
CompareFull(x) == Quo(Abs(x + ONE) * 6000, 2) \div ONE

(* set_duty, for one phase.                                                *)
Compare(x) == Quo(Abs(x + ONE) * PWM_SENSE_LIMIT, 2) \div ONE

(* The compare registers for an angle and a voltage.                       *)
Duties(angle, q) ==
  LET v_abc == SpaceVector(inverse_park(cos(angle), sin(angle), q)) IN
  [p \in 1 .. 3 |-> Compare(v_abc[p])]

-----------------------------------------------------------------------------
(* The motor                                                               *)

(* The pins when the rotor is in a sector: one of them changes from each   *)
(* sector to the next.  Without the sensors the pull-ups win.              *)
Pins == << <<1, 1, 0>>, <<1, 0, 0>>, <<1, 0, 1>>, <<0, 0, 1>>, <<0, 1, 1>>, <<0, 1, 0>> >>
Pin(k) == IF connected THEN Pins[sector + 1][k] ELSE 1

(* The rotor enters the next sector, either way.  A sector lasts for many  *)
(* interrupts (14000 in a second); one whole interrupt is all that is      *)
(* assumed here.                                                           *)
Rotate ==
  /\ settled
  /\ sector' \in {(sector + 1) % 6, (sector - 1) % 6}
  /\ settled' = FALSE /\ quiet' = FALSE
  /\ UNCHANGED <<connected, main, msg, control, moe, isr, halls, v_q, duty>>

Unplug ==
  /\ connected /\ connected' = FALSE
  /\ UNCHANGED <<sector, settled, main, msg, control, moe, isr, halls, quiet, v_q, duty>>

-----------------------------------------------------------------------------
(* The main thread, which does not run while the interrupt does.           *)

(* handle_message, up to motor_disable.                                    *)
HandleMessage ==
  /\ isr = "idle" /\ main = "loop"
  /\ msg' \in Voltages
  /\ main' = "set" /\ moe' = FALSE
  /\ UNCHANGED <<sector, connected, settled, control, isr, halls, quiet, v_q, duty>>

(* Its critical section.                                                   *)
SetMode ==
  /\ isr = "idle" /\ main = "set"
  /\ main' = "loop" /\ msg' = 0
  /\ control' = IF Abs(msg) < DEADBAND THEN 0 ELSE msg
  /\ moe' = (Abs(msg) >= DEADBAND)
  /\ UNCHANGED <<sector, connected, settled, isr, halls, quiet, v_q, duty>>

-----------------------------------------------------------------------------
(* TIM1_UP_TIM10                                                           *)

(* The control mode is read, into a local variable.                        *)
Enter ==
  /\ isr = "idle"
  /\ isr' = "halls" /\ halls' = << >> /\ quiet' = TRUE
  /\ UNCHANGED <<sector, connected, settled, main, msg, control, moe, v_q, duty>>

(* The pins are read one after the other, and the rotor goes on turning.   *)
ReadHall ==
  /\ isr = "halls"
  /\ halls' = Append(halls, Pin(Len(halls) + 1))
  /\ isr' = IF Len(halls) + 1 = 3 THEN "duty" ELSE "halls"
  /\ UNCHANGED <<sector, connected, settled, main, msg, control, moe, quiet, v_q, duty>>

(* The rest of the interrupt.  As the main thread has to wait, the mode is *)
(* still the one that was read.                                            *)
SetDuty ==
  /\ isr = "duty"
  /\ v_q' = control
  /\ duty' = Duties(HallAngle(halls), control)
  /\ isr' = "idle" /\ halls' = << >> /\ quiet' = FALSE
  /\ settled' = (settled \/ quiet)
  /\ UNCHANGED <<sector, connected, main, msg, control, moe>>

Init ==
  /\ sector \in 0 .. 5 /\ connected \in BOOLEAN /\ settled = TRUE
  /\ main = "loop" /\ msg = 0 /\ control = 0 /\ moe = FALSE
  /\ isr = "idle" /\ halls = << >> /\ quiet = FALSE
  /\ v_q = 0 /\ duty = [p \in 1 .. 3 |-> 0]

Next == Rotate \/ Unplug \/ HandleMessage \/ SetMode \/ Enter \/ ReadHall \/ SetDuty

Spec == Init /\ [][Next]_vars

-----------------------------------------------------------------------------
(* Properties                                                              *)

(* The torque of the phases on a rotor in sector s: the phases weighted by *)
(* the sines of their angles ahead of it, which at multiples of 60 degrees *)
(* are 0 and plus or minus the same number.                                *)
Sine60 == <<0, 1, 1, 0, -1, -1>>
Ahead(s, p) == -Sine60[((s - 2 * (p - 1)) % 6) + 1]
Torque(s) == Ahead(s, 1) * duty[1] + Ahead(s, 2) * duty[2] + Ahead(s, 3) * duty[3]

Sign(x) == IF x > 0 THEN 1 ELSE IF x < 0 THEN -1 ELSE 0

(* six_pwm.rs: no phase is ever on for so long that its current could not  *)
(* be measured, although the polynomial for the sine exceeds 1 and whatever*)
(* the hall sensors say.                                                   *)
SenseLimit == \A p \in 1 .. 3 : duty[p] <= PWM_SENSE_LIMIT

(* The motor is driven in the direction that was asked for, in every       *)
(* sector, also when the rotor goes on to the next one between two of the  *)
(* pins, or before the duty cycles take effect.                            *)
TorqueAsAsked ==
  connected => Sign(Torque(sector)) = Sign(v_q)

(* The same torque for the same voltage wherever the rotor stands, and     *)
(* proportional to it: three counts are allowed for the rounding and the   *)
(* polynomial.                                                             *)
Even ==
  settled /\ isr = "idle" /\ connected =>
    Abs(Torque(sector) - (v_q * PWM_SENSE_LIMIT) \div ONE) <= 3
=============================================================================
