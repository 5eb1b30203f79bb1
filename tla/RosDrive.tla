------------------------------ MODULE RosDrive ------------------------------
(***************************************************************************)
(* The drive of the rover under ROS 2: the swerve controller, the Cyphal   *)
(* bus driver that is its hardware component, and the VESC of every wheel. *)
(* The controller manager runs the life cycles of the first two and turns  *)
(* their cycle of read, update and write; it is external, and so are the   *)
(* operator's twists and the CAN bus between the driver and the VESCs.     *)
(*                                                                         *)
(* A twist is <<x, y, z>>: two linear velocities and the angular one.      *)
(* Velocities are in the unit that makes the wheel radius 1. The magnitude *)
(* of a wheel's velocity is kept as its square, which orders and signs as  *)
(* the magnitude does, and an angle is kept as a vector in its direction.  *)
(***************************************************************************)
EXTENDS Integers, Sequences, FiniteSets

CONSTANTS
  Modules,        \* the swerve modules: a drive joint and a steering joint
  Translation,    \* where each module is, <<x, y>>
  Invert,         \* the modules whose drive joint has invert = true
  Twists,         \* what the operator may command
  STOP,           \* the twist of a box that nothing was put into
  Limit,          \* squared velocity limit of the drive joints
  Deadband,       \* squared deadband of the VESC
  FifoDepth,      \* messages that wait in the VESC's CAN peripheral
  MaxTwists,      \* bound: twists the operator sends
  MaxTransitions, \* bound: life-cycle transitions of either component
  MaxResets,      \* bound: VESCs that lose power
  NaN,            \* a command interface that nobody has set
  DISABLED        \* ControlMode::Disabled

ASSUME ModulesAssumption ==
  /\ IsFiniteSet(Modules) /\ Modules # {} /\ Invert \subseteq Modules
  /\ Translation \in [Modules -> Int \X Int]

ASSUME TwistAssumption == Twists \subseteq Int \X Int \X Int /\ STOP = <<0, 0, 0>>

ASSUME ScaleAssumption ==
  /\ Limit \in Nat /\ Deadband \in Nat \ {0} /\ FifoDepth \in Nat \ {0}
  /\ MaxTwists \in Nat /\ MaxTransitions \in Nat /\ MaxResets \in Nat

ASSUME ValueAssumption ==
  NaN \notin Int /\ DISABLED \notin Int /\ NaN \notin Int \X Int /\ NaN # DISABLED

VARIABLES
  received_velocity_msg_, \* the last twist
  ctrl,        \* the controller's life-cycle state
  subscribed,  \* on_configure has created the subscription
  hw,          \* the driver's life-cycle state, or "aborted"
  phase,       \* where the controller manager's cycle is
  velocity,    \* the command interfaces of the drive joints
  angle,       \* the command interfaces of the steering joints
  measured,    \* measured_velocity of every BescState
  queue,       \* published and not flushed, for each drive joint
  steer,       \* the last angle that each stepper was sent
  inbox,       \* setpoints that wait at each VESC
  vesc,        \* each VESC: pc, the message in hand, control mode, outputs
  v_q,         \* the voltage that the interrupt last gave to the phases
  twists, transitions, resets, \* how much of the bounds is used up
  asked        \* ghost: every twist that the controller was given

controller == <<received_velocity_msg_, ctrl, subscribed, velocity, angle, asked>>
driver == <<hw, measured, queue, steer>>
nodes == <<inbox, vesc, v_q>>
bounds == <<twists, transitions, resets>>
vars == <<controller, driver, nodes, bounds, phase>>

----------------------------------------------------------------------------
(* The kinematics of the controller.                                       *)

(* The row of kinematics_ for module m applied to a twist.                 *)
Request(t, m) ==
  [x |-> t[1] - t[3] * Translation[m][2], y |-> t[2] + t[3] * Translation[m][1]]

Flip(r) == IF r.x < 0 THEN -1 ELSE 1

Velocity(r) == Flip(r) * (r.x * r.x + r.y * r.y)

(* arg(0) is 0, straight ahead.                                            *)
Angle(r) == IF r.x = 0 /\ r.y = 0 THEN <<1, 0>> ELSE <<Flip(r) * r.x, Flip(r) * r.y>>

Abs(v) == IF v < 0 THEN -v ELSE v

(* enforce_command_limits of the controller manager.                       *)
Limited(v) ==
  IF v = NaN THEN NaN
  ELSE IF v > Limit THEN Limit ELSE IF v < -Limit THEN -Limit ELSE v

(* Mutant: the inversion of the joint is forgotten.                        *)
SetpointPlain(m, v) == v

(* What the driver publishes for a target velocity.                        *)
Setpoint(m, v) == IF v = NaN THEN NaN ELSE v * (IF m \in Invert THEN -1 ELSE 1)

(* The control mode that a setpoint puts a VESC in.                        *)
ControlMode(v) == IF Abs(v) < Deadband THEN DISABLED ELSE v

----------------------------------------------------------------------------
Init ==
  /\ received_velocity_msg_ = STOP /\ asked = {STOP}
  /\ ctrl = "unconfigured" /\ subscribed = FALSE
  /\ velocity = [m \in Modules |-> NaN]
  /\ angle = [m \in Modules |-> NaN]
  /\ hw = "unconfigured" /\ phase = "read"
  /\ measured = [m \in Modules |-> 0]
  /\ queue = [m \in Modules |-> <<0, 0, 0>>]   \* create ends with deactivate
  /\ steer = [m \in Modules |-> NaN]
  /\ inbox = [m \in Modules |-> << >>]
  /\ vesc = [m \in Modules |-> [pc |-> "loop", msg |-> 0, mode |-> DISABLED, moe |-> FALSE]]
  /\ v_q = [m \in Modules |-> 0]
  /\ twists = 0 /\ transitions = 0 /\ resets = 0

----------------------------------------------------------------------------
(* The controller.                                                         *)

(* The process that the controller and the driver live in.                 *)
Running == hw # "aborted"

(* The subscription's callback. It looks at no life-cycle state.           *)
Receive(t) ==
  /\ Running /\ subscribed /\ twists < MaxTwists
  /\ received_velocity_msg_' = t /\ asked' = asked \cup {t}
  /\ twists' = twists + 1
  /\ UNCHANGED <<ctrl, subscribed, velocity, angle, driver, nodes, transitions, resets, phase>>

Transition == Running /\ transitions < MaxTransitions /\ transitions' = transitions + 1

ControllerTo(from, to) ==
  /\ Transition /\ ctrl = from /\ ctrl' = to
  /\ UNCHANGED <<received_velocity_msg_, velocity, angle, asked, driver, nodes, twists,
                 resets, phase>>

on_configure == ControllerTo("unconfigured", "inactive") /\ subscribed' = TRUE

(* These callbacks do nothing: the box, the subscription and the command   *)
(* interfaces keep what they hold.                                         *)
on_activate == ControllerTo("inactive", "active") /\ UNCHANGED subscribed
on_deactivate == ControllerTo("active", "inactive") /\ UNCHANGED subscribed
on_cleanup == ControllerTo("inactive", "unconfigured") /\ UNCHANGED subscribed

(* set_value of the velocity, then of the angle unless the first failed.   *)
(* ok says, for each module, how many of them succeed.                     *)
SetValues(t, ok) ==
  /\ velocity' = [m \in Modules |-> IF ok[m] > 0 THEN Velocity(Request(t, m)) ELSE velocity[m]]
  /\ angle' = [m \in Modules |-> IF ok[m] > 1 THEN Angle(Request(t, m)) ELSE angle[m]]

(* update, of which got says whether try_get finds the box unlocked. The   *)
(* manager calls it only while the controller is active.                   *)
Update(got, ok) ==
  /\ Running /\ phase = "update" /\ phase' = "write"
  /\ IF ctrl = "active" /\ got
     THEN SetValues(received_velocity_msg_, ok)
     ELSE UNCHANGED <<velocity, angle>>
  /\ UNCHANGED <<received_velocity_msg_, ctrl, subscribed, asked, driver, nodes, bounds>>

AllSet == [m \in Modules |-> 2]

----------------------------------------------------------------------------
(* The bus driver.                                                         *)

Cycled == hw \in {"inactive", "active"}

(* Mutant: room for one message more than there is.                        *)
StoredMore(box, sent) ==
  LET all == box \o sent IN
  IF Len(all) <= FifoDepth + 1 THEN all
  ELSE Append(SubSeq(all, 1, FifoDepth - 1), all[Len(all)])

(* Mutant: an overrun keeps the messages that are stored and drops the new.*)
StoredFirst(box, sent) ==
  LET all == box \o sent IN
  IF Len(all) <= FifoDepth THEN all ELSE SubSeq(all, 1, FifoDepth)

(* The VESC's CAN peripheral; an overrun replaces the message stored last. *)
Stored(box, sent) ==
  LET all == box \o sent IN
  IF Len(all) <= FifoDepth THEN all
  ELSE Append(SubSeq(all, 1, FifoDepth - 1), all[Len(all)])

(* Both nodes flush what has been published.                               *)
Flushed(published) ==
  /\ inbox' = [m \in Modules |-> Stored(inbox[m], published[m])]
  /\ queue' = [m \in Modules |-> << >>]
  /\ hw' = hw

(* flush fails: unwrap panics across the language boundary, the process    *)
(* aborts, and only some wheels got their messages.                        *)
Aborted(published) ==
  /\ \E got \in SUBSET Modules :
       inbox' = [m \in Modules |->
                   IF m \in got THEN Stored(inbox[m], published[m]) ELSE inbox[m]]
  /\ queue' = [m \in Modules |-> << >>]
  /\ hw' = "aborted"

(* flush, which fails unless ok.                                           *)
Flush(ok, published) == IF ok THEN Flushed(published) ELSE Aborted(published)

(* read, and update in it. State interfaces only mirror measured.          *)
Read(ok) ==
  /\ Running /\ phase = "read" /\ phase' = "update"
  /\ IF Cycled THEN Flush(ok, queue) ELSE UNCHANGED <<inbox, queue, hw>>
  /\ UNCHANGED <<controller, measured, steer, vesc, v_q, bounds>>

(* Mutant: nothing is published for a velocity that has not changed.       *)
PublishedChanged ==
  [m \in Modules |-> IF Limited(velocity[m]) = measured[m] THEN queue[m]
                     ELSE Append(queue[m], Setpoint(m, Limited(velocity[m])))]

Published ==
  [m \in Modules |-> Append(queue[m], Setpoint(m, Limited(velocity[m])))]

(* write, in the inactive state too: the velocities are published and      *)
(* taken as the measured ones, the angles are published, and all flushed.  *)
Write(ok) ==
  /\ Running /\ phase = "write" /\ phase' = "read"
  /\ IF Cycled
     THEN /\ measured' = [m \in Modules |-> Limited(velocity[m])]
          /\ Flush(ok, Published)
          /\ steer' = IF hw' = "aborted" THEN steer ELSE angle
     ELSE UNCHANGED <<measured, inbox, queue, hw, steer>>
  /\ UNCHANGED <<controller, vesc, v_q, bounds>>

DriverTo(from, to) ==
  /\ Transition /\ hw \in from /\ hw' = to
  /\ UNCHANGED <<controller, steer, nodes, twists, resets, phase>>

(* activate does nothing; configure and cleanup are not overridden.        *)
Configure == DriverTo({"unconfigured"}, "inactive") /\ UNCHANGED <<measured, queue>>
Cleanup == DriverTo({"inactive"}, "unconfigured") /\ UNCHANGED <<measured, queue>>
Activate == DriverTo({"inactive"}, "active") /\ UNCHANGED <<measured, queue>>

(* Mutant: the velocity looks like zero, and no zero is published.         *)
DeactivateUnpublished ==
  /\ DriverTo({"active"}, "inactive")
  /\ measured' = [m \in Modules |-> 0]
  /\ UNCHANGED queue

(* deactivate publishes zero three times and does not flush.               *)
Deactivate ==
  /\ DriverTo({"active"}, "inactive")
  /\ queue' = [m \in Modules |-> queue[m] \o <<0, 0, 0>>]
  /\ measured' = [m \in Modules |-> 0]

(* on_shutdown destroys the driver with whatever is queued.                *)
Shutdown ==
  /\ DriverTo({"unconfigured", "inactive", "active"}, "finalized")
  /\ queue' = [m \in Modules |-> << >>] /\ UNCHANGED measured

----------------------------------------------------------------------------
(* The VESC: its main loop, and the commutation interrupt.                 *)

(* handle_message up to motor_disable.                                     *)
HandleMessage(m) ==
  /\ vesc[m].pc = "loop" /\ inbox[m] # << >>
  /\ vesc' = [vesc EXCEPT ![m].pc = "set", ![m].msg = Head(inbox[m]), ![m].moe = FALSE]
  /\ inbox' = [inbox EXCEPT ![m] = Tail(@)]
  /\ UNCHANGED <<controller, driver, v_q, bounds, phase>>

(* The critical section: the control mode is replaced, and the outputs are *)
(* enabled unless the setpoint is in the deadband.                         *)
SetMode(m) ==
  /\ vesc[m].pc = "set" /\ vesc[m].msg # NaN
  /\ vesc' = [vesc EXCEPT ![m].pc = "loop",
                         ![m].mode = ControlMode(vesc[m].msg),
                         ![m].moe = ControlMode(vesc[m].msg) # DISABLED]
  /\ UNCHANGED <<controller, driver, inbox, v_q, bounds, phase>>

(* A NaN is not in the deadband, and I16F16::from_num panics on it.        *)
Panic(m) ==
  /\ vesc[m].pc = "set" /\ vesc[m].msg = NaN
  /\ vesc' = [vesc EXCEPT ![m].pc = "panicked"]
  /\ UNCHANGED <<controller, driver, inbox, v_q, bounds, phase>>

(* TIM1_UP_TIM10. A panic in the critical section leaves it masked.        *)
Commutate(m) ==
  /\ vesc[m].pc # "panicked"
  /\ v_q' = [v_q EXCEPT ![m] = IF vesc[m].mode = DISABLED THEN 0 ELSE vesc[m].mode]
  /\ UNCHANGED <<controller, driver, inbox, vesc, bounds, phase>>

(* A VESC loses power and starts again.                                    *)
PowerCycle(m) ==
  /\ resets < MaxResets /\ resets' = resets + 1
  /\ vesc' = [vesc EXCEPT ![m] = [pc |-> "loop", msg |-> 0, mode |-> DISABLED, moe |-> FALSE]]
  /\ inbox' = [inbox EXCEPT ![m] = << >>]
  /\ v_q' = [v_q EXCEPT ![m] = 0]
  /\ UNCHANGED <<controller, driver, twists, transitions, phase>>

----------------------------------------------------------------------------
ControllerManager ==
  \/ \E t \in Twists : Receive(t)
  \/ on_configure \/ on_activate \/ on_deactivate \/ on_cleanup
  \/ \E got \in BOOLEAN, ok \in [Modules -> 0..2] : Update(got, ok)
  \/ \E ok \in BOOLEAN : Read(ok) \/ Write(ok)
  \/ Configure \/ Cleanup \/ Activate \/ Deactivate \/ Shutdown

Vesc(m) ==
  HandleMessage(m) \/ SetMode(m) \/ Panic(m) \/ Commutate(m) \/ PowerCycle(m)

Next == ControllerManager \/ \E m \in Modules : Vesc(m)

Spec == Init /\ [][Next]_vars

(* The manager's thread turns its cycle, and the locks of the box and of   *)
(* the command interfaces are not held against it for ever; a VESC's loop  *)
(* and its timer run. Nothing is assumed of the operator, of transitions   *)
(* or of failures.                                                         *)
FairSpec ==
  /\ Spec
  /\ WF_vars(Read(TRUE)) /\ WF_vars(Write(TRUE))
  /\ WF_vars(\E got \in BOOLEAN, ok \in [Modules -> 0..2] : Update(got, ok))
  /\ SF_vars(Update(TRUE, AllSet))
  /\ \A m \in Modules :
       WF_vars(HandleMessage(m)) /\ WF_vars(SetMode(m) \/ Panic(m)) /\ WF_vars(Commutate(m))

----------------------------------------------------------------------------
(* Properties.                                                             *)

Number == Int \cup {NaN}

Node == [pc : {"loop", "set", "panicked"}, msg : Number,
         mode : Int \cup {DISABLED}, moe : BOOLEAN]

(* Every variable holds what its declaration allows, and nothing waits in  *)
(* a VESC's peripheral beyond its depth.                                   *)
TypeOK ==
  /\ asked \subseteq Twists \cup {STOP} /\ received_velocity_msg_ \in asked
  /\ ctrl \in {"unconfigured", "inactive", "active"} /\ subscribed \in BOOLEAN
  /\ hw \in {"unconfigured", "inactive", "active", "finalized", "aborted"}
  /\ phase \in {"read", "update", "write"}
  /\ velocity \in [Modules -> Number] /\ measured \in [Modules -> Number]
  /\ queue \in [Modules -> Seq(Number)] /\ inbox \in [Modules -> Seq(Number)]
  /\ \A m \in Modules : Len(inbox[m]) <= FifoDepth
  /\ vesc \in [Modules -> Node]
  /\ v_q \in [Modules -> Int] /\ resets \in Nat

(* What twist t asks of the VESC of module m.                              *)
Wanted(t, m) ==
  LET v == Velocity(Request(t, m))
      w == IF Abs(v) <= Limit THEN v ELSE IF v > 0 THEN Limit ELSE -Limit IN
  IF m \in Invert THEN -w ELSE w

(* A motor is energised only with a voltage that some twist given to the   *)
(* controller asks of that very wheel, or with none: not by a command      *)
(* interface nobody set, a replaced mode that the interrupt has not seen,  *)
(* a restart, or a message of another life-cycle state.                    *)
NoPhantomDrive ==
  \A m \in Modules : vesc[m].moe =>
    /\ vesc[m].mode \in {Wanted(t, m) : t \in asked}
    /\ v_q[m] \in {0} \cup {Wanted(t, m) : t \in asked}

(* The velocity that the driver reports is invented, but it is what the    *)
(* wheel was told: once nothing is under way to a VESC that was not reset, *)
(* its control mode is the one that the reported velocity stands for.      *)
ReportedIsSent ==
  \A m \in Modules :
    Cycled /\ queue[m] = << >> /\ inbox[m] = << >> /\ vesc[m].pc = "loop" /\ resets = 0
      => vesc[m].mode = ControlMode(Setpoint(m, measured[m]))

(* What is on its way to a wheel: in the VESC's hands, waiting in its      *)
(* peripheral, and published but not flushed.                              *)
InHand(x) == IF x.pc = "loop" THEN << >> ELSE <<x.msg>>
OnItsWay == [m \in Modules |-> InHand(vesc[m]) \o inbox[m] \o queue[m]]

(* The driver, the CAN peripherals and the VESCs are one queue of setpoints*)
(* for each wheel, see SetpointQueue: the velocity that the driver reports *)
(* stands for the newest, none overtakes another, and whatever an overrun, *)
(* a flush that panics or a reset loses, a driver in use never loses the   *)
(* newest one on the way to a wheel that is not reset.                     *)
Wheel == INSTANCE SetpointQueue WITH
  Wheels <- Modules, Setpoints <- Number, Mode <- ControlMode, MaxBurst <- 3,
  waiting <- OnItsWay,
  latest <- [m \in Modules |-> Setpoint(m, measured[m])],
  inforce <- [m \in Modules |-> vesc[m].mode],
  gone <- hw \in {"aborted", "finalized"}
WheelSpec == Wheel!Spec

(* A twist that stays takes effect: the angle and the voltage that every   *)
(* wheel ends up with are the ones the twist asks for, also after lost     *)
(* updates and after a VESC was reset. A VESC that was sent NaN is stuck.  *)
CommandReaches ==
  \A t \in Twists \cup {STOP} :
    <>[](received_velocity_msg_ = t /\ ctrl = "active" /\ Cycled)
      => <>[](\A m \in Modules :
                /\ steer[m] = Angle(Request(t, m))
                /\ \/ vesc[m].pc = "panicked"
                   \/ vesc[m].mode = ControlMode(Wanted(t, m)))

(* Deactivating, which creating the driver includes, makes the velocity    *)
(* look like zero, and it stays that way while the driver is inactive.     *)
LooksStopped ==
  hw = "inactive" => \A m \in Modules : measured[m] \in {0, NaN}
=============================================================================
