--------------------------- MODULE RosDriveProofs ---------------------------
(***************************************************************************)
(* Proofs about RosDrive, for any wheels, twists, limits and bounds.       *)
(***************************************************************************)
EXTENDS RosDrive, SequenceTheorems, TLAPS

(* What some twist asks of a wheel: of its command interface, of its VESC. *)
Targets(m) == {Velocity(Request(t, m)) : t \in asked}
WantedSet(m) == {Wanted(t, m) : t \in asked}

(* What may be under way to a VESC.                                        *)
Legit(m) == {NaN, 0} \cup WantedSet(m)

(* Every value on its way from the controller to the phases of a motor is  *)
(* unset, zero, or asked of that wheel by some twist, and the outputs are  *)
(* enabled only in a mode that is not Disabled.                            *)
Pipeline ==
  \A m \in Modules :
    /\ velocity[m] \in {NaN} \cup Targets(m)
    /\ queue[m] \in Seq(Legit(m))
    /\ inbox[m] \in Seq(Legit(m))
    /\ vesc[m].msg \in Legit(m)
    /\ vesc[m].mode \in {DISABLED} \cup WantedSet(m)
    /\ vesc[m].moe => vesc[m].mode # DISABLED
    /\ v_q[m] \in {0} \cup WantedSet(m)

IInv == TypeOK /\ Pipeline

----------------------------------------------------------------------------
(* The kinematics compute integers.                                        *)
LEMMA VelocityType ==
  ASSUME NEW t \in Int \X Int \X Int, NEW m \in Modules
  PROVE  Velocity(Request(t, m)) \in Int
  <1>1. Translation[m][1] \in Int /\ Translation[m][2] \in Int
    BY ModulesAssumption
  <1>2. t[1] \in Int /\ t[2] \in Int /\ t[3] \in Int
    OBVIOUS
  <1>3. \A a, b \in Int : a * b \in Int
    OBVIOUS
  <1>4. Request(t, m).x \in Int /\ Request(t, m).y \in Int
    BY <1>1, <1>2, <1>3 DEF Request
  <1> QED BY <1>3, <1>4 DEF Velocity, Flip

(* What is published for a velocity is what the twist behind it wants.     *)
LEMMA SetpointWanted ==
  ASSUME NEW t, NEW m \in Modules, Velocity(Request(t, m)) \in Int
  PROVE  /\ Setpoint(m, Limited(Velocity(Request(t, m)))) = Wanted(t, m)
         /\ Wanted(t, m) \in Int
  <1> DEFINE v == Velocity(Request(t, m))
  <1>1. v \in Int /\ v # NaN /\ Limit \in Nat
    BY ScaleAssumption, ValueAssumption
  <1> HIDE DEF v
  <1>2. Limited(v) = (IF Abs(v) <= Limit THEN v ELSE IF v > 0 THEN Limit ELSE -Limit)
    BY <1>1 DEF Limited, Abs
  <1>3. Limited(v) \in Int /\ Limited(v) # NaN
    BY <1>1, <1>2, ValueAssumption
  <1>4. Setpoint(m, Limited(v)) = Wanted(t, m)
    BY <1>2, <1>3 DEF Setpoint, Wanted, v
  <1>5. Setpoint(m, Limited(v)) \in Int
    BY <1>3 DEF Setpoint
  <1> QED BY <1>4, <1>5 DEF v

(* The twists that were received are triples of integers.                  *)
LEMMA AskedType ==
  ASSUME TypeOK, NEW t \in asked
  PROVE  t \in Int \X Int \X Int
  BY TwistAssumption DEF TypeOK

(* A sequence over a set is one over any larger set.                       *)
LEMMA SeqMono ==
  ASSUME NEW A, NEW B, A \subseteq B, NEW s \in Seq(A)
  PROVE  s \in Seq(B)
  <1>1. s \in [1..Len(s) -> A] /\ Len(s) \in Nat
    OBVIOUS
  <1>2. s \in [1..Len(s) -> B]
    BY <1>1
  <1> QED BY <1>1, <1>2

(* The VESC's peripheral stores messages that it was sent, and no more     *)
(* than it has room for.                                                   *)
LEMMA StoredType ==
  ASSUME NEW S, NEW box \in Seq(S), NEW sent \in Seq(S)
  PROVE  Stored(box, sent) \in Seq(S) /\ Len(Stored(box, sent)) <= FifoDepth
  <1> DEFINE all == box \o sent
  <1>1. all \in Seq(S) /\ Len(all) \in Nat /\ FifoDepth \in Nat \ {0}
    BY ScaleAssumption
  <1> HIDE DEF all
  <1>2. CASE Len(all) <= FifoDepth
    BY <1>1, <1>2 DEF Stored, all
  <1>3. CASE ~(Len(all) <= FifoDepth)
    <2> DEFINE front == SubSeq(all, 1, FifoDepth - 1)
    <2>1. front \in Seq(S) /\ Len(front) = FifoDepth - 1
      BY <1>1, <1>3
    <2>2. all[Len(all)] \in S
      BY <1>1, <1>3
    <2>3. Stored(box, sent) = Append(front, all[Len(all)])
      BY <1>3 DEF Stored, all
    <2> HIDE DEF front
    <2> QED BY <1>1, <2>1, <2>2, <2>3
  <1> QED BY <1>2, <1>3

(* What a command interface holds is published as something legitimate.    *)
LEMMA PublishedLegit ==
  ASSUME IInv, NEW m \in Modules
  PROVE  /\ Setpoint(m, Limited(velocity[m])) \in Legit(m)
         /\ Limited(velocity[m]) \in Number
  <1>1. CASE velocity[m] = NaN
    BY <1>1 DEF Limited, Setpoint, Legit, Number
  <1>2. CASE velocity[m] # NaN
    <2>1. PICK t \in asked : velocity[m] = Velocity(Request(t, m))
      BY <1>2 DEF IInv, Pipeline, Targets
    <2>2. Velocity(Request(t, m)) \in Int
      BY AskedType, VelocityType DEF IInv
    <2>3. Setpoint(m, Limited(velocity[m])) = Wanted(t, m)
      BY <2>1, <2>2, SetpointWanted
    <2>4. Limited(velocity[m]) \in Number
      BY <2>1, <2>2, ScaleAssumption, ValueAssumption DEF Limited, Number
    <2> QED BY <2>3, <2>4 DEF Legit, WantedSet
  <1> QED BY <1>1, <1>2

(* Whatever is legitimate is a number.                                     *)
LEMMA LegitType ==
  ASSUME TypeOK, NEW m \in Modules
  PROVE  WantedSet(m) \subseteq Int /\ Legit(m) \subseteq Number
  <1>1. \A t \in asked : Wanted(t, m) \in Int
    BY AskedType, VelocityType, SetpointWanted
  <1> QED BY <1>1 DEF WantedSet, Legit, Number

----------------------------------------------------------------------------
(* create leaves nothing in the pipeline but its zeros.                    *)
LEMMA InitIInv == Init => IInv
  <1> SUFFICES ASSUME Init PROVE IInv
    OBVIOUS
  <1>1. TypeOK
    <2>1. <<0, 0, 0>> \in Seq(Number) /\ << >> \in Seq(Number) /\ Len(<< >>) = 0
      BY DEF Number
    <2>2. \A m \in Modules : Len(inbox[m]) <= FifoDepth
      BY <2>1, ScaleAssumption DEF Init
    <2>3. queue \in [Modules -> Seq(Number)] /\ inbox \in [Modules -> Seq(Number)]
      BY <2>1 DEF Init
    <2>4. [pc |-> "loop", msg |-> 0, mode |-> DISABLED, moe |-> FALSE] \in Node
      BY DEF Node, Number
    <2>5. vesc \in [Modules -> Node]
      BY <2>4 DEF Init
    <2>6. /\ velocity \in [Modules -> Number] /\ measured \in [Modules -> Number]
          /\ v_q \in [Modules -> Int]
      BY DEF Init, Number
    <2> QED BY <2>2, <2>3, <2>5, <2>6 DEF Init, TypeOK
  <1>2. Pipeline
    <2> SUFFICES ASSUME NEW m \in Modules
                 PROVE  <<0, 0, 0>> \in Seq(Legit(m)) /\ << >> \in Seq(Legit(m)) /\ 0 \in Legit(m)
      BY DEF Init, Pipeline
    <2> QED BY DEF Legit
  <1> QED BY <1>1, <1>2 DEF IInv

(* A twist that is received makes more values legitimate, none fewer.      *)
LEMMA ReceiveStep ==
  ASSUME IInv, NEW t \in Twists, Receive(t)
  PROVE  IInv'
  <1>1. TypeOK'
    BY DEF IInv, TypeOK, Receive, driver, nodes
  <1>2. Pipeline'
    <2> SUFFICES ASSUME NEW m \in Modules
                 PROVE  (/\ velocity[m] \in {NaN} \cup Targets(m)
                         /\ queue[m] \in Seq(Legit(m)) /\ inbox[m] \in Seq(Legit(m))
                         /\ vesc[m].msg \in Legit(m)
                         /\ vesc[m].mode \in {DISABLED} \cup WantedSet(m)
                         /\ vesc[m].moe => vesc[m].mode # DISABLED
                         /\ v_q[m] \in {0} \cup WantedSet(m))'
      BY DEF Pipeline
    <2>1. Targets(m) \subseteq Targets(m)' /\ WantedSet(m) \subseteq WantedSet(m)'
      BY DEF Targets, WantedSet, Receive
    <2>2. Legit(m) \subseteq Legit(m)'
      BY <2>1 DEF Legit
    <2>3. /\ velocity' = velocity /\ queue' = queue /\ inbox' = inbox
          /\ vesc' = vesc /\ v_q' = v_q
      BY DEF Receive, driver, nodes
    <2>4. queue[m] \in Seq(Legit(m)') /\ inbox[m] \in Seq(Legit(m)')
      BY <2>2, SeqMono DEF IInv, Pipeline
    <2> QED BY <2>1, <2>2, <2>3, <2>4 DEF IInv, Pipeline
  <1> QED BY <1>1, <1>2 DEF IInv

(* The part of the state that Pipeline is about.                           *)
pipe == <<velocity, asked, queue, inbox, vesc, v_q>>

LEMMA SamePipe ==
  ASSUME Pipeline, UNCHANGED pipe
  PROVE  Pipeline'
  BY DEF Pipeline, pipe, Targets, WantedSet, Legit

(* update sets command interfaces to what the last twist asks for.         *)
LEMMA UpdateStep ==
  ASSUME IInv, NEW got, NEW ok, Update(got, ok)
  PROVE  IInv'
  <1>1. \A m \in Modules :
          \/ velocity'[m] = velocity[m]
          \/ velocity'[m] = Velocity(Request(received_velocity_msg_, m))
    BY DEF Update, SetValues
  <1>2. \A m \in Modules : Velocity(Request(received_velocity_msg_, m)) \in Int
    BY AskedType, VelocityType DEF IInv, TypeOK
  <1>3. velocity' \in [Modules -> Number]
    <2>1. CASE velocity' = velocity
      BY <2>1 DEF IInv, TypeOK
    <2>2. CASE velocity' # velocity
      BY <1>2, <2>2 DEF IInv, TypeOK, Update, SetValues, Number
    <2> QED BY <2>1, <2>2
  <1>4. TypeOK'
    BY <1>3 DEF IInv, TypeOK, Update, driver, nodes, bounds
  <1>5. /\ asked' = asked /\ queue' = queue /\ inbox' = inbox /\ vesc' = vesc
        /\ v_q' = v_q
    BY DEF Update, driver, nodes
  <1>6. \A m \in Modules : velocity'[m] \in {NaN} \cup Targets(m)
    BY <1>1 DEF IInv, TypeOK, Pipeline, Targets
  <1>7. \A m \in Modules : Targets(m)' = Targets(m) /\ WantedSet(m)' = WantedSet(m)
                            /\ Legit(m)' = Legit(m)
    BY <1>5 DEF Targets, WantedSet, Legit
  <1>8. Pipeline'
    BY <1>5, <1>6, <1>7 DEF IInv, Pipeline
  <1> QED BY <1>4, <1>8 DEF IInv

(* A step that touches only the two queues of the pipeline.                *)
LEMMA QueueStep ==
  ASSUME Pipeline, UNCHANGED <<velocity, asked, vesc, v_q>>,
         \A m \in Modules : queue'[m] \in Seq(Legit(m)) /\ inbox'[m] \in Seq(Legit(m))
  PROVE  Pipeline'
  <1>1. \A m \in Modules : Targets(m)' = Targets(m) /\ WantedSet(m)' = WantedSet(m)
                            /\ Legit(m)' = Legit(m)
    BY DEF Targets, WantedSet, Legit
  <1> QED BY <1>1 DEF Pipeline

(* A flush, complete or not, moves legitimate setpoints to the VESCs.      *)
LEMMA FlushStep ==
  ASSUME IInv, NEW published, \A m \in Modules : published[m] \in Seq(Legit(m)),
         Flushed(published) \/ Aborted(published)
  PROVE  /\ inbox' \in [Modules -> Seq(Number)] /\ queue' \in [Modules -> Seq(Number)]
         /\ \A m \in Modules : /\ queue'[m] \in Seq(Legit(m))
                               /\ inbox'[m] \in Seq(Legit(m))
                               /\ Len(inbox'[m]) <= FifoDepth
         /\ hw' \in {hw, "aborted"}
  <1>1. PICK got \in SUBSET Modules :
          /\ inbox' = [m \in Modules |->
                 IF m \in got THEN Stored(inbox[m], published[m]) ELSE inbox[m]]
          /\ queue' = [m \in Modules |-> << >>]
          /\ hw' \in {hw, "aborted"}
    <2>1. CASE Aborted(published)
      BY <2>1 DEF Aborted
    <2>2. CASE Flushed(published)
      <3>1. inbox' = [m \in Modules |->
                 IF m \in Modules THEN Stored(inbox[m], published[m]) ELSE inbox[m]]
        BY <2>2 DEF Flushed
      <3> QED BY <2>2, <3>1 DEF Flushed
    <2> QED BY <2>1, <2>2
  <1>2. ASSUME NEW m \in Modules
        PROVE  inbox'[m] \in Seq(Legit(m)) /\ Len(inbox'[m]) <= FifoDepth
    <2>1. inbox[m] \in Seq(Legit(m)) /\ Len(inbox[m]) <= FifoDepth
      BY DEF IInv, Pipeline, TypeOK
    <2>2. /\ Stored(inbox[m], published[m]) \in Seq(Legit(m))
          /\ Len(Stored(inbox[m], published[m])) <= FifoDepth
      BY <2>1, StoredType
    <2> QED BY <1>1, <2>1, <2>2
  <1>3. \A m \in Modules : inbox'[m] \in Seq(Number)
    BY <1>2, LegitType, SeqMono DEF IInv
  <1>4. inbox' \in [Modules -> Seq(Number)]
    BY <1>1, <1>3
  <1>5. \A m \in Modules : << >> \in Seq(Legit(m)) /\ << >> \in Seq(Number)
    OBVIOUS
  <1> QED BY <1>1, <1>2, <1>4, <1>5

LEMMA ReadStep ==
  ASSUME IInv, NEW ok \in BOOLEAN, Read(ok)
  PROVE  IInv'
  <1>1. /\ Cycled => Flushed(queue) \/ Aborted(queue)
        /\ ~Cycled => UNCHANGED <<inbox, queue, hw>>
        /\ phase' = "update" /\ UNCHANGED <<controller, measured, steer, vesc, v_q, resets>>
    BY DEF Read, Flush, bounds
  <1>2. CASE Cycled
    <2>1. \A m \in Modules : queue[m] \in Seq(Legit(m))
      BY DEF IInv, Pipeline
    <2>2. /\ inbox' \in [Modules -> Seq(Number)] /\ queue' \in [Modules -> Seq(Number)]
          /\ \A m \in Modules : /\ queue'[m] \in Seq(Legit(m))
                                /\ inbox'[m] \in Seq(Legit(m))
                                /\ Len(inbox'[m]) <= FifoDepth
          /\ hw' \in {hw, "aborted"}
      BY <1>1, <1>2, <2>1, FlushStep
    <2>3. Pipeline'
      BY <1>1, <2>2, QueueStep DEF IInv, controller
    <2>4. TypeOK'
      BY <1>1, <2>2 DEF IInv, TypeOK, controller
    <2> QED BY <2>3, <2>4 DEF IInv
  <1>3. CASE ~Cycled
    <2>1. Pipeline'
      BY <1>1, <1>3, SamePipe DEF IInv, controller, pipe
    <2>2. TypeOK'
      BY <1>1, <1>3 DEF IInv, TypeOK, controller
    <2> QED BY <2>1, <2>2 DEF IInv
  <1> QED BY <1>2, <1>3

LEMMA WriteStep ==
  ASSUME IInv, NEW ok \in BOOLEAN, Write(ok)
  PROVE  IInv'
  <1>1. /\ Cycled => /\ Flushed(Published) \/ Aborted(Published)
                     /\ measured' = [m \in Modules |-> Limited(velocity[m])]
        /\ ~Cycled => UNCHANGED <<measured, inbox, queue, hw>>
        /\ phase' = "read" /\ UNCHANGED <<controller, vesc, v_q, resets>>
    BY DEF Write, Flush, bounds
  <1>2. CASE Cycled
    <2>1. \A m \in Modules : Published[m] \in Seq(Legit(m))
      <3> SUFFICES ASSUME NEW m \in Modules PROVE Published[m] \in Seq(Legit(m))
        OBVIOUS
      <3>1. queue[m] \in Seq(Legit(m))
        BY DEF IInv, Pipeline
      <3>2. Setpoint(m, Limited(velocity[m])) \in Legit(m)
        BY PublishedLegit
      <3> QED BY <3>1, <3>2 DEF Published
    <2>2. /\ inbox' \in [Modules -> Seq(Number)] /\ queue' \in [Modules -> Seq(Number)]
          /\ \A m \in Modules : /\ queue'[m] \in Seq(Legit(m))
                                /\ inbox'[m] \in Seq(Legit(m))
                                /\ Len(inbox'[m]) <= FifoDepth
          /\ hw' \in {hw, "aborted"}
      BY <1>1, <1>2, <2>1, FlushStep
    <2>3. measured' \in [Modules -> Number]
      BY <1>1, <1>2, PublishedLegit
    <2>4. Pipeline'
      BY <1>1, <2>2, QueueStep DEF IInv, controller
    <2>5. TypeOK'
      BY <1>1, <2>2, <2>3 DEF IInv, TypeOK, controller
    <2> QED BY <2>4, <2>5 DEF IInv
  <1>3. CASE ~Cycled
    <2>1. Pipeline'
      BY <1>1, <1>3, SamePipe DEF IInv, controller, pipe
    <2>2. TypeOK'
      BY <1>1, <1>3 DEF IInv, TypeOK, controller
    <2> QED BY <2>1, <2>2 DEF IInv
  <1> QED BY <1>2, <1>3

(* Life-cycle transitions of either component.                             *)
LEMMA TransitionStep ==
  ASSUME IInv,
         \/ on_configure \/ on_activate \/ on_deactivate \/ on_cleanup
         \/ Configure \/ Cleanup \/ Activate \/ Deactivate \/ Shutdown
  PROVE  IInv'
  <1>1. CASE on_configure \/ on_activate \/ on_deactivate \/ on_cleanup
    <2>1. /\ UNCHANGED <<received_velocity_msg_, velocity, asked, driver, nodes, resets, phase>>
          /\ ctrl' \in {"unconfigured", "inactive", "active"} /\ subscribed' \in BOOLEAN
      BY <1>1 DEF on_configure, on_activate, on_deactivate, on_cleanup, ControllerTo, IInv,
                  TypeOK
    <2>2. Pipeline'
      BY <2>1, SamePipe DEF IInv, pipe, driver, nodes
    <2>3. TypeOK'
      BY <2>1 DEF IInv, TypeOK, driver, nodes
    <2> QED BY <2>2, <2>3 DEF IInv
  <1>2. CASE Configure \/ Cleanup \/ Activate \/ Deactivate \/ Shutdown
    <2>1. /\ UNCHANGED <<controller, nodes, resets, phase>>
          /\ hw' \in {"unconfigured", "inactive", "active", "finalized"}
          /\ \/ UNCHANGED <<measured, queue>>
             \/ /\ queue' = [m \in Modules |-> queue[m] \o <<0, 0, 0>>]
                /\ measured' = [m \in Modules |-> 0]
             \/ queue' = [m \in Modules |-> << >>] /\ UNCHANGED measured
      BY <1>2 DEF Configure, Cleanup, Activate, Deactivate, Shutdown, DriverTo
    <2>2. \A m \in Modules : queue[m] \in Seq(Legit(m)) /\ inbox[m] \in Seq(Legit(m))
                              /\ queue[m] \in Seq(Number)
      BY DEF IInv, Pipeline, TypeOK
    <2>3. \A m \in Modules : /\ queue[m] \o <<0, 0, 0>> \in Seq(Legit(m))
                              /\ queue[m] \o <<0, 0, 0>> \in Seq(Number)
      <3>1. <<0, 0, 0>> \in Seq(Number)
        BY DEF Number
      <3>2. \A m \in Modules : <<0, 0, 0>> \in Seq(Legit(m))
        BY DEF Legit
      <3> QED BY <2>2, <3>1, <3>2
    <2>4. \A m \in Modules : queue'[m] \in Seq(Legit(m)) /\ inbox'[m] \in Seq(Legit(m))
      <3> SUFFICES ASSUME NEW m \in Modules
                   PROVE  queue'[m] \in Seq(Legit(m)) /\ inbox'[m] \in Seq(Legit(m))
        OBVIOUS
      <3>1. inbox'[m] = inbox[m] /\ << >> \in Seq(Legit(m))
        BY <2>1 DEF nodes
      <3>2. queue'[m] \in {queue[m], queue[m] \o <<0, 0, 0>>, << >>}
        BY <2>1
      <3> QED BY <2>2, <2>3, <3>1, <3>2
    <2>5. queue' \in [Modules -> Seq(Number)] /\ measured' \in [Modules -> Number]
      <3>1. /\ queue \in [Modules -> Seq(Number)] /\ measured \in [Modules -> Number]
            /\ << >> \in Seq(Number) /\ 0 \in Number
        BY DEF IInv, TypeOK, Number
      <3> QED BY <2>1, <2>3, <3>1
    <2>6. Pipeline'
      BY <2>1, <2>4, QueueStep DEF IInv, controller, nodes
    <2>7. TypeOK'
      BY <2>1, <2>5 DEF IInv, TypeOK, controller, nodes
    <2> QED BY <2>6, <2>7 DEF IInv
  <1> QED BY <1>1, <1>2

(* A step of one VESC: what it takes over is legitimate for its wheel.     *)
LEMMA VescChange ==
  ASSUME IInv, NEW n \in Modules, NEW x \in Node, NEW b \in Seq(Legit(n)), NEW q,
         UNCHANGED <<controller, driver, phase>>,
         vesc' = [vesc EXCEPT ![n] = x], inbox' = [inbox EXCEPT ![n] = b],
         v_q' = [v_q EXCEPT ![n] = q], Len(b) <= FifoDepth, resets' \in Nat,
         x.msg \in Legit(n), x.mode \in {DISABLED} \cup WantedSet(n),
         x.moe => x.mode # DISABLED, q \in {0} \cup WantedSet(n)
  PROVE  IInv'
  <1>1. b \in Seq(Number) /\ q \in Int
    BY LegitType, SeqMono DEF IInv
  <1>2. /\ inbox' \in [Modules -> Seq(Number)] /\ vesc' \in [Modules -> Node]
        /\ v_q' \in [Modules -> Int]
    BY <1>1 DEF IInv, TypeOK
  <1>3. \A m \in Modules : Len(inbox'[m]) <= FifoDepth
    BY DEF IInv, TypeOK
  <1>4. TypeOK'
    BY <1>2, <1>3 DEF IInv, TypeOK, controller, driver
  <1>5. \A m \in Modules : Targets(m)' = Targets(m) /\ WantedSet(m)' = WantedSet(m)
                            /\ Legit(m)' = Legit(m)
    BY DEF Targets, WantedSet, Legit, controller
  <1>6. \A m \in Modules :
          /\ m = n => inbox'[m] = b /\ vesc'[m] = x /\ v_q'[m] = q
          /\ m # n => inbox'[m] = inbox[m] /\ vesc'[m] = vesc[m] /\ v_q'[m] = v_q[m]
    BY DEF IInv, TypeOK
  <1>7. Pipeline'
    <2> SUFFICES ASSUME NEW m \in Modules
                 PROVE  (/\ velocity[m] \in {NaN} \cup Targets(m)
                         /\ queue[m] \in Seq(Legit(m)) /\ inbox[m] \in Seq(Legit(m))
                         /\ vesc[m].msg \in Legit(m)
                         /\ vesc[m].mode \in {DISABLED} \cup WantedSet(m)
                         /\ vesc[m].moe => vesc[m].mode # DISABLED
                         /\ v_q[m] \in {0} \cup WantedSet(m))'
      BY DEF Pipeline
    <2>1. velocity' = velocity /\ queue' = queue
      BY DEF controller, driver
    <2>2. CASE m = n
      <3>1. inbox'[m] = b /\ vesc'[m] = x /\ v_q'[m] = q
        BY <1>6, <2>2
      <3>2. velocity[m] \in {NaN} \cup Targets(m) /\ queue[m] \in Seq(Legit(m))
        BY DEF IInv, Pipeline
      <3> QED BY <1>5, <2>1, <2>2, <3>1, <3>2
    <2>3. CASE m # n
      BY <1>5, <1>6, <2>1, <2>3 DEF IInv, Pipeline
    <2> QED BY <2>2, <2>3
  <1> QED BY <1>4, <1>7 DEF IInv

LEMMA VescStep ==
  ASSUME IInv, NEW n \in Modules, Vesc(n)
  PROVE  IInv'
  <1>1. /\ vesc[n] \in Node /\ inbox[n] \in Seq(Legit(n)) /\ Len(inbox[n]) <= FifoDepth
        /\ vesc[n].msg \in Legit(n) /\ vesc[n].mode \in {DISABLED} \cup WantedSet(n)
        /\ vesc[n].moe => vesc[n].mode # DISABLED
        /\ v_q[n] \in {0} \cup WantedSet(n) /\ resets \in Nat
    BY DEF IInv, TypeOK, Pipeline
  <1>2. /\ vesc = [vesc EXCEPT ![n] = vesc[n]] /\ inbox = [inbox EXCEPT ![n] = inbox[n]]
        /\ v_q = [v_q EXCEPT ![n] = v_q[n]]
    BY DEF IInv, TypeOK
  <1>3. WantedSet(n) \subseteq Int /\ Legit(n) \subseteq Number
    BY LegitType DEF IInv
  <1>4. CASE HandleMessage(n)
    <2> DEFINE x == [vesc[n] EXCEPT !.pc = "set", !.msg = Head(inbox[n]), !.moe = FALSE]
               b == Tail(inbox[n])
    <2>1. /\ Head(inbox[n]) \in Legit(n) /\ b \in Seq(Legit(n)) /\ Len(b) <= FifoDepth
      BY <1>1, <1>4, ScaleAssumption DEF HandleMessage
    <2>2. x \in Node /\ x.msg = Head(inbox[n]) /\ x.mode = vesc[n].mode /\ ~x.moe
      BY <1>1, <1>3, <2>1 DEF Node
    <2>3. vesc' = [vesc EXCEPT ![n] = x] /\ inbox' = [inbox EXCEPT ![n] = b]
      BY <1>4 DEF HandleMessage, IInv, TypeOK
    <2>4. v_q' = [v_q EXCEPT ![n] = v_q[n]] /\ UNCHANGED <<controller, driver, phase, resets>>
      BY <1>2, <1>4 DEF HandleMessage, bounds
    <2> HIDE DEF x, b
    <2> QED BY <1>1, <2>1, <2>2, <2>3, <2>4, VescChange
  <1>5. CASE SetMode(n)
    <2> DEFINE mode == ControlMode(vesc[n].msg)
               x == [vesc[n] EXCEPT !.pc = "loop", !.mode = mode, !.moe = mode # DISABLED]
    <2>1. mode \in {DISABLED} \cup WantedSet(n)
      <3>1. vesc[n].msg = 0 \/ vesc[n].msg \in WantedSet(n)
        BY <1>1, <1>5 DEF SetMode, Legit
      <3>2. vesc[n].msg = 0 => mode = DISABLED
        BY ScaleAssumption DEF ControlMode, Abs
      <3> QED BY <3>1, <3>2 DEF ControlMode
    <2>2. mode \in Int \cup {DISABLED}
      BY <1>3, <2>1
    <2> HIDE DEF mode
    <2>3. x \in Node /\ x.msg = vesc[n].msg /\ x.mode = mode /\ x.moe = (mode # DISABLED)
      BY <1>1, <2>2 DEF Node
    <2>4. vesc' = [vesc EXCEPT ![n] = x]
      BY <1>5 DEF SetMode, IInv, TypeOK, mode
    <2>5. /\ v_q' = [v_q EXCEPT ![n] = v_q[n]] /\ inbox' = [inbox EXCEPT ![n] = inbox[n]]
          /\ UNCHANGED <<controller, driver, phase, resets>>
      BY <1>2, <1>5 DEF SetMode, bounds
    <2> HIDE DEF x
    <2> QED BY <1>1, <2>1, <2>3, <2>4, <2>5, VescChange
  <1>6. CASE Panic(n)
    <2> DEFINE x == [vesc[n] EXCEPT !.pc = "panicked"]
    <2>1. /\ x \in Node /\ x.msg = vesc[n].msg /\ x.mode = vesc[n].mode
          /\ x.moe = vesc[n].moe
      BY <1>1 DEF Node
    <2>2. vesc' = [vesc EXCEPT ![n] = x]
      BY <1>6 DEF Panic, IInv, TypeOK
    <2>3. /\ v_q' = [v_q EXCEPT ![n] = v_q[n]] /\ inbox' = [inbox EXCEPT ![n] = inbox[n]]
          /\ UNCHANGED <<controller, driver, phase, resets>>
      BY <1>2, <1>6 DEF Panic, bounds
    <2> HIDE DEF x
    <2> QED BY <1>1, <2>1, <2>2, <2>3, VescChange
  <1>7. CASE Commutate(n)
    <2> DEFINE q == IF vesc[n].mode = DISABLED THEN 0 ELSE vesc[n].mode
    <2>1. q \in {0} \cup WantedSet(n)
      BY <1>1
    <2>2. /\ v_q' = [v_q EXCEPT ![n] = q] /\ vesc' = [vesc EXCEPT ![n] = vesc[n]]
          /\ inbox' = [inbox EXCEPT ![n] = inbox[n]]
          /\ UNCHANGED <<controller, driver, phase, resets>>
      BY <1>2, <1>7 DEF Commutate, bounds
    <2> HIDE DEF q
    <2> QED BY <1>1, <2>1, <2>2, VescChange
  <1>8. CASE PowerCycle(n)
    <2> DEFINE x == [pc |-> "loop", msg |-> 0, mode |-> DISABLED, moe |-> FALSE]
    <2>1. x \in Node /\ x.msg = 0 /\ x.mode = DISABLED /\ ~x.moe /\ 0 \in Legit(n)
      BY DEF Node, Number, Legit
    <2>2. << >> \in Seq(Legit(n)) /\ Len(<< >>) <= FifoDepth
      BY ScaleAssumption
    <2>3. /\ vesc' = [vesc EXCEPT ![n] = x] /\ inbox' = [inbox EXCEPT ![n] = << >>]
          /\ v_q' = [v_q EXCEPT ![n] = 0] /\ resets' \in Nat
          /\ UNCHANGED <<controller, driver, phase>>
      BY <1>1, <1>8 DEF PowerCycle
    <2> HIDE DEF x
    <2> QED BY <2>1, <2>2, <2>3, VescChange
  <1> QED BY <1>4, <1>5, <1>6, <1>7, <1>8 DEF Vesc

LEMMA NextIInv == IInv /\ [Next]_vars => IInv'
  <1> SUFFICES ASSUME IInv, [Next]_vars PROVE IInv'
    OBVIOUS
  <1>1. ASSUME NEW t \in Twists, Receive(t) PROVE IInv'
    BY <1>1, ReceiveStep
  <1>2. ASSUME NEW got \in BOOLEAN, NEW ok \in [Modules -> 0..2], Update(got, ok)
        PROVE  IInv'
    BY <1>2, UpdateStep
  <1>3. ASSUME NEW ok \in BOOLEAN, Read(ok) PROVE IInv'
    BY <1>3, ReadStep
  <1>4. ASSUME NEW ok \in BOOLEAN, Write(ok) PROVE IInv'
    BY <1>4, WriteStep
  <1>5. CASE \/ on_configure \/ on_activate \/ on_deactivate \/ on_cleanup
             \/ Configure \/ Cleanup \/ Activate \/ Deactivate \/ Shutdown
    BY <1>5, TransitionStep
  <1>6. ASSUME NEW n \in Modules, Vesc(n) PROVE IInv'
    BY <1>6, VescStep
  <1>7. CASE UNCHANGED vars
    <2>1. Pipeline'
      BY <1>7, SamePipe DEF IInv, vars, controller, driver, nodes, pipe
    <2>2. TypeOK'
      BY <1>7 DEF IInv, TypeOK, vars, controller, driver, nodes, bounds
    <2> QED BY <2>1, <2>2 DEF IInv
  <1> QED BY <1>1, <1>2, <1>3, <1>4, <1>5, <1>6, <1>7 DEF Next, ControllerManager

(* IInv holds for ever: whatever the life cycles, the locks and the VESCs  *)
(* do, the pipeline carries only what some twist asks of the wheel.        *)
THEOREM RosInvariance == Spec => []IInv
  BY InitIInv, NextIInv, PTL DEF Spec

(* Every variable of RosDrive keeps its type, and a VESC's peripheral its  *)
(* depth.                                                                  *)
THEOREM RosTypeCorrect == Spec => []TypeOK
  <1>1. IInv => TypeOK
    BY DEF IInv
  <1> QED BY <1>1, RosInvariance, PTL

(* No motor is energised with a voltage that nobody asked of its wheel.    *)
THEOREM NoPhantom == Spec => []NoPhantomDrive
  <1>1. IInv => NoPhantomDrive
    BY DEF IInv, Pipeline, NoPhantomDrive, WantedSet
  <1> QED BY <1>1, RosInvariance, PTL

----------------------------------------------------------------------------
(* The newest word of a pipeline q, b, x (queue, inbox, VESC) is v.        *)
Says(q, b, x, v) ==
  /\ q # << >> => q[Len(q)] = v
  /\ q = << >> /\ b # << >> => b[Len(b)] = v
  /\ q = << >> /\ b = << >> /\ x.pc # "loop" => x.msg = v
  /\ q = << >> /\ b = << >> /\ x.pc = "loop" => x.mode = ControlMode(v)

(* The newest word on the way to every wheel is the velocity that the      *)
(* driver reports of it, until a VESC is reset or the driver is gone.      *)
Told ==
  resets = 0 /\ hw \notin {"finalized", "aborted"} =>
    \A m \in Modules : Says(queue[m], inbox[m], vesc[m], Setpoint(m, measured[m]))

(* A flush does not change what a pipeline says.                           *)
LEMMA SaysFlush ==
  ASSUME NEW q \in Seq(Number), NEW b \in Seq(Number), Len(b) <= FifoDepth,
         NEW x, NEW v, Says(q, b, x, v)
  PROVE  Says(<< >>, Stored(b, q), x, v)
  <1>1. CASE q = << >>
    <2>1. b \o q = b
      BY <1>1
    <2>2. Stored(b, q) = b
      BY <2>1 DEF Stored
    <2> QED BY <1>1, <2>2 DEF Says
  <1>2. CASE q # << >>
    <2> DEFINE all == b \o q
    <2>1. /\ all \in Seq(Number) /\ Len(all) = Len(b) + Len(q) /\ Len(q) > 0
          /\ Len(b) \in Nat /\ Len(q) \in Nat
      BY <1>2
    <2>2. all[Len(all)] = q[Len(q)]
      BY <2>1
    <2> HIDE DEF all
    <2>3. CASE Len(all) <= FifoDepth
      <3>1. Stored(b, q) = all
        BY <2>3 DEF Stored, all
      <3>2. all # << >>
        BY <2>1
      <3> QED BY <1>2, <2>2, <3>1, <3>2 DEF Says
    <2>4. CASE ~(Len(all) <= FifoDepth)
      <3> DEFINE front == SubSeq(all, 1, FifoDepth - 1)
                 last == all[Len(all)]
      <3>1. Stored(b, q) = Append(front, last)
        BY <2>4 DEF Stored, all
      <3>2. front \in Seq(Number)
        BY <2>1, <2>4, ScaleAssumption
      <3>3. last \in Number
        BY <2>1
      <3> HIDE DEF front, last
      <3>4. Append(front, last) # << >>
        BY <3>2, <3>3
      <3>5. Append(front, last)[Len(Append(front, last))] = last
        BY <3>2, <3>3
      <3> QED BY <1>2, <2>2, <3>1, <3>4, <3>5 DEF Says, last
    <2> QED BY <2>3, <2>4
  <1> QED BY <1>1, <1>2

(* What has just been published is what a pipeline says.                   *)
LEMMA SaysPublished ==
  ASSUME NEW q \in Seq(Number), NEW b, NEW x
  PROVE  /\ \A v \in Number : Says(Append(q, v), b, x, v)
         /\ Says(q \o <<0, 0, 0>>, b, x, 0)
  <1>1. ASSUME NEW v \in Number PROVE Says(Append(q, v), b, x, v)
    <2>1. Append(q, v) # << >> /\ Append(q, v)[Len(Append(q, v))] = v
      OBVIOUS
    <2> QED BY <2>1 DEF Says
  <1>2. Says(q \o <<0, 0, 0>>, b, x, 0)
    <2> DEFINE z == q \o <<0, 0, 0>>
    <2>1. <<0, 0, 0>> \in Seq(Number) /\ Len(<<0, 0, 0>>) = 3
      BY DEF Number
    <2>2. Len(z) = Len(q) + 3 /\ Len(q) \in Nat /\ z[Len(q) + 3] = 0
      BY <2>1
    <2>3. z # << >>
      BY <2>2
    <2> HIDE DEF z
    <2>4. Says(z, b, x, 0)
      BY <2>2, <2>3 DEF Says
    <2> QED BY <2>4 DEF z
  <1> QED BY <1>1, <1>2

(* A tail ends as the sequence does, unless it is empty.                   *)
LEMMA TailLast ==
  ASSUME NEW b \in Seq(Number), b # << >>
  PROVE  /\ Tail(b) # << >> => Tail(b)[Len(Tail(b))] = b[Len(b)]
         /\ Tail(b) = << >> => Head(b) = b[Len(b)]
  <1>1. /\ Tail(b) \in Seq(Number) /\ Len(Tail(b)) = Len(b) - 1 /\ Head(b) = b[1]
        /\ \A k \in 1..Len(Tail(b)) : Tail(b)[k] = b[k + 1]
    BY HeadTailProperties
  <1>2. Len(b) \in Nat /\ Len(b) # 0 /\ (Tail(b) = << >> <=> Len(Tail(b)) = 0)
    BY <1>1, EmptySeq
  <1> DEFINE n == Len(b)
             k == Len(Tail(b))
  <1>3. k = n - 1 /\ n \in Nat /\ n # 0
    BY <1>1, <1>2
  <1> HIDE DEF n, k
  <1>4. (k = 0 => n = 1) /\ (k # 0 => k \in 1..k /\ k + 1 = n)
    BY <1>3
  <1>5. (k = 0 => Head(b) = b[n]) /\ (k # 0 => Tail(b)[k] = b[n])
    BY <1>1, <1>4 DEF k
  <1> QED BY <1>2, <1>5 DEF n, k

(* The setpoint of a stopped wheel is zero, inverted or not.               *)
LEMMA SetpointZero ==
  ASSUME NEW m PROVE Setpoint(m, 0) = 0
  <1>1. 0 \in Int /\ 0 # NaN
    BY ValueAssumption
  <1>2. \A k \in {-1, 1} : 0 * k = 0
    OBVIOUS
  <1> QED BY <1>1, <1>2 DEF Setpoint

LEMMA InitTold == Init => Told
  <1> SUFFICES ASSUME Init, NEW m \in Modules
               PROVE  Says(queue[m], inbox[m], vesc[m], Setpoint(m, measured[m]))
    BY DEF Told
  <1>1. queue[m] = <<0, 0, 0>> /\ measured[m] = 0
    BY DEF Init
  <1>2. Says(<<0, 0, 0>>, inbox[m], vesc[m], 0)
    <2>1. <<0, 0, 0>> # << >> /\ <<0, 0, 0>>[Len(<<0, 0, 0>>)] = 0
      OBVIOUS
    <2> QED BY <2>1 DEF Says
  <1> QED BY <1>1, <1>2, SetpointZero

(* The pipelines of a driver in use, before any reset.                     *)
InUse == resets = 0 /\ hw \notin {"finalized", "aborted"}

LEMMA SameTold ==
  ASSUME Told, UNCHANGED <<queue, inbox, vesc, measured, resets>>, InUse' => InUse
  PROVE  Told'
  BY DEF Told, InUse

(* A read or write that flushes what says the reported velocity.           *)
LEMMA FlushTold ==
  ASSUME IInv, NEW published, UNCHANGED <<vesc, resets>>,
         \A m \in Modules : published[m] \in Seq(Number),
         InUse => \A m \in Modules :
           Says(published[m], inbox[m], vesc[m], Setpoint(m, measured'[m])),
         Flushed(published) \/ Aborted(published)
  PROVE  Told'
  <1> SUFFICES ASSUME InUse', NEW m \in Modules
               PROVE  Says(queue'[m], inbox'[m], vesc[m], Setpoint(m, measured'[m]))
    BY DEF Told, InUse
  <1>1. Flushed(published) /\ InUse
    BY DEF Aborted, Flushed, InUse
  <1>2. queue'[m] = << >> /\ inbox'[m] = Stored(inbox[m], published[m])
    BY <1>1 DEF Flushed
  <1>3. inbox[m] \in Seq(Number) /\ Len(inbox[m]) <= FifoDepth
    BY DEF IInv, TypeOK
  <1>4. Says(published[m], inbox[m], vesc[m], Setpoint(m, measured'[m]))
    BY <1>1
  <1>5. Says(<< >>, Stored(inbox[m], published[m]), vesc[m], Setpoint(m, measured'[m]))
    BY <1>3, <1>4, SaysFlush
  <1> QED BY <1>2, <1>5

LEMMA CycleTold ==
  ASSUME IInv, Told, NEW ok \in BOOLEAN, Read(ok) \/ Write(ok)
  PROVE  Told'
  <1>1. CASE Read(ok)
    <2>1. /\ Cycled => Flushed(queue) \/ Aborted(queue)
          /\ ~Cycled => UNCHANGED <<inbox, queue, hw>>
          /\ UNCHANGED <<measured, vesc, resets>>
      BY <1>1 DEF Read, Flush, bounds
    <2>2. CASE Cycled
      <3>1. \A m \in Modules : queue[m] \in Seq(Number)
        BY DEF IInv, TypeOK
      <3>2. InUse => \A m \in Modules :
              Says(queue[m], inbox[m], vesc[m], Setpoint(m, measured'[m]))
        BY <2>1 DEF Told, InUse
      <3> QED BY <2>1, <2>2, <3>1, <3>2, FlushTold
    <2>3. CASE ~Cycled
      BY <2>1, <2>3, SameTold DEF InUse
    <2> QED BY <2>2, <2>3
  <1>2. CASE Write(ok)
    <2>1. /\ Cycled => /\ Flushed(Published) \/ Aborted(Published)
                       /\ measured' = [m \in Modules |-> Limited(velocity[m])]
          /\ ~Cycled => UNCHANGED <<measured, inbox, queue, hw>>
          /\ UNCHANGED <<vesc, resets>>
      BY <1>2 DEF Write, Flush, bounds
    <2>2. CASE Cycled
      <3>1. ASSUME NEW m \in Modules
            PROVE  /\ Published[m] \in Seq(Number)
                   /\ Says(Published[m], inbox[m], vesc[m], Setpoint(m, measured'[m]))
        <4> DEFINE v == Setpoint(m, Limited(velocity[m]))
        <4>1. v \in Number /\ queue[m] \in Seq(Number)
          BY PublishedLegit, LegitType DEF IInv, TypeOK
        <4>2. Published[m] = Append(queue[m], v) /\ v = Setpoint(m, measured'[m])
          BY <2>1, <2>2 DEF Published
        <4> HIDE DEF v
        <4>3. Says(Append(queue[m], v), inbox[m], vesc[m], v)
          BY <4>1, SaysPublished
        <4> QED BY <4>1, <4>2, <4>3
      <3> QED BY <2>1, <2>2, <3>1, FlushTold
    <2>3. CASE ~Cycled
      BY <2>1, <2>3, SameTold DEF InUse
    <2> QED BY <2>2, <2>3
  <1> QED BY <1>1, <1>2

LEMMA TransitionTold ==
  ASSUME IInv, Told, Configure \/ Cleanup \/ Activate \/ Deactivate \/ Shutdown
  PROVE  Told'
  <1>1. CASE Configure \/ Cleanup \/ Activate
    BY <1>1, SameTold DEF Configure, Cleanup, Activate, DriverTo, nodes, InUse
  <1>2. CASE Shutdown
    BY <1>2 DEF Shutdown, DriverTo, Told
  <1>3. CASE Deactivate
    <2> SUFFICES ASSUME NEW m \in Modules
                 PROVE  Says(queue'[m], inbox[m], vesc[m], Setpoint(m, measured'[m]))
      BY <1>3 DEF Told, Deactivate, DriverTo, nodes
    <2>1. queue'[m] = queue[m] \o <<0, 0, 0>> /\ measured'[m] = 0
      BY <1>3 DEF Deactivate
    <2>2. Says(queue[m] \o <<0, 0, 0>>, inbox[m], vesc[m], 0)
      BY SaysPublished DEF IInv, TypeOK
    <2> QED BY <2>1, <2>2, SetpointZero
  <1> QED BY <1>1, <1>2, <1>3

LEMMA VescTold ==
  ASSUME IInv, Told, NEW n \in Modules, Vesc(n)
  PROVE  Told'
  <1>1. CASE PowerCycle(n)
    <2>1. resets' # 0
      BY <1>1 DEF PowerCycle, IInv, TypeOK
    <2> QED BY <2>1 DEF Told
  <1>2. CASE Commutate(n)
    BY <1>2, SameTold DEF Commutate, driver, bounds, InUse
  <1>3. CASE HandleMessage(n) \/ SetMode(n) \/ Panic(n)
    <2>1. UNCHANGED <<queue, measured, hw, resets>>
      BY <1>3 DEF HandleMessage, SetMode, Panic, driver, bounds
    <2> SUFFICES ASSUME InUse, NEW m \in Modules
                 PROVE  Says(queue[m], inbox'[m], vesc'[m], Setpoint(m, measured[m]))
      BY <2>1 DEF Told, InUse
    <2> DEFINE v == Setpoint(m, measured[m])
    <2>2. Says(queue[m], inbox[m], vesc[m], v)
      BY DEF Told, InUse
    <2>3. inbox[m] \in Seq(Number) /\ vesc[m] \in Node
      BY DEF IInv, TypeOK
    <2> HIDE DEF v
    <2>4. CASE m # n
      <3>1. inbox'[m] = inbox[m] /\ vesc'[m] = vesc[m]
        BY <1>3, <2>4 DEF HandleMessage, SetMode, Panic, IInv, TypeOK
      <3> QED BY <2>2, <3>1 DEF v
    <2>5. CASE m = n /\ HandleMessage(n)
      <3>1. /\ inbox[m] # << >> /\ inbox'[m] = Tail(inbox[m])
            /\ vesc'[m].pc = "set" /\ vesc'[m].msg = Head(inbox[m])
        BY <2>3, <2>5 DEF HandleMessage, IInv, TypeOK, Node
      <3>2. /\ Tail(inbox[m]) # << >> =>
                 Tail(inbox[m])[Len(Tail(inbox[m]))] = inbox[m][Len(inbox[m])]
            /\ Tail(inbox[m]) = << >> => Head(inbox[m]) = inbox[m][Len(inbox[m])]
        BY <2>3, <3>1, TailLast
      <3>3. queue[m] = << >> => inbox[m][Len(inbox[m])] = v
        BY <2>2, <3>1 DEF Says
      <3>4. queue[m] # << >> => queue[m][Len(queue[m])] = v
        BY <2>2 DEF Says
      <3>5. Says(queue[m], Tail(inbox[m]), vesc'[m], v)
        BY <3>1, <3>2, <3>3, <3>4, Zenon DEF Says
      <3> QED BY <3>1, <3>5 DEF v
    <2>6. CASE m = n /\ SetMode(n)
      <3>1. /\ inbox'[m] = inbox[m] /\ vesc[m].pc = "set" /\ vesc'[m].pc = "loop"
            /\ vesc'[m].mode = ControlMode(vesc[m].msg)
        BY <2>3, <2>6 DEF SetMode, IInv, TypeOK, Node
      <3> QED BY <2>2, <3>1 DEF Says, v
    <2>7. CASE m = n /\ Panic(n)
      <3>1. /\ inbox'[m] = inbox[m] /\ vesc[m].pc = "set" /\ vesc'[m].pc = "panicked"
            /\ vesc'[m].msg = vesc[m].msg
        BY <2>3, <2>7 DEF Panic, IInv, TypeOK, Node
      <3> QED BY <2>2, <3>1 DEF Says, v
    <2> QED BY <1>3, <2>4, <2>5, <2>6, <2>7
  <1> QED BY <1>1, <1>2, <1>3 DEF Vesc

LEMMA NextTold == IInv /\ Told /\ [Next]_vars => Told'
  <1> SUFFICES ASSUME IInv, Told, [Next]_vars PROVE Told'
    OBVIOUS
  <1>1. ASSUME NEW t \in Twists, Receive(t) PROVE Told'
    BY <1>1, SameTold DEF Receive, driver, nodes, InUse
  <1>2. ASSUME NEW got, NEW ok, Update(got, ok) PROVE Told'
    BY <1>2, SameTold DEF Update, driver, nodes, bounds, InUse
  <1>3. ASSUME NEW ok \in BOOLEAN, Read(ok) \/ Write(ok) PROVE Told'
    BY <1>3, CycleTold
  <1>4. CASE on_configure \/ on_activate \/ on_deactivate \/ on_cleanup
    BY <1>4, SameTold DEF on_configure, on_activate, on_deactivate, on_cleanup,
      ControllerTo, driver, nodes, InUse
  <1>5. CASE Configure \/ Cleanup \/ Activate \/ Deactivate \/ Shutdown
    BY <1>5, TransitionTold
  <1>6. ASSUME NEW n \in Modules, Vesc(n) PROVE Told'
    BY <1>6, VescTold
  <1>7. CASE UNCHANGED vars
    BY <1>7, SameTold DEF vars, driver, nodes, bounds, InUse
  <1> QED BY <1>1, <1>2, <1>3, <1>4, <1>5, <1>6, <1>7 DEF Next, ControllerManager

(* The velocity that the driver invents is the one its wheel was told.     *)
THEOREM Reported == Spec => []ReportedIsSent
  <1>1. Told => ReportedIsSent
    BY DEF Told, Says, ReportedIsSent, Cycled
  <1>2. Spec => []Told
    BY RosInvariance, InitTold, NextTold, PTL DEF Spec
  <1> QED BY <1>1, <1>2, PTL

----------------------------------------------------------------------------
(* Overruns and lost ends of the sequences under way to a wheel.           *)

LEMMA PrefixOfConcat ==
  ASSUME NEW S, NEW s \in Seq(S), NEW t \in Seq(S)
  PROVE  SubSeq(s \o t, 1, Len(s)) = s
  <1>1. Len(s) \in Nat
    OBVIOUS
  <1>2. CASE s = << >>
    BY <1>1, <1>2, SubSeqEmpty, EmptySeq
  <1>3. CASE s # << >>
    <2>1. 1 \in 1 .. Len(s) /\ Len(s) \in 1 .. Len(s)
      BY <1>1, <1>3, EmptySeq
    <2> QED BY <2>1, SubSeqOfConcat1, SubSeqFull
  <1> QED BY <1>2, <1>3

LEMMA SuffixOfConcat ==
  ASSUME NEW S, NEW s \in Seq(S), NEW t \in Seq(S)
  PROVE  SubSeq(s \o t, Len(s) + 1, Len(s \o t)) = t
  <1>1. Len(s) \in Nat /\ Len(t) \in Nat /\ Len(s \o t) = Len(s) + Len(t)
    BY ConcatProperties
  <1>2. CASE t = << >>
    <2>1. Len(t) = 0
      BY <1>2
    <2>2. Len(s \o t) < Len(s) + 1 /\ Len(s) + 1 \in Int /\ Len(s \o t) \in Int
      BY <1>1, <2>1
    <2> QED BY <1>2, <2>2, SubSeqEmpty
  <1>3. CASE t # << >>
    <2>1. Len(t) # 0
      BY <1>3, EmptySeq
    <2>2. /\ Len(s) + 1 \in Len(s) + 1 .. Len(s) + Len(t)
          /\ Len(s) + Len(t) \in Len(s) + 1 .. Len(s) + Len(t)
          /\ Len(s) + 1 - Len(s) = 1 /\ Len(s) + Len(t) - Len(s) = Len(t)
      BY <1>1, <2>1
    <2>3. SubSeq(s \o t, Len(s) + 1, Len(s) + Len(t)) = SubSeq(t, 1, Len(t))
      BY <2>2, SubSeqOfConcat2
    <2> QED BY <1>1, <2>3, SubSeqFull
  <1> QED BY <1>2, <1>3

LEMMA LastOfConcat ==
  ASSUME NEW S, NEW s \in Seq(S), NEW t \in Seq(S), t # << >>
  PROVE  (s \o t)[Len(s \o t)] = t[Len(t)]
  <1>1. Len(s) \in Nat /\ Len(t) \in Nat \ {0}
    BY EmptySeq
  <1>2. /\ Len(s) + Len(t) \in 1 .. Len(s) + Len(t) /\ ~(Len(s) + Len(t) <= Len(s))
        /\ Len(s) + Len(t) - Len(s) = Len(t)
    BY <1>1
  <1> QED BY <1>2, ConcatProperties

(* An overrun behind h leaves h alone.                                     *)
LEMMA OverrunBehind ==
  ASSUME NEW S, NEW h \in Seq(S), NEW s \in Seq(S), NEW k \in 0 .. Len(s)
  PROVE  h \o Wheel!Overrun(s, k) = Wheel!Overrun(h \o s, Len(h) + k)
  <1>1. /\ Len(h) \in Nat /\ Len(s) \in Nat /\ k \in Nat /\ k <= Len(s)
        /\ h \o s \in Seq(S) /\ Len(h \o s) = Len(h) + Len(s)
    BY ConcatProperties
  <1>2. CASE k < Len(s)
    <2> DEFINE a == SubSeq(s, 1, k)
               b == SubSeq(s, k + 1, Len(s))
    <2>1. \A i \in 1 .. Len(s) : s[i] \in S
      BY ElementOfSeq
    <2>2. a \in Seq(S) /\ Len(a) = k
      <3>1. \A i \in 1 .. k : s[i] \in S
        BY <1>1, <2>1
      <3> QED BY <1>1, <3>1, SubSeqProperties
    <2>3. b \in Seq(S)
      <3>1. \A i \in k + 1 .. Len(s) : s[i] \in S
        BY <1>1, <2>1
      <3> QED BY <1>1, <3>1, SubSeqProperties
    <2>4. a \o b = s
      <3>1. /\ 1 \in 1 .. Len(s) + 1 /\ k \in 1 - 1 .. Len(s)
            /\ Len(s) \in k .. Len(s)
        BY <1>1
      <3>2. SubSeq(s, 1, k) \o SubSeq(s, k + 1, Len(s)) = SubSeq(s, 1, Len(s))
        BY <3>1, ConcatAdjacentSubSeq
      <3> QED BY <3>2, SubSeqFull
    <2> DEFINE e == s[Len(s)]
    <2>5. e \in S /\ s # << >>
      BY <1>1, <1>2, <2>1
    <2> HIDE DEF a, b
    <2>6. h \o s = (h \o a) \o b
      <3>1. (h \o a) \o b = h \o (a \o b)
        BY <2>2, <2>3, SMT
      <3> QED BY <2>4, <3>1
    <2>7. h \o a \in Seq(S) /\ Len(h \o a) = Len(h) + k
      BY <2>2, ConcatProperties
    <2>8. SubSeq(h \o s, 1, Len(h) + k) = h \o a
      BY <2>3, <2>6, <2>7, PrefixOfConcat
    <2>9. (h \o s)[Len(h \o s)] = e
      BY <2>5, LastOfConcat
    <2> HIDE DEF e
    <2>10. Wheel!Overrun(s, k) = Append(a, e)
      BY <1>2 DEF Wheel!Overrun, a, e
    <2>11. Wheel!Overrun(h \o s, Len(h) + k) = Append(h \o a, e)
      <3>1. Len(h) + k < Len(h \o s)
        BY <1>1, <1>2
      <3> QED BY <2>8, <2>9, <3>1 DEF Wheel!Overrun
    <2>12. h \o Append(a, e) = Append(h \o a, e)
      <3>1. <<e>> \in Seq(S)
        BY <2>5
      <3>2. Append(a, e) = a \o <<e>> /\ Append(h \o a, e) = (h \o a) \o <<e>>
        BY <2>2, <2>5, <2>7, AppendIsConcat
      <3> QED BY <2>2, <3>1, <3>2, ConcatAssociative
    <2> QED BY <2>10, <2>11, <2>12
  <1>3. CASE ~(k < Len(s))
    <2>1. ~(Len(h) + k < Len(h \o s))
      BY <1>1, <1>3
    <2> QED BY <1>3, <2>1 DEF Wheel!Overrun
  <1> QED BY <1>2, <1>3

(* What the VESC's peripheral does is an overrun, or none.                 *)
LEMMA StoredOverruns ==
  ASSUME NEW S, NEW box \in Seq(S), NEW sent \in Seq(S)
  PROVE  \E k \in 0 .. Len(box \o sent) : Stored(box, sent) = Wheel!Overrun(box \o sent, k)
  <1> DEFINE all == box \o sent
  <1>1. Len(all) \in Nat /\ FifoDepth \in Nat \ {0}
    BY ConcatProperties, ScaleAssumption
  <1> HIDE DEF all
  <1>2. CASE Len(all) <= FifoDepth
    <2>1. Len(all) \in 0 .. Len(all) /\ ~(Len(all) < Len(all))
      BY <1>1
    <2>2. Stored(box, sent) = Wheel!Overrun(all, Len(all))
      BY <1>2, <2>1 DEF Stored, Wheel!Overrun, all
    <2> QED BY <2>1, <2>2 DEF all
  <1>3. CASE ~(Len(all) <= FifoDepth)
    <2>1. FifoDepth - 1 \in 0 .. Len(all) /\ FifoDepth - 1 < Len(all)
      BY <1>1, <1>3
    <2>2. Stored(box, sent) = Wheel!Overrun(all, FifoDepth - 1)
      BY <1>3, <2>1 DEF Stored, Wheel!Overrun, all
    <2> QED BY <2>1, <2>2 DEF all
  <1> QED BY <1>2, <1>3

(* What is given a wheel is nothing, one setpoint or three of them.        *)
Fresh(n, v) == [i \in 1 .. n |-> v]

LEMMA FreshTuples ==
  ASSUME NEW v
  PROVE  /\ Fresh(0, v) = << >>
         /\ Fresh(1, v) = <<v>>
         /\ Fresh(3, v) = <<v, v, v>>
  <1>1. 1 .. 0 = {} /\ 1 .. 1 = {1} /\ 1 .. 3 = {1, 2, 3}
    OBVIOUS
  <1> QED BY <1>1 DEF Fresh

----------------------------------------------------------------------------
(* What the wheels can rely on: RosDrive implements SetpointQueue.         *)

Latest  == [m \in Modules |-> Setpoint(m, measured[m])]
InForce == [m \in Modules |-> vesc[m].mode]
Gone    == hw \in {"aborted", "finalized"}

LEMMA SetpointType ==
  ASSUME NEW m, NEW v \in Number
  PROVE  Setpoint(m, v) \in Number
  BY DEF Setpoint, Number

LEMMA WayType ==
  ASSUME TypeOK, NEW m \in Modules
  PROVE  /\ InHand(vesc[m]) \in Seq(Number)
         /\ inbox[m] \in Seq(Number) /\ queue[m] \in Seq(Number)
         /\ InHand(vesc[m]) \o inbox[m] \in Seq(Number)
         /\ OnItsWay[m] = InHand(vesc[m]) \o inbox[m] \o queue[m]
         /\ OnItsWay[m] \in Seq(Number) /\ Len(OnItsWay[m]) \in Nat
  <1>1. vesc[m].msg \in Number /\ inbox[m] \in Seq(Number) /\ queue[m] \in Seq(Number)
    BY DEF TypeOK, Node
  <1>2. InHand(vesc[m]) \in Seq(Number)
    BY <1>1 DEF InHand
  <1>3. OnItsWay[m] = InHand(vesc[m]) \o inbox[m] \o queue[m]
    BY DEF OnItsWay
  <1>4. InHand(vesc[m]) \o inbox[m] \in Seq(Number)
    BY <1>1, <1>2, ConcatProperties
  <1>5. InHand(vesc[m]) \o inbox[m] \o queue[m] \in Seq(Number)
    BY <1>1, <1>4, ConcatProperties
  <1> QED BY <1>1, <1>2, <1>3, <1>4, <1>5, LenProperties

(* What is on its way after a flush of what was queued and of f.           *)
KeptOf(h, b, q, f) ==
  \E k \in 0 .. Len(h \o b \o q) + Len(f) :
    h \o Stored(b, q \o f) \o << >> = Wheel!Overrun(h \o b \o q \o f, k)

LEMMA FlushWay ==
  ASSUME NEW h \in Seq(Number), NEW b \in Seq(Number), NEW q \in Seq(Number),
         NEW f \in Seq(Number)
  PROVE  KeptOf(h, b, q, f)
  <1> DEFINE s == b \o (q \o f)
  <1>1. q \o f \in Seq(Number) /\ s \in Seq(Number)
    BY ConcatProperties
  <1>2. h \o s = h \o b \o q \o f
    BY SMT
  <1>3. Len(h \o s) = Len(h \o b \o q) + Len(f)
    <2>1. h \o b \o q \in Seq(Number)
      BY ConcatProperties
    <2> QED BY <1>2, <2>1, ConcatProperties
  <1>4. PICK k \in 0 .. Len(s) : Stored(b, q \o f) = Wheel!Overrun(s, k)
    BY <1>1, StoredOverruns
  <1>5. h \o Stored(b, q \o f) \o << >> = h \o Stored(b, q \o f)
    <2>1. Stored(b, q \o f) \in Seq(Number)
      BY <1>1, StoredType
    <2> QED BY <2>1, ConcatProperties, ConcatEmptySeq
  <1> HIDE DEF s
  <1>6. h \o Wheel!Overrun(s, k) = Wheel!Overrun(h \o s, Len(h) + k)
    BY <1>1, OverrunBehind
  <1>7. Len(h) + k \in 0 .. Len(h \o b \o q) + Len(f)
    <2>1. Len(h \o s) = Len(h) + Len(s) /\ Len(h) \in Nat /\ Len(s) \in Nat
      BY <1>1, ConcatProperties, LenProperties
    <2> QED BY <1>3, <2>1
  <1> QED BY <1>2, <1>4, <1>5, <1>6, <1>7 DEF KeptOf

LEMMA WheelInit == Init => Wheel!Init
  <1> SUFFICES ASSUME Init PROVE Wheel!Init
    OBVIOUS
  <1>1. \A m \in Modules : Setpoint(m, measured[m]) = 0
    BY SetpointZero DEF Init
  <1>2. \A m \in Modules : OnItsWay[m] = [i \in 1 .. 3 |-> 0]
    <2> SUFFICES ASSUME NEW m \in Modules PROVE OnItsWay[m] = [i \in 1 .. 3 |-> 0]
      OBVIOUS
    <2>1. OnItsWay[m] = << >> \o << >> \o <<0, 0, 0>>
      BY DEF Init, OnItsWay, InHand
    <2>2. << >> \o << >> \o <<0, 0, 0>> = <<0, 0, 0>>
      OBVIOUS
    <2> QED BY <2>1, <2>2, FreshTuples DEF Fresh
  <1>3. OnItsWay = [m \in Modules |-> [i \in 1 .. 3 |-> 0]]
    BY <1>2 DEF OnItsWay
  <1>4. [m \in Modules |-> Setpoint(m, measured[m])] = [m \in Modules |-> 0]
    BY <1>1
  <1>5. [m \in Modules |-> vesc[m].mode] = [m \in Modules |-> DISABLED]
    BY DEF Init
  <1>6. hw \notin {"aborted", "finalized"}
    BY DEF Init
  <1> QED BY <1>3, <1>4, <1>5, <1>6 DEF Wheel!Init

(* What the driver does to one wheel, and what it leaves alone.            *)
LEMMA GivenBy ==
  ASSUME NEW w \in Modules, NEW n \in 0 .. 3, NEW k \in 0 .. Len(OnItsWay[w]) + 3,
         n = 0 => Latest'[w] = Latest[w],
         OnItsWay'[w] = Wheel!Overrun(OnItsWay[w] \o Fresh(n, Latest'[w]), k)
  PROVE  Wheel!Given(w)
  BY DEF Wheel!Given, Latest, Fresh

LEMMA SenderBy ==
  ASSUME TypeOK', UNCHANGED vesc, ~Gone
  PROVE  Wheel!Sender
  <1>1. Latest' \in [Modules -> Number]
    <2>1. measured' \in [Modules -> Number]
      BY DEF TypeOK
    <2>2. Latest' = [m \in Modules |-> Setpoint(m, measured'[m])]
      BY DEF Latest
    <2> QED BY <2>1, <2>2, SetpointType
  <1>2. DOMAIN OnItsWay' = Modules
    BY DEF OnItsWay
  <1>3. [m \in Modules |-> vesc[m].mode]' = [m \in Modules |-> vesc[m].mode]
    OBVIOUS
  <1> QED BY <1>1, <1>2, <1>3 DEF Wheel!Sender, Latest, Gone

LEMMA QueueDropped ==
  ASSUME TypeOK, NEW m \in Modules, UNCHANGED vesc, inbox'[m] = inbox[m], queue'[m] = << >>
  PROVE  Wheel!Dropped(m)
  <1> DEFINE hb == InHand(vesc[m]) \o inbox[m]
  <1>1. hb \in Seq(Number) /\ queue[m] \in Seq(Number) /\ OnItsWay[m] = hb \o queue[m]
    BY WayType
  <1>2. OnItsWay'[m] = hb \o << >>
    BY DEF OnItsWay
  <1> HIDE DEF hb
  <1>3. OnItsWay'[m] = SubSeq(OnItsWay[m], 1, Len(hb))
    BY <1>1, <1>2, PrefixOfConcat, ConcatEmptySeq
  <1>4. Len(hb) \in 0 .. Len(OnItsWay[m])
    <2>1. Len(hb \o queue[m]) = Len(hb) + Len(queue[m]) /\ Len(hb) \in Nat /\ Len(queue[m]) \in Nat
      BY <1>1, ConcatProperties, LenProperties
    <2> QED BY <1>1, <2>1
  <1> QED BY <1>3, <1>4 DEF Wheel!Dropped

(* A read or write that flushes: n setpoints are new to every wheel.       *)
LEMMA FlushGives ==
  ASSUME IInv, TypeOK', Cycled, UNCHANGED vesc, NEW n \in 0 .. 1, NEW published,
         n = 0 => Latest' = Latest,
         \A m \in Modules : published[m] = queue[m] \o Fresh(n, Latest'[m]),
         Flushed(published) \/ Aborted(published)
  PROVE  Wheel!Next
  <1>1. Wheel!Sender
    BY SenderBy DEF Cycled, Gone
  <1>2. ASSUME NEW m \in Modules, queue'[m] = << >>,
               inbox'[m] = Stored(inbox[m], published[m])
        PROVE  Wheel!Given(m)
    <2> DEFINE h == InHand(vesc[m])
               b == inbox[m]
               q == queue[m]
               f == Fresh(n, Latest'[m])
    <2>1. h \in Seq(Number) /\ b \in Seq(Number) /\ q \in Seq(Number)
      BY WayType DEF IInv
    <2>2. f \in Seq(Number) /\ Len(f) = n
      <3>1. Latest'[m] \in Number
        BY SetpointType DEF TypeOK, Latest
      <3> QED BY <3>1 DEF Fresh
    <2>3. OnItsWay[m] = h \o b \o q
      BY DEF OnItsWay
    <2>4. OnItsWay'[m] = h \o Stored(b, q \o f) \o << >>
      BY <1>2 DEF OnItsWay
    <2> HIDE DEF h, b, q, f
    <2>5. PICK k \in 0 .. Len(h \o b \o q) + Len(f) :
            h \o Stored(b, q \o f) \o << >> = Wheel!Overrun(h \o b \o q \o f, k)
      <3>1. KeptOf(h, b, q, f)
        BY <2>1, <2>2, FlushWay
      <3> QED BY <3>1 DEF KeptOf
    <2>6. OnItsWay'[m] = Wheel!Overrun(OnItsWay[m] \o Fresh(n, Latest'[m]), k)
      BY <2>3, <2>4, <2>5 DEF f
    <2>7. k \in 0 .. Len(OnItsWay[m]) + 3 /\ n \in 0 .. 3
      <3> DEFINE len == Len(OnItsWay[m])
      <3>1. len \in Nat
        BY WayType DEF IInv
      <3>2. k \in 0 .. len + n
        BY <2>2, <2>3, <2>5
      <3> HIDE DEF len
      <3>3. k \in 0 .. len + 3 /\ n \in 0 .. 3
        BY <3>1, <3>2
      <3> QED BY <3>3 DEF len
    <2> QED BY <2>6, <2>7, GivenBy
  <1>3. CASE Flushed(published)
    <2>1. \A m \in Modules : Wheel!Given(m)
      BY <1>2, <1>3 DEF Flushed
    <2>2. hw' \notin {"aborted", "finalized"}
      BY <1>3 DEF Flushed, Cycled
    <2> QED BY <1>1, <2>1, <2>2 DEF Wheel!Give, Wheel!Next
  <1>4. CASE Aborted(published)
    <2>1. ASSUME NEW m \in Modules PROVE Wheel!Given(m) \/ Wheel!Dropped(m)
      <3>1. \/ inbox'[m] = Stored(inbox[m], published[m])
            \/ inbox'[m] = inbox[m]
        BY <1>4 DEF Aborted
      <3>2. queue'[m] = << >>
        BY <1>4 DEF Aborted
      <3>3. ASSUME inbox'[m] = inbox[m] PROVE Wheel!Dropped(m)
        BY <3>2, <3>3, QueueDropped DEF IInv
      <3> QED BY <1>2, <3>1, <3>2, <3>3
    <2>2. hw' \in {"aborted", "finalized"}
      BY <1>4 DEF Aborted
    <2> QED BY <1>1, <2>1, <2>2 DEF Wheel!End, Wheel!Next
  <1> QED BY <1>3, <1>4

LEMMA CycleMoves ==
  ASSUME IInv, TypeOK', NEW ok \in BOOLEAN, Read(ok) \/ Write(ok)
  PROVE  Wheel!Next \/ UNCHANGED Wheel!vars
  <1>1. CASE Read(ok) /\ Cycled
    <2>1. /\ Flushed(queue) \/ Aborted(queue)
          /\ UNCHANGED <<measured, vesc>>
      BY <1>1 DEF Read, Flush
    <2>2. Latest' = Latest
      BY <2>1 DEF Latest
    <2>3. \A m \in Modules : queue[m] = queue[m] \o Fresh(0, Latest'[m])
      BY FreshTuples, ConcatEmptySeq DEF IInv, TypeOK
    <2>4. 0 \in 0 .. 1
      OBVIOUS
    <2> QED BY <1>1, <2>1, <2>2, <2>3, <2>4, FlushGives
  <1>2. CASE Write(ok) /\ Cycled
    <2>1. /\ Flushed(Published) \/ Aborted(Published)
          /\ measured' = [m \in Modules |-> Limited(velocity[m])]
          /\ UNCHANGED vesc
      BY <1>2 DEF Write, Flush
    <2>2. ASSUME NEW m \in Modules
          PROVE  Published[m] = queue[m] \o Fresh(1, Latest'[m])
      <3>1. Published[m] = Append(queue[m], Latest'[m])
        BY <2>1 DEF Published, Latest
      <3>2. Latest'[m] \in Number /\ queue[m] \in Seq(Number)
        BY SetpointType DEF IInv, TypeOK, Latest
      <3> QED BY <3>1, <3>2, FreshTuples, AppendIsConcat
    <2>3. 1 \in 0 .. 1 /\ 1 # 0
      OBVIOUS
    <2> QED BY <1>2, <2>1, <2>2, <2>3, FlushGives
  <1>3. CASE ~Cycled
    BY <1>3 DEF Read, Write, Wheel!vars, OnItsWay
  <1> QED BY <1>1, <1>2, <1>3

LEMMA TransitionMoves ==
  ASSUME IInv, TypeOK', Configure \/ Cleanup \/ Activate \/ Deactivate \/ Shutdown
  PROVE  Wheel!Next \/ UNCHANGED Wheel!vars
  <1>1. CASE Configure \/ Cleanup \/ Activate
    <2>1. UNCHANGED <<measured, queue, inbox, vesc>> /\ Gone' = Gone
      BY <1>1 DEF Configure, Cleanup, Activate, DriverTo, nodes, Gone
    <2> QED BY <2>1 DEF Wheel!vars, OnItsWay, Gone
  <1>2. CASE Deactivate
    <2>1. /\ UNCHANGED <<inbox, vesc>> /\ ~Gone /\ ~Gone'
          /\ queue' = [m \in Modules |-> queue[m] \o <<0, 0, 0>>]
          /\ measured' = [m \in Modules |-> 0]
      BY <1>2 DEF Deactivate, DriverTo, nodes, Gone
    <2>2. ASSUME NEW m \in Modules PROVE Wheel!Given(m)
      <3> DEFINE z == <<0, 0, 0>>
                 all == OnItsWay[m] \o z
                 len == Len(OnItsWay[m])
      <3>1. Latest'[m] = 0
        BY <2>1, SetpointZero DEF Latest
      <3>2. Fresh(3, Latest'[m]) = z
        BY <3>1, FreshTuples
      <3>3. OnItsWay'[m] = InHand(vesc[m]) \o inbox[m] \o (queue[m] \o z)
        BY <2>1 DEF OnItsWay
      <3>4. z \in Seq(Number) /\ Len(z) = 3
        BY DEF Number
      <3> HIDE DEF z
      <3>5. OnItsWay'[m] = all
        <4> DEFINE h == InHand(vesc[m])
                   b == inbox[m]
                   q == queue[m]
        <4>1. h \in Seq(Number) /\ b \in Seq(Number) /\ q \in Seq(Number)
          BY WayType DEF IInv
        <4>2. OnItsWay[m] = h \o b \o q /\ OnItsWay'[m] = h \o b \o (q \o z)
          BY <3>3 DEF OnItsWay
        <4> HIDE DEF h, b, q
        <4>3. h \o b \o q \o z = h \o b \o (q \o z)
          BY <3>4, <4>1, SMT
        <4> QED BY <4>2, <4>3
      <3>6. Len(all) = len + 3 /\ len \in Nat
        <4> DEFINE w == OnItsWay[m]
        <4>1. w \in Seq(Number)
          BY WayType DEF IInv
        <4> HIDE DEF w
        <4>2. Len(w \o z) = Len(w) + Len(z) /\ Len(w) \in Nat
          BY <3>4, <4>1, ConcatProperties, LenProperties
        <4> QED BY <3>4, <4>2 DEF w
      <3> HIDE DEF all
      <3>7. OnItsWay'[m] = Wheel!Overrun(all, len + 3)
        BY <3>5, <3>6 DEF Wheel!Overrun
      <3>8. len + 3 \in 0 .. len + 3 /\ 3 \in 0 .. 3 /\ 3 # 0
        BY <3>6
      <3> QED BY <3>2, <3>7, <3>8, GivenBy DEF all
    <2>3. Wheel!Sender
      BY <2>1, SenderBy
    <2> QED BY <2>1, <2>2, <2>3 DEF Wheel!Give, Wheel!Next, Gone
  <1>3. CASE Shutdown
    <2>1. /\ UNCHANGED <<inbox, vesc>> /\ ~Gone /\ Gone'
          /\ queue' = [m \in Modules |-> << >>]
      BY <1>3 DEF Shutdown, DriverTo, nodes, Gone
    <2>2. \A m \in Modules : Wheel!Dropped(m)
      BY <2>1, QueueDropped DEF IInv
    <2>3. Wheel!Sender
      BY <2>1, SenderBy
    <2> QED BY <2>1, <2>2, <2>3 DEF Wheel!End, Wheel!Next, Gone
  <1> QED BY <1>1, <1>2, <1>3

(* A step of one VESC, seen from the wheels.                               *)
LEMMA OneWay ==
  ASSUME NEW n \in Modules, UNCHANGED queue,
         \A m \in Modules \ {n} : vesc'[m] = vesc[m] /\ inbox'[m] = inbox[m]
  PROVE  OnItsWay' = [OnItsWay EXCEPT ![n] = InHand(vesc'[n]) \o inbox'[n] \o queue[n]]
  BY DEF OnItsWay

LEMMA VescMoves ==
  ASSUME IInv, NEW n \in Modules, Vesc(n)
  PROVE  Wheel!Next \/ UNCHANGED Wheel!vars
  <1> DEFINE h == InHand(vesc[n])
             b == inbox[n]
             q == queue[n]
             new == InHand(vesc'[n]) \o inbox'[n] \o q
  <1>1. /\ h \in Seq(Number) /\ b \in Seq(Number) /\ q \in Seq(Number)
        /\ h \o b \in Seq(Number)
        /\ OnItsWay[n] = h \o b \o q
        /\ vesc[n].msg \in Number
    BY WayType DEF IInv, TypeOK, Node
  <1>2. UNCHANGED <<queue, measured, hw>>
    BY DEF Vesc, HandleMessage, SetMode, Panic, Commutate, PowerCycle, driver
  <1>3. \A m \in Modules \ {n} : vesc'[m] = vesc[m] /\ inbox'[m] = inbox[m]
    BY DEF Vesc, HandleMessage, SetMode, Panic, Commutate, PowerCycle, IInv, TypeOK
  <1>4. OnItsWay' = [OnItsWay EXCEPT ![n] = new]
    BY <1>2, <1>3, OneWay
  <1>5. \A x : vesc'[n].mode = x => InForce' = [InForce EXCEPT ![n] = x]
    BY <1>3 DEF InForce
  <1>6. ASSUME new = h \o b \o q, vesc'[n].mode = vesc[n].mode
        PROVE  UNCHANGED Wheel!vars
    <2>1. OnItsWay' = OnItsWay
      BY <1>1, <1>4, <1>6 DEF OnItsWay
    <2>2. InForce' = InForce
      BY <1>3, <1>6 DEF InForce
    <2> QED BY <1>2, <2>1, <2>2 DEF Wheel!vars, InForce
  <1>7. CASE HandleMessage(n)
    <2>1. /\ h = << >> /\ b # << >> /\ InHand(vesc'[n]) = <<Head(b)>>
          /\ inbox'[n] = Tail(b) /\ vesc'[n].mode = vesc[n].mode
      BY <1>7 DEF HandleMessage, InHand, IInv, TypeOK, Node
    <2>2. <<Head(b)>> \o Tail(b) = << >> \o b
      BY <1>1, <2>1
    <2> QED BY <1>6, <2>1, <2>2
  <1>8. CASE SetMode(n)
    <2>1. /\ h = <<vesc[n].msg>> /\ vesc[n].msg # NaN /\ InHand(vesc'[n]) = << >>
          /\ inbox'[n] = b /\ vesc'[n].mode = ControlMode(vesc[n].msg)
      BY <1>8 DEF SetMode, InHand, IInv, TypeOK, Node
    <2>2. /\ OnItsWay[n] # << >> /\ Head(OnItsWay[n]) = vesc[n].msg
          /\ Tail(OnItsWay[n]) = new
      <3>1. h \o b \o q = <<vesc[n].msg>> \o (b \o q)
        <4> HIDE DEF h, b, q
        <4>1. h \o b \o q = h \o (b \o q)
          BY <1>1, SMT
        <4> QED BY <2>1, <4>1
      <3>2. new = b \o q
        BY <1>1, <2>1, SMT
      <3>3. b \o q \in Seq(Number)
        BY <1>1, ConcatProperties
      <3> DEFINE v == vesc[n].msg
                 bq == b \o q
      <3> HIDE DEF v, bq
      <3>4. <<v>> \o bq # << >> /\ Head(<<v>> \o bq) = v /\ Tail(<<v>> \o bq) = bq
        <4>1. v \in Number /\ bq \in Seq(Number)
          BY <1>1, <3>3 DEF v, bq
        <4>2. <<v>> \o bq # << >>
          BY <4>1, SMT
        <4>3. Head(<<v>> \o bq) = v
          BY <4>1, SMT
        <4>4. Tail(<<v>> \o bq) = bq
          BY <4>1, SMT
        <4> QED BY <4>2, <4>3, <4>4
      <3> HIDE DEF h, b, q, new
      <3>5. OnItsWay[n] = <<v>> \o bq /\ new = bq
        BY <1>1, <3>1, <3>2 DEF v, bq
      <3> QED BY <3>4, <3>5, Zenon DEF v
    <2> HIDE DEF new
    <2>3. Wheel!Obey(n)
      BY <1>2, <1>4, <1>5, <2>1, <2>2 DEF Wheel!Obey, InForce
    <2> QED BY <2>3 DEF Wheel!Next
  <1>9. CASE Panic(n)
    <2>1. /\ InHand(vesc'[n]) = h /\ inbox'[n] = b /\ vesc'[n].mode = vesc[n].mode
      BY <1>9 DEF Panic, InHand, IInv, TypeOK, Node
    <2> QED BY <1>6, <2>1
  <1>10. CASE Commutate(n)
    BY <1>6, <1>10 DEF Commutate
  <1>11. CASE PowerCycle(n)
    <2>1. /\ InHand(vesc'[n]) = << >> /\ inbox'[n] = << >> /\ vesc'[n].mode = DISABLED
      BY <1>11 DEF PowerCycle, InHand, IInv, TypeOK, Node
    <2>2. new = q
      BY <1>1, <2>1, SMT
    <2> DEFINE k == Len(h \o b) + 1
    <2>3. new = SubSeq(OnItsWay[n], k, Len(OnItsWay[n]))
      BY <1>1, <2>2, SuffixOfConcat
    <2>4. k \in 1 .. Len(OnItsWay[n]) + 1
      <3> DEFINE hb == h \o b
      <3> HIDE DEF h, b, q, hb
      <3>1. Len(hb \o q) = Len(hb) + Len(q) /\ Len(hb) \in Nat /\ Len(q) \in Nat
        BY <1>1, ConcatProperties, LenProperties DEF hb
      <3>2. OnItsWay[n] = hb \o q
        BY <1>1 DEF hb
      <3> QED BY <3>1, <3>2 DEF hb
    <2> HIDE DEF new, k
    <2>5. Wheel!Reset(n)
      BY <1>2, <1>4, <1>5, <2>1, <2>3, <2>4 DEF Wheel!Reset, InForce
    <2> QED BY <2>5 DEF Wheel!Next
  <1> QED BY <1>7, <1>8, <1>9, <1>10, <1>11 DEF Vesc

LEMMA WheelStep == IInv /\ TypeOK' /\ [Next]_vars => [Wheel!Next]_(Wheel!vars)
  <1> SUFFICES ASSUME IInv, TypeOK', [Next]_vars PROVE Wheel!Next \/ UNCHANGED Wheel!vars
    OBVIOUS
  <1>1. ASSUME UNCHANGED <<hw, measured, queue, inbox, vesc>> PROVE UNCHANGED Wheel!vars
    BY <1>1 DEF Wheel!vars, OnItsWay
  <1>2. CASE \E t \in Twists : Receive(t)
    BY <1>1, <1>2 DEF Receive, driver, nodes
  <1>3. CASE \E got \in BOOLEAN, ok \in [Modules -> 0..2] : Update(got, ok)
    BY <1>1, <1>3 DEF Update, driver, nodes
  <1>4. CASE on_configure \/ on_activate \/ on_deactivate \/ on_cleanup
    BY <1>1, <1>4 DEF on_configure, on_activate, on_deactivate, on_cleanup, ControllerTo,
      driver, nodes
  <1>5. CASE \E ok \in BOOLEAN : Read(ok) \/ Write(ok)
    BY <1>5, CycleMoves
  <1>6. CASE Configure \/ Cleanup \/ Activate \/ Deactivate \/ Shutdown
    BY <1>6, TransitionMoves
  <1>7. CASE \E m \in Modules : Vesc(m)
    BY <1>7, VescMoves
  <1>8. CASE UNCHANGED vars
    BY <1>1, <1>8 DEF vars, driver, nodes
  <1> QED BY <1>2, <1>3, <1>4, <1>5, <1>6, <1>7, <1>8 DEF Next, ControllerManager

(* The driver, the CAN peripherals and the VESCs hand every wheel its      *)
(* setpoints as one queue does: whatever overruns, panics and restarts     *)
(* lose, none overtakes another and none is obeyed that was not given.     *)
THEOREM ImplementsQueue == Spec => WheelSpec
  <1>1. IInv => TypeOK
    BY DEF IInv
  <1> QED
    BY <1>1, WheelInit, WheelStep, RosInvariance, PTL DEF Spec, WheelSpec, Wheel!Spec

----------------------------------------------------------------------------
(* What the queue of a wheel is good for, resets included.                 *)

(* The newest word of a queue w to a wheel in mode x is v.                 *)
Ends(w, v, x) ==
  IF w = << >> THEN x \in {DISABLED, ControlMode(v)} ELSE w[Len(w)] = v

(* What is on the way to a wheel ends with the velocity that the driver    *)
(* reports of it; when nothing is, the wheel is in the mode that velocity  *)
(* stands for, or a reset has disabled it.                                 *)
NewestKept == ~Gone => \A m \in Modules : Ends(OnItsWay[m], Latest[m], InForce[m])

LEMMA OverrunLast ==
  ASSUME NEW S, NEW s \in Seq(S), NEW k \in Nat
  PROVE  /\ Wheel!Overrun(s, k) \in Seq(S)
         /\ Wheel!Overrun(s, k) = << >> <=> s = << >>
         /\ s # << >> => Wheel!Overrun(s, k)[Len(Wheel!Overrun(s, k))] = s[Len(s)]
  <1>1. CASE k < Len(s)
    <2> DEFINE a == SubSeq(s, 1, k)
               e == s[Len(s)]
    <2>1. Len(s) \in Nat /\ \A i \in 1 .. k : s[i] \in S
      BY <1>1, ElementOfSeq, LenProperties
    <2>2. a \in Seq(S)
      BY <2>1, SubSeqProperties
    <2>3. e \in S /\ s # << >>
      BY <1>1, <2>1, ElementOfSeq
    <2>4. Wheel!Overrun(s, k) = Append(a, e)
      BY <1>1 DEF Wheel!Overrun
    <2> HIDE DEF a
    <2>5. /\ Append(a, e) \in Seq(S) /\ Append(a, e) # << >>
          /\ Append(a, e)[Len(Append(a, e))] = e
      BY <2>2, <2>3, AppendProperties
    <2> QED BY <2>3, <2>4, <2>5
  <1>2. CASE ~(k < Len(s))
    BY <1>2 DEF Wheel!Overrun
  <1> QED BY <1>1, <1>2

(* What the sender gives becomes the newest word.                          *)
LEMMA GivenEnds ==
  ASSUME NEW m \in Modules, OnItsWay[m] \in Seq(Number), Latest'[m] \in Number,
         Wheel!Given(m)
  PROVE  /\ OnItsWay'[m] \in Seq(Number)
         /\ \A x : Ends(OnItsWay[m], Latest[m], x) => Ends(OnItsWay'[m], Latest'[m], x)
  <1> DEFINE w == OnItsWay[m]
             v == Latest'[m]
  <1>1. PICK n \in 0 .. 3, k \in 0 .. Len(w) + 3 :
          /\ n = 0 => v = Latest[m]
          /\ OnItsWay'[m] = Wheel!Overrun(w \o Fresh(n, v), k)
    BY DEF Wheel!Given, Latest, Fresh
  <1> HIDE DEF w, v
  <1>2. w \in Seq(Number) /\ v \in Number /\ k \in Nat
    BY DEF w, v
  <1> DEFINE f == Fresh(n, v)
             s == w \o f
  <1>3. f \in Seq(Number) /\ Len(f) = n /\ (n # 0 => f[n] = v)
    BY <1>2 DEF Fresh
  <1> HIDE DEF f
  <1>4. s \in Seq(Number)
    BY <1>2, <1>3, ConcatProperties
  <1>5. n = 0 => s = w
    BY <1>2, <1>3, EmptySeq, ConcatEmptySeq
  <1>6. n # 0 => s # << >> /\ s[Len(s)] = v
    <2> SUFFICES ASSUME n # 0 PROVE s # << >> /\ s[Len(s)] = v
      OBVIOUS
    <2>1. f # << >>
      BY <1>3, EmptySeq
    <2> QED BY <1>2, <1>3, <2>1, LastOfConcat, ConcatEqualIffEmpty
  <1> HIDE DEF s
  <1>7. OnItsWay'[m] = Wheel!Overrun(s, k)
    BY <1>1 DEF s, f
  <1> DEFINE o == Wheel!Overrun(s, k)
  <1>8. /\ o \in Seq(Number) /\ (o = << >> <=> s = << >>)
        /\ s # << >> => o[Len(o)] = s[Len(s)]
    BY <1>2, <1>4, OverrunLast
  <1> HIDE DEF o
  <1>9. CASE n = 0
    BY <1>1, <1>5, <1>7, <1>8, <1>9 DEF Ends, w, v, o
  <1>10. CASE n # 0
    BY <1>6, <1>7, <1>8, <1>10 DEF Ends, v, o
  <1> QED BY <1>9, <1>10

(* The wheel takes from the other end.                                     *)
LEMMA TakenEnds ==
  ASSUME NEW w \in Seq(Number), NEW v, NEW x, Ends(w, v, x)
  PROVE  /\ w # << >> => Tail(w) \in Seq(Number) /\ Ends(Tail(w), v, ControlMode(Head(w)))
         /\ \A k \in 1 .. Len(w) + 1 : /\ SubSeq(w, k, Len(w)) \in Seq(Number)
                                       /\ Ends(SubSeq(w, k, Len(w)), v, DISABLED)
  <1>1. ASSUME w # << >>
        PROVE  Tail(w) \in Seq(Number) /\ Ends(Tail(w), v, ControlMode(Head(w)))
    <2>1. Tail(w) \in Seq(Number)
      BY <1>1, HeadTailProperties
    <2>2. /\ Tail(w) # << >> => Tail(w)[Len(Tail(w))] = w[Len(w)]
          /\ Tail(w) = << >> => Head(w) = w[Len(w)]
      BY <1>1, TailLast
    <2>3. w[Len(w)] = v
      BY <1>1 DEF Ends
    <2> QED BY <2>1, <2>2, <2>3, Zenon DEF Ends
  <1>2. ASSUME NEW k \in 1 .. Len(w) + 1
        PROVE  SubSeq(w, k, Len(w)) \in Seq(Number) /\ Ends(SubSeq(w, k, Len(w)), v, DISABLED)
    <2> DEFINE t == SubSeq(w, k, Len(w))
    <2>1. Len(w) \in Nat /\ k \in Int /\ \A i \in k .. Len(w) : w[i] \in Number
      BY LenProperties, ElementOfSeq
    <2>2. /\ t \in Seq(Number) /\ Len(t) = (IF k <= Len(w) THEN Len(w) - k + 1 ELSE 0)
          /\ \A i \in 1 .. Len(w) - k + 1 : t[i] = w[k + i - 1]
      BY <2>1, SubSeqProperties
    <2> HIDE DEF t
    <2>3. CASE k <= Len(w)
      <3>1. Len(t) = Len(w) - k + 1 /\ Len(t) \in 1 .. Len(w) - k + 1
        BY <2>1, <2>2, <2>3
      <3>2. t[Len(t)] = w[Len(w)]
        BY <2>1, <2>2, <3>1
      <3>3. w # << >> /\ t # << >>
        BY <2>1, <2>3, <3>1
      <3> QED BY <2>2, <3>2, <3>3 DEF Ends, t
    <2>4. CASE ~(k <= Len(w))
      <3>1. t = << >>
        BY <2>2, <2>4, EmptySeq
      <3> QED BY <2>2, <3>1 DEF Ends, t
    <2> QED BY <2>3, <2>4
  <1> QED BY <1>1, <1>2

(* Whatever hands a wheel its setpoints as SetpointQueue does never loses  *)
(* the newest one, unless it is gone or the wheel is reset: the wheel ends *)
(* up in the mode that the driver reports, or disabled by the reset.       *)
THEOREM QueueKeepsNewest == WheelSpec => []NewestKept
  <1> DEFINE J == /\ \A m \in Modules : OnItsWay[m] \in Seq(Number)
                  /\ NewestKept
  <1>1. Wheel!Init => J
    <2> SUFFICES ASSUME Wheel!Init, NEW m \in Modules
                 PROVE  OnItsWay[m] \in Seq(Number) /\ Ends(OnItsWay[m], Latest[m], InForce[m])
      BY DEF NewestKept
    <2>1. Latest[m] = 0 /\ OnItsWay[m] = Fresh(3, 0)
      BY DEF Wheel!Init, Latest, Fresh
    <2>2. Fresh(3, 0) = <<0, 0, 0>> /\ <<0, 0, 0>> \in Seq(Number)
      BY FreshTuples DEF Number
    <2>3. Ends(<<0, 0, 0>>, 0, InForce[m])
      BY DEF Ends
    <2> QED BY <2>1, <2>2, <2>3
  <1>2. J /\ [Wheel!Next]_(Wheel!vars) => J'
    <2> SUFFICES ASSUME J, [Wheel!Next]_(Wheel!vars), NEW m \in Modules
                 PROVE  /\ OnItsWay'[m] \in Seq(Number)
                        /\ ~Gone' => Ends(OnItsWay'[m], Latest'[m], InForce'[m])
      BY DEF NewestKept
    <2>0. OnItsWay[m] \in Seq(Number) /\ (~Gone => Ends(OnItsWay[m], Latest[m], InForce[m]))
      BY DEF NewestKept
    <2>1. CASE UNCHANGED Wheel!vars
      BY <2>0, <2>1 DEF Wheel!vars, Latest, InForce, Gone
    <2>2. CASE Wheel!Give \/ Wheel!End
      <3>1. /\ ~Gone /\ Latest' \in [Modules -> Number] /\ InForce' = InForce
            /\ Wheel!Given(m) \/ (Wheel!Dropped(m) /\ Gone')
        BY <2>2 DEF Wheel!Give, Wheel!End, Wheel!Sender, Latest, InForce, Gone
      <3>2. CASE Wheel!Given(m)
        <4>1. Latest'[m] \in Number
          BY <3>1
        <4> QED BY <2>0, <3>1, <3>2, <4>1, GivenEnds
      <3>3. CASE Wheel!Dropped(m) /\ Gone'
        <4>1. PICK k \in 0 .. Len(OnItsWay[m]) : OnItsWay'[m] = SubSeq(OnItsWay[m], 1, k)
          BY <3>3 DEF Wheel!Dropped
        <4>2. Len(OnItsWay[m]) \in Nat /\ \A i \in 1 .. k : OnItsWay[m][i] \in Number
          BY <2>0, ElementOfSeq, LenProperties
        <4> QED BY <3>3, <4>1, <4>2, SubSeqProperties
      <3> QED BY <3>1, <3>2, <3>3
    <2>3. ASSUME NEW n \in Modules, Wheel!Obey(n) \/ Wheel!Reset(n)
          PROVE  /\ OnItsWay'[m] \in Seq(Number)
                 /\ ~Gone' => Ends(OnItsWay'[m], Latest'[m], InForce'[m])
      <3>1. Latest' = Latest /\ Gone' = Gone
        BY <2>3 DEF Wheel!Obey, Wheel!Reset, Latest, Gone
      <3>2. CASE m # n
        <4>1. OnItsWay'[m] = OnItsWay[m] /\ InForce'[m] = InForce[m]
          BY <2>3, <3>2 DEF Wheel!Obey, Wheel!Reset, InForce, OnItsWay
        <4> QED BY <2>0, <3>1, <4>1
      <3>3. CASE m = n /\ Wheel!Obey(n)
        <4>1. /\ OnItsWay[m] # << >> /\ OnItsWay'[m] = Tail(OnItsWay[m])
              /\ InForce'[m] = ControlMode(Head(OnItsWay[m]))
          BY <3>3 DEF Wheel!Obey, InForce, OnItsWay
        <4>2. Tail(OnItsWay[m]) \in Seq(Number)
          BY <2>0, <4>1, HeadTailProperties
        <4> QED BY <2>0, <3>1, <4>1, <4>2, TakenEnds
      <3>4. CASE m = n /\ Wheel!Reset(n)
        <4>1. PICK k \in 1 .. Len(OnItsWay[m]) + 1 :
                OnItsWay'[m] = SubSeq(OnItsWay[m], k, Len(OnItsWay[m]))
          BY <3>4 DEF Wheel!Reset, OnItsWay
        <4>2. InForce'[m] = DISABLED
          BY <3>4 DEF Wheel!Reset, InForce
        <4>3. OnItsWay'[m] \in Seq(Number)
          <5>1. \A i \in k .. Len(OnItsWay[m]) : OnItsWay[m][i] \in Number
            BY <2>0, ElementOfSeq
          <5>2. k \in Int /\ Len(OnItsWay[m]) \in Int
            BY <2>0, LenProperties
          <5> QED BY <4>1, <5>1, <5>2, SubSeqProperties
        <4> QED BY <2>0, <3>1, <4>1, <4>2, <4>3, TakenEnds
      <3> QED BY <2>3, <3>2, <3>3, <3>4
    <2> QED BY <2>1, <2>2, <2>3 DEF Wheel!Next
  <1>3. J => NewestKept
    OBVIOUS
  <1> QED BY <1>1, <1>2, <1>3, PTL DEF WheelSpec, Wheel!Spec
=============================================================================
