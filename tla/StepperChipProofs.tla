-------------------------- MODULE StepperChipProofs ---------------------------
(***************************************************************************)
(* Proofs about StepperNode and its chips: a wheel at rest stays where it  *)
(* is when the node restarts, a chip is driven with the last setpoint for  *)
(* it, and the health that a heartbeat tells is the truth about a scan of  *)
(* chips that change while it goes on.                                     *)
(***************************************************************************)
EXTENDS StepperNodeProofs, FiniteSetTheorems

-----------------------------------------------------------------------------
(* Wheels at rest                                                          *)

(* The chip of wheel c is being configured: it has been put on hold.       *)
Window(c) ==
  pc = "config" /\ firmware = "drivebase" /\ configured \div 4 = c /\ configured % 4 >= 1

(* A chip is on hold at no other time.  A chip whose wheel rested at the   *)
(* restart gives it no reason to turn: its position is its target, or it   *)
(* holds while the one and the other are made zero, unless it lost its     *)
(* supply and both are zero already.                                       *)
RestOf(c) ==
  /\ chip[c].mode = "hold" => Window(c)
  /\ resting[c] # {} =>
       /\ firmware = "drivebase" /\ chip[c].vel = 0 /\ resting[c] = {shaft[c]}
       /\ ~Window(c) => chip[c].xactual = chip[c].target["a"]
       /\ Window(c) =>
            /\ chip[c].mode = "hold" \/ (chip[c].xactual = 0 /\ chip[c].target["a"] = 0)
            /\ configured % 4 >= 2 => chip[c].xactual = 0
            /\ configured % 4 >= 3 => chip[c].target["a"] = 0
RestInv == resting \in [Channels -> SUBSET Int] /\ \A c \in Channels : RestOf(c)

(* Nothing changes for a wheel that its motion depends on.                 *)
LEMMA SameRest ==
  ASSUME TypeInv, firmware' = firmware, NEW c \in Channels, RestOf(c),
         configured' = configured /\ (pc' = "config" <=> pc = "config"),
         shaft'[c] = shaft[c], resting'[c] = resting[c],
         chip'[c].mode = chip[c].mode, chip'[c].vel = chip[c].vel,
         chip'[c].xactual = chip[c].xactual, chip'[c].target = chip[c].target
  PROVE  RestOf(c)'
  BY DEF RestOf, Window

(* Nothing changes for any wheel.                                          *)
LEMMA SameRests ==
  ASSUME TypeInv, RestInv, UNCHANGED <<firmware, configured, chip, shaft, resting>>,
         pc' = "config" <=> pc = "config"
  PROVE  RestInv'
  BY SameRest, SameBoard DEF RestInv

LEMMA InitRest == Init => RestInv
  <1>. SUFFICES ASSUME Init PROVE RestInv
    OBVIOUS
  <1>1. resting \in [Channels -> SUBSET Int]
    BY DEF Init
  <1>2. ASSUME NEW c \in Channels PROVE RestOf(c)
    <2>1. /\ chip[c] = PowerOnChip /\ shaft[c] = 0 /\ configured = 0 /\ pc = "config"
          /\ resting[c] # {} => firmware = "drivebase" /\ resting[c] = {0}
      BY DEF Init
    <2>2. configured % 4 = 0
      BY <2>1
    <2> QED
      BY <2>1, <2>2 DEF RestOf, Window, PowerOnChip, ZeroTarget
  <1> QED
    BY <1>1, <1>2 DEF RestInv

(* A restart.  Only the loop restarts by itself, and no chip is on hold    *)
(* while it runs.                                                          *)
LEMMA RebootRest ==
  ASSUME TypeInv, RestInv, Reboot,
         \/ chip' = chip /\ pc # "config"
         \/ chip' = [c \in Channels |-> PowerOnChip]
  PROVE  RestInv'
  <1>1. /\ firmware' = firmware /\ shaft' = shaft /\ pc' = "config" /\ configured' = 0
        /\ resting' = [c \in Channels |->
             IF firmware = "drivebase" /\ AtRest(chip[c]) THEN {shaft[c]} ELSE {}]
    BY DEF Reboot
  <1>2. Channels' = Channels /\ resting' \in [Channels -> SUBSET Int]
    BY <1>1, SameBoard DEF TypeInv, MotorType
  <1>3. ASSUME NEW c \in Channels PROVE RestOf(c)'
    <2>1. configured' % 4 = 0
      BY <1>1
    <2>2. /\ ~Window(c)' /\ shaft'[c] = shaft[c]
          /\ resting'[c] # {} => firmware = "drivebase" /\ AtRest(chip[c]) /\ resting'[c] = {shaft[c]}
      BY <1>1, <2>1 DEF Window
    <2>3. CASE chip' = chip /\ pc # "config"
      BY <1>1, <2>2, <2>3 DEF RestInv, RestOf, Window, AtRest
    <2>4. CASE chip' = [d \in Channels |-> PowerOnChip]
      <3>1. chip'[c] = PowerOnChip
        BY <2>4
      <3> QED
        BY <1>1, <2>2, <3>1 DEF RestOf, PowerOnChip, ZeroTarget
    <2> QED
      BY <2>3, <2>4
  <1> QED
    BY <1>2, <1>3 DEF RestInv

(* The four writes that begin with hold and end with position.             *)
LEMMA ConfigureRest == TypeInv /\ RestInv /\ Configure => RestInv'
  <1>. SUFFICES ASSUME TypeInv, RestInv, Configure PROVE RestInv'
    OBVIOUS
  <1>. DEFINE write == ConfigSeq(firmware)[configured + 1]
              w1 == write[1]
              w2 == write[2]
              last == configured + 1 = Len(ConfigSeq(firmware))
              d == ConfigWrite(chip[w1], w2)
  <1>1. /\ pc = "config"
        /\ chip' = [chip EXCEPT ![w1] = d]
        /\ configured' = IF last THEN 0 ELSE configured + 1
        /\ pc' = IF last THEN "receive" ELSE pc
        /\ UNCHANGED <<firmware, shaft, resting>>
    BY DEF Configure
  <1>2. /\ w1 \in Channels
        /\ w2 \in {"general", "hold", "xactual", "xtarget", "position"}
        /\ firmware = "drivebase" =>
             /\ last <=> configured + 1 = 4 * NumChannels[firmware]
             /\ w1 = configured \div 4 /\ w2 = Stages[(configured % 4) + 1]
        /\ firmware = "shovel" => w2 = "general"
    BY ConfigSteps DEF TypeInv
  <1>. HIDE DEF w1, w2, last, write
  <1>3. chip[w1] \in ChipType /\ chip \in [Channels -> ChipType]
    BY <1>2 DEF TypeInv, MotorType
  <1>4. /\ d \in ChipType /\ d.vel = chip[w1].vel
        /\ d.mode = IF w2 = "hold" THEN "hold" ELSE IF w2 = "position" THEN "position"
                    ELSE chip[w1].mode
        /\ d.xactual = IF w2 = "xactual" THEN 0 ELSE chip[w1].xactual
        /\ d.target = IF w2 = "xtarget" THEN [chip[w1].target EXCEPT !["a"] = 0] ELSE chip[w1].target
    BY <1>2, <1>3, ConfigWrites
  <1>. HIDE DEF d
  <1>5. chip'[w1] = d /\ \A c \in Channels : c # w1 => chip'[c] = chip[c]
    BY <1>1, <1>2, <1>3
  <1>6. configured \in Nat /\ firmware \in {"drivebase", "shovel"} /\ Channels' = Channels
    BY <1>1, Constants, SameBoard DEF TypeInv, LoopType
  <1>7. ASSUME firmware = "shovel", NEW c \in Channels PROVE RestOf(c)'
    BY <1>1, <1>2, <1>4, <1>5, <1>7 DEF RestInv, RestOf, Window
  <1>8. ASSUME firmware = "drivebase", NEW c \in Channels, c # w1 PROVE RestOf(c)'
    <2>1. ~Window(c)
      BY <1>2, <1>8 DEF Window
    <2>2. ~Window(c)'
      <3>1. c \in Int
        BY <1>6, Boards DEF TypeInv, LoopType
      <3>2. (configured + 1) % 4 >= 1 => (configured + 1) \div 4 = configured \div 4
        BY <1>6
      <3>3. 0 % 4 = 0
        OBVIOUS
      <3> QED
        BY <1>1, <1>2, <1>8, <3>2, <3>3 DEF Window
    <2> QED
      BY <1>1, <1>5, <1>8, <2>1, <2>2 DEF RestInv, RestOf
  <1>9. ASSUME firmware = "drivebase", NEW c \in Channels, c = w1 PROVE RestOf(c)'
    <2>. DEFINE k == configured % 4
    <2>1. k \in 0 .. 3
      BY <1>6
    <2>2. Window(c) <=> k >= 1
      BY <1>1, <1>2, <1>9 DEF Window
    <2>3. /\ k < 3 => ~last /\ (configured + 1) % 4 = k + 1 /\ (configured + 1) \div 4 = configured \div 4
          /\ k = 3 => (configured + 1) % 4 = 0
      <3>1. NumChannels[firmware] \in 2 .. 10
        BY Constants DEF TypeInv, LoopType
      <3> QED
        BY <1>2, <1>6, <1>9, <3>1
    <2>4. /\ k < 3 => configured' % 4 = k + 1 /\ Window(c)'
          /\ k = 3 => ~Window(c)'
      <3>1. 0 % 4 = 0
        OBVIOUS
      <3> QED
        BY <1>1, <1>2, <1>9, <2>1, <2>3, <3>1 DEF Window
    <2>5. /\ k = 0 => w2 = "hold"
          /\ k = 1 => w2 = "xactual"
          /\ k = 2 => w2 = "xtarget"
          /\ k = 3 => w2 = "position"
      BY <1>2, <1>9 DEF Stages
    <2>. HIDE DEF k
    <2>6. RestOf(c) /\ chip'[c] = d /\ shaft'[c] = shaft[c] /\ resting'[c] = resting[c]
      BY <1>1, <1>2, <1>5, <1>9 DEF RestInv
    <2>7. configured % 4 = k
      BY DEF k
    <2>8. w2 = "xtarget" => d.target["a"] = 0
      BY <1>3, <1>4 DEF ChipType
    <2>9. CASE k = 0
      BY <1>1, <1>4, <1>9, <2>2, <2>4, <2>5, <2>6, <2>7, <2>9 DEF RestOf
    <2>10. CASE k = 1
      BY <1>1, <1>4, <1>9, <2>2, <2>4, <2>5, <2>6, <2>7, <2>10 DEF RestOf
    <2>11. CASE k = 2
      <3>1. /\ d.xactual = chip[c].xactual /\ d.mode = chip[c].mode /\ d.vel = chip[c].vel
            /\ d.target["a"] = 0
        BY <1>4, <1>9, <2>5, <2>8, <2>11
      <3>2. Window(c) /\ Window(c)' /\ configured % 4 >= 2
        BY <2>2, <2>4, <2>7, <2>11
      <3> QED
        BY <1>1, <1>9, <2>6, <3>1, <3>2 DEF RestOf
    <2>12. CASE k = 3
      BY <1>1, <1>4, <1>9, <2>2, <2>4, <2>5, <2>6, <2>7, <2>12 DEF RestOf
    <2> QED
      BY <2>1, <2>9, <2>10, <2>11, <2>12
  <1>10. resting' \in [Channels' -> SUBSET Int]
    BY <1>1, <1>6 DEF RestInv
  <1> QED
    BY <1>6, <1>7, <1>8, <1>9, <1>10 DEF RestInv

LEMMA HandleMessageRest == TypeInv /\ RestInv /\ HandleMessage => RestInv'
  <1>. SUFFICES ASSUME TypeInv, RestInv, HandleMessage PROVE RestInv'
    OBVIOUS
  <1>1. PICK axis \in Axes(firmware), value \in Setpoints :
          /\ axis[1] \in Channels /\ SetTarget(axis, value)
          /\ resting' = [resting EXCEPT ![axis[1]] = {}]
          /\ pc = "receive" /\ pc' = "health" /\ UNCHANGED <<firmware, configured, shaft>>
    BY MessageHead
  <1>2. PICK d \in ChipType :
          /\ chip' = [chip EXCEPT ![axis[1]] = d]
          /\ d.mode = chip[axis[1]].mode
    BY <1>1, SetTargetChip
  <1>3. chip \in [Channels -> ChipType]
    BY DEF TypeInv, MotorType
  <1>4. ASSUME NEW c \in Channels PROVE RestOf(c)'
    <2>1. CASE c = axis[1]
      BY <1>1, <1>2, <1>3, <2>1 DEF RestInv, RestOf, Window
    <2>2. CASE c # axis[1]
      <3>1. chip'[c] = chip[c] /\ resting'[c] = resting[c]
        BY <1>1, <1>2, <1>3, <2>2 DEF RestInv
      <3> QED
        BY <1>1, <3>1, SameRest DEF RestInv
    <2> QED
      BY <2>1, <2>2
  <1> QED
    BY <1>1, <1>4, SameBoard DEF RestInv

LEMMA ScanRest == TypeInv /\ RestInv /\ Scan => RestInv'
  <1>. SUFFICES ASSUME TypeInv, RestInv, Scan PROVE RestInv'
    OBVIOUS
  <1>1. scan.chan \in Channels /\ scan.reg \in {"gstat", "drv_status"}
    BY DEF TypeInv, ScanType
  <1>2. /\ chip' = [chip EXCEPT ![scan.chan] = read_reg(chip[scan.chan], scan.reg).chip]
        /\ pc = "health" /\ pc' \in {"health", "heartbeat"}
        /\ UNCHANGED <<firmware, configured, shaft, resting>>
    BY DEF Scan, NextChannel, Report, ghosts
  <1>3. chip \in [Channels -> ChipType]
    BY DEF TypeInv, MotorType
  <1>4. read_reg(chip[scan.chan], scan.reg).chip = [chip[scan.chan] EXCEPT !.addr = "other"]
    BY <1>1, <1>3, ReadReg
  <1>5. ASSUME NEW c \in Channels PROVE RestOf(c)'
    <2>1. /\ chip'[c].mode = chip[c].mode /\ chip'[c].vel = chip[c].vel
          /\ chip'[c].xactual = chip[c].xactual /\ chip'[c].target = chip[c].target
      BY <1>1, <1>2, <1>3, <1>4 DEF ChipType
    <2> QED
      BY <1>2, <2>1, SameRest DEF RestInv
  <1> QED
    BY <1>2, <1>5, SameBoard DEF RestInv

(* A chip of a resting wheel does not turn, and no fault makes it turn.    *)
LEMMA MotorsRest ==
  ASSUME TypeInv, RestInv, NEW c \in Channels, Turn(c) \/ DriverFault(c) \/ Cool(c) \/ PowerLoss(c)
  PROVE  RestInv'
  <1>1. UNCHANGED <<firmware, configured, pc, resting>>
    BY DEF Turn, DriverFault, Cool, PowerLoss, node, ghosts
  <1>2. chip \in [Channels -> ChipType]
    BY DEF TypeInv, MotorType
  <1>3. ASSUME NEW e \in Channels PROVE RestOf(e)'
    <2>1. CASE Turn(c)
      <3>1. PICK ch \in ChipType :
              /\ chip' = [chip EXCEPT ![c] = ch] /\ ch.mode = chip[c].mode
              /\ \A d \in Channels : d # c => shaft'[d] = shaft[d]
        BY <2>1, Turned
      <3>2. CASE e # c
        BY <1>1, <1>2, <3>1, <3>2, SameRest DEF RestInv
      <3>3. CASE e = c
        <4>1. Speed(chip[c]) # 0 \/ chip[c].vel # 0
          BY <2>1 DEF Turn
        <4>2. resting[c] = {}
          <5>. SUFFICES ASSUME resting[c] # {} PROVE FALSE
            OBVIOUS
          <5>1. chip[c].vel = 0 /\ (chip[c].mode = "hold" \/ chip[c].xactual = chip[c].target["a"])
            BY DEF RestInv, RestOf
          <5>2. chip[c].xactual \in Int
            BY <1>2 DEF ChipType
          <5> QED
            BY <4>1, <5>1, <5>2 DEF Speed, Sign
        <4> QED
          BY <1>1, <1>2, <3>1, <3>3, <4>2 DEF RestInv, RestOf, Window
      <3> QED
        BY <3>2, <3>3
    <2>2. CASE DriverFault(c) \/ Cool(c)
      <3>1. PICK fl \in SUBSET (0 .. 10) : chip' = [chip EXCEPT ![c] = [chip[c] EXCEPT !.flags = fl]]
        BY <2>2, FlaggedChip
      <3>2. shaft' = shaft
        BY <2>2 DEF DriverFault, Cool
      <3>3. /\ chip'[e].mode = chip[e].mode /\ chip'[e].vel = chip[e].vel
            /\ chip'[e].xactual = chip[e].xactual /\ chip'[e].target = chip[e].target
        BY <1>2, <3>1 DEF ChipType
      <3> QED
        BY <1>1, <3>2, <3>3, SameRest DEF RestInv
    <2>3. CASE PowerLoss(c)
      <3>1. chip' = [chip EXCEPT ![c] = PowerOnChip] /\ shaft' = shaft
        BY <2>3 DEF PowerLoss
      <3>2. CASE e # c
        BY <1>1, <1>2, <3>1, <3>2, SameRest DEF RestInv
      <3>3. CASE e = c
        <4>1. chip'[e] = PowerOnChip
          BY <1>2, <3>1, <3>3
        <4> QED
          BY <1>1, <3>1, <4>1 DEF RestInv, RestOf, Window, PowerOnChip, ZeroTarget
      <3> QED
        BY <3>2, <3>3
    <2> QED
      BY <2>1, <2>2, <2>3
  <1> QED
    BY <1>1, <1>3, SameBoard DEF RestInv

LEMMA NextRest == TypeInv /\ RestInv /\ [Next]_vars => RestInv'
  <1>. SUFFICES ASSUME TypeInv, RestInv, [Next]_vars PROVE RestInv'
    OBVIOUS
  <1>1. CASE NoMessage \/ HandleOther \/ Heartbeat \/ NoHeartbeat
    <2>1. UNCHANGED <<firmware, configured, chip, shaft, resting>> /\ pc # "config" /\ pc' # "config"
      BY <1>1 DEF NoMessage, HandleOther, Heartbeat, NoHeartbeat, TurnBegins, Transmit, motors
    <2> QED
      BY <2>1, SameRests
  <1>2. CASE Tick \/ Sent \/ Deliver \/ BusOff \/ UNCHANGED vars
    <2>1. UNCHANGED <<firmware, configured, chip, shaft, resting, pc>>
      BY <1>2 DEF Tick, Sent, Deliver, BusOff, vars, node, motors, ghosts
    <2> QED
      BY <2>1, SameRests
  <1>3. CASE HandleRestart
    <2>1. Reboot /\ chip' = chip /\ pc # "config"
      BY <1>3 DEF HandleRestart, TurnBegins
    <2> QED
      BY <2>1, RebootRest
  <1>4. CASE PowerCycle
    <2>1. Reboot /\ chip' = [c \in Channels |-> PowerOnChip]
      BY <1>4 DEF PowerCycle
    <2> QED
      BY <2>1, RebootRest
  <1> QED
    BY <1>1, <1>2, <1>3, <1>4, ConfigureRest, HandleMessageRest, ScanRest, MotorsRest
    DEF Next, Processor

(* A wheel at rest when the node restarts, at the command of its own loop  *)
(* or with the supply of the board, stays where it is through every write  *)
(* of config_steppers, whatever chips fail meanwhile, for any number of    *)
(* wheels; and then until its next setpoint.                               *)
THEOREM Rests == Spec => []RestartStays
  <1>1. RestInv => RestartStays
    BY DEF RestInv, RestOf, RestartStays
  <1>2. Spec => []TypeInv
    BY InitType, NextType, PTL DEF Spec
  <1> QED
    BY <1>1, <1>2, InitRest, NextRest, PTL DEF Spec

-----------------------------------------------------------------------------
(* The last setpoint                                                       *)

(* A setpoint for an axis is waiting in the FIFO.                          *)
Pending(a) == \E i \in DOMAIN rx : rx[i].axis = a /\ rx[i].op = "setpoint"

Drive(s) == IF firmware = "drivebase" THEN AsSteps(s) ELSE AsDuty(s)

(* The last setpoint that waits for an axis is the last that the bus has   *)
(* brought for it.                                                         *)
QueueInv ==
  \A i \in DOMAIN rx :
    /\ rx[i].op = "setpoint"
    /\ \A j \in DOMAIN rx : j > i => ~(rx[j].op = "setpoint" /\ rx[j].axis = rx[i].axis)
    => asked[rx[i].axis] = {rx[i].value}

(* A setpoint is in force: its chip has it, unless that has lost its       *)
(* supply, and so has the memory of the shovel firmware, from which the    *)
(* next message for the other coil takes it.                               *)
Driven(a, s) ==
  /\ 0 \notin chip[a[1]].flags => chip[a[1]].target[a[2]] = Drive(s)
  /\ firmware = "shovel" /\ a[1] = CHANNEL_SHOVEL => duty[a[2]] = AsDuty(s)
LoopInv ==
  pc \in {"receive", "health", "heartbeat"} =>
    \A a \in Axes(firmware) : ~Pending(a) => \A s \in asked[a] : Driven(a, s)

(* Before the loop no setpoint is asked for but the zero that the writes   *)
(* done so far have given a wheel, and that a chip of the shovel has only  *)
(* if its supply went with that of the processor.                          *)
StartInv ==
  pc = "config" =>
    /\ rx = << >> /\ \A a \in Axes(firmware) : asked[a] \subseteq {0}
    /\ firmware = "shovel" =>
         /\ duty = ZeroTarget
         /\ \A a \in Axes(firmware) : asked[a] # {} => chip[a[1]].target[a[2]] = 0
    /\ firmware = "drivebase" =>
         \A c \in Channels : 4 * c + 3 <= configured => chip[c].target["a"] = 0
DriveInv == QueueInv /\ LoopInv /\ StartInv

(* No message comes or goes, and chips change by losing their supply only. *)
LEMMA SameDrive ==
  ASSUME TypeInv, DriveInv, UNCHANGED <<firmware, configured, duty, rx, asked>>,
         pc' = "config" <=> pc = "config",
         pc' \in {"receive", "health", "heartbeat"} => pc \in {"receive", "health", "heartbeat"},
         \A c \in Channels :
           /\ \/ chip'[c].target = chip[c].target
              \/ chip'[c].target = ZeroTarget /\ 0 \in chip'[c].flags
           /\ 0 \in chip[c].flags => 0 \in chip'[c].flags
  PROVE  DriveInv'
  <1>1. Channels' = Channels /\ \A a \in Axes(firmware) : a[1] \in Channels /\ a[2] \in {"a", "b"}
    BY SameBoard, Boards DEF TypeInv, LoopType
  <1>2. QueueInv'
    BY DEF DriveInv, QueueInv
  <1>3. LoopInv'
    <2>. SUFFICES ASSUME pc \in {"receive", "health", "heartbeat"},
                         NEW a \in Axes(firmware), ~Pending(a), NEW s \in asked[a]
                  PROVE  Driven(a, s)'
      BY DEF LoopInv, Pending
    <2>1. Driven(a, s)
      BY DEF DriveInv, LoopInv
    <2> QED
      BY <1>1, <2>1 DEF Driven, Drive
  <1>4. StartInv'
    BY <1>1 DEF DriveInv, StartInv, ZeroTarget
  <1> QED
    BY <1>2, <1>3, <1>4 DEF DriveInv

(* The first message leaves the FIFO.                                      *)
LEMMA Dequeue ==
  ASSUME TypeInv, QueueInv, rx # << >>, rx' = Tail(rx), asked' = asked
  PROVE  /\ QueueInv'
         /\ \A a \in Axes(firmware) :
              ~Pending(a)' => \/ ~Pending(a)
                              \/ /\ Head(rx).op = "setpoint" /\ Head(rx).axis = a
                                 /\ asked[a] = {Head(rx).value}
  <1>. DEFINE n == Len(rx)
  <1>1. /\ n \in Nat /\ n >= 1 /\ DOMAIN rx = 1 .. n /\ DOMAIN rx' = 1 .. n - 1
        /\ \A i \in DOMAIN rx' : i + 1 \in 1 .. n /\ rx'[i] = rx[i + 1]
        /\ Head(rx) = rx[1]
    BY DEF TypeInv, CanType
  <1>2. \A j \in 1 .. n : j > 1 => j - 1 \in DOMAIN rx' /\ rx[j] = rx'[j - 1]
    BY <1>1
  <1>. HIDE DEF n
  <1>3. QueueInv'
    <2>. SUFFICES ASSUME NEW i \in DOMAIN rx', rx'[i].op = "setpoint",
                         \A j \in DOMAIN rx' : j > i => ~(rx'[j].op = "setpoint" /\ rx'[j].axis = rx'[i].axis)
                  PROVE  asked[rx'[i].axis] = {rx'[i].value}
      BY DEF QueueInv
    <2>1. i + 1 \in 1 .. n /\ rx'[i] = rx[i + 1]
      BY <1>1
    <2>2. ASSUME NEW j \in 1 .. n, j > i + 1
          PROVE  ~(rx[j].op = "setpoint" /\ rx[j].axis = rx[i + 1].axis)
      <3>1. j - 1 \in DOMAIN rx' /\ rx[j] = rx'[j - 1] /\ j - 1 > i
        BY <1>1, <1>2, <2>2
      <3> QED
        BY <2>1, <3>1
    <2> QED
      BY <1>1, <2>1, <2>2 DEF QueueInv
  <1>4. ASSUME NEW a \in Axes(firmware), ~Pending(a)', Pending(a)
        PROVE  Head(rx).op = "setpoint" /\ Head(rx).axis = a /\ asked[a] = {Head(rx).value}
    <2>1. ASSUME NEW j \in 1 .. n, j > 1 PROVE ~(rx[j].op = "setpoint" /\ rx[j].axis = a)
      BY <1>2, <1>4, <2>1 DEF Pending
    <2>2. rx[1].op = "setpoint" /\ rx[1].axis = a
      BY <1>1, <1>4, <2>1 DEF Pending
    <2> QED
      BY <1>1, <2>1, <2>2 DEF QueueInv
  <1> QED
    BY <1>3, <1>4

(* A message joins it.                                                     *)
LEMMA Enqueue ==
  ASSUME TypeInv, QueueInv, NEW m \in Messages(firmware), rx' = Append(rx, m),
         asked' = IF m.op = "setpoint" THEN [asked EXCEPT ![m.axis] = {m.value}] ELSE asked
  PROVE  /\ QueueInv'
         /\ \A a \in Axes(firmware) : ~Pending(a)' => ~Pending(a) /\ asked'[a] = asked[a]
  <1>. DEFINE n == Len(rx)
  <1>1. /\ n \in Nat /\ DOMAIN rx = 1 .. n /\ DOMAIN rx' = 1 .. n + 1
        /\ \A i \in 1 .. n : rx'[i] = rx[i] /\ rx[i] \in Messages(firmware)
        /\ rx'[n + 1] = m
    BY DEF TypeInv, CanType
  <1>. HIDE DEF n
  <1>2. \A k \in Messages(firmware) : k.op = "setpoint" => k.axis \in Axes(firmware)
    BY DEF Messages
  <1>3. asked \in [Axes(firmware) -> SUBSET (Setpoints \cup {0})]
    BY DEF TypeInv, AskedType
  <1>4. QueueInv'
    <2>. SUFFICES ASSUME NEW i \in DOMAIN rx', rx'[i].op = "setpoint",
                         \A j \in DOMAIN rx' : j > i => ~(rx'[j].op = "setpoint" /\ rx'[j].axis = rx'[i].axis)
                  PROVE  asked'[rx'[i].axis] = {rx'[i].value}
      BY DEF QueueInv
    <2>1. CASE i = n + 1
      BY <1>1, <1>2, <1>3, <2>1
    <2>2. CASE i # n + 1
      <3>1. i \in 1 .. n /\ n + 1 > i /\ n + 1 \in 1 .. n + 1
        BY <1>1, <2>2
      <3>2. rx'[i] = rx[i] /\ rx[i].axis \in Axes(firmware)
        BY <1>1, <1>2, <3>1
      <3>3. asked'[rx[i].axis] = asked[rx[i].axis]
        BY <1>1, <1>2, <1>3, <3>1, <3>2
      <3>4. asked[rx[i].axis] = {rx[i].value}
        BY <1>1, <3>1, <3>2 DEF QueueInv
      <3> QED
        BY <3>2, <3>3, <3>4
    <2> QED
      BY <2>1, <2>2
  <1>5. ASSUME NEW a \in Axes(firmware), ~Pending(a)' PROVE ~Pending(a) /\ asked'[a] = asked[a]
    <2>1. ~Pending(a)
      BY <1>1, <1>5 DEF Pending
    <2>2. ~(m.op = "setpoint" /\ m.axis = a)
      BY <1>1, <1>5 DEF Pending
    <2> QED
      BY <1>2, <1>3, <2>1, <2>2
  <1> QED
    BY <1>4, <1>5


LEMMA InitDrive == Init => DriveInv
  <1>. SUFFICES ASSUME Init PROVE DriveInv
    OBVIOUS
  <1>1. /\ firmware \in Firmwares /\ pc = "config" /\ configured = 0 /\ duty = ZeroTarget
        /\ rx = << >> /\ asked = [a \in Axes(firmware) |-> {0}]
        /\ chip = [c \in Channels |-> PowerOnChip]
    BY DEF Init
  <1>2. \A a \in Axes(firmware) : a[1] \in Channels /\ a[2] \in {"a", "b"}
    BY <1>1, Boards
  <1>3. \A c \in Channels : c \in Int /\ 0 <= c
    BY <1>1, Boards
  <1>4. QueueInv
    BY <1>1 DEF QueueInv
  <1>5. StartInv
    BY <1>1, <1>2, <1>3 DEF StartInv, PowerOnChip, ZeroTarget
  <1> QED
    BY <1>1, <1>4, <1>5 DEF DriveInv, LoopInv

(* After a restart the drivebase is about to write a zero to every target; *)
(* the shovel firmware knows no setpoint.                                  *)
LEMMA RebootDrive == TypeInv /\ Reboot => DriveInv'
  <1>. SUFFICES ASSUME TypeInv, Reboot PROVE DriveInv'
    OBVIOUS
  <1>1. /\ firmware' = firmware /\ pc' = "config" /\ configured' = 0 /\ duty' = ZeroTarget
        /\ rx' = << >>
        /\ asked' = [a \in Axes(firmware) |-> IF firmware = "drivebase" THEN {0} ELSE {}]
    BY DEF Reboot
  <1>2. \A c \in Channels : c \in Int /\ 0 <= c
    BY Boards DEF TypeInv, LoopType
  <1>3. Channels' = Channels
    BY <1>1, SameBoard
  <1>4. QueueInv'
    BY <1>1 DEF QueueInv
  <1>5. StartInv'
    BY <1>1, <1>2, <1>3 DEF StartInv
  <1> QED
    BY <1>1, <1>4, <1>5 DEF DriveInv, LoopInv

LEMMA ConfigureDrive == TypeInv /\ DriveInv /\ Configure => DriveInv'
  <1>. SUFFICES ASSUME TypeInv, DriveInv, Configure PROVE DriveInv'
    OBVIOUS
  <1>. DEFINE write == ConfigSeq(firmware)[configured + 1]
              w1 == write[1]
              w2 == write[2]
              last == configured + 1 = Len(ConfigSeq(firmware))
              d == ConfigWrite(chip[w1], w2)
  <1>1. /\ pc = "config"
        /\ chip' = [chip EXCEPT ![w1] = d]
        /\ configured' = IF last THEN 0 ELSE configured + 1
        /\ pc' = IF last THEN "receive" ELSE pc
        /\ UNCHANGED <<firmware, duty, rx, asked>>
    BY DEF Configure, can
  <1>2. /\ w1 \in Channels
        /\ w2 \in {"general", "hold", "xactual", "xtarget", "position"}
        /\ firmware = "drivebase" =>
             /\ last <=> configured + 1 = 4 * NumChannels[firmware]
             /\ w1 = configured \div 4 /\ w2 = Stages[(configured % 4) + 1]
        /\ firmware = "shovel" => w2 = "general"
    BY ConfigSteps DEF TypeInv
  <1>. HIDE DEF w1, w2, last, write
  <1>3. chip[w1] \in ChipType /\ chip \in [Channels -> ChipType]
    BY <1>2 DEF TypeInv, MotorType
  <1>4. d.target = IF w2 = "xtarget" THEN [chip[w1].target EXCEPT !["a"] = 0] ELSE chip[w1].target
    BY <1>2, <1>3, ConfigWrites
  <1>. HIDE DEF d
  <1>5. chip'[w1] = d /\ \A c \in Channels : c # w1 => chip'[c] = chip[c]
    BY <1>1, <1>2, <1>3
  <1>6. /\ configured \in Nat /\ firmware \in Firmwares /\ firmware \in {"drivebase", "shovel"}
        /\ NumChannels[firmware] \in 2 .. 10
        /\ Channels' = Channels
        /\ \A c \in Channels : c \in Int /\ 0 <= c /\ c < NumChannels[firmware]
        /\ \A a \in Axes(firmware) : a[1] \in Channels /\ a[2] \in {"a", "b"}
    <2>1. configured \in Nat /\ firmware \in Firmwares
      BY DEF TypeInv, LoopType
    <2>2. /\ firmware \in {"drivebase", "shovel"} /\ NumChannels[firmware] \in 2 .. 10
          /\ \A c \in Channels : c \in 0 .. 9 /\ c < NumChannels[firmware]
          /\ \A a \in Axes(firmware) : a[1] \in Channels /\ a[2] \in {"a", "b"}
      BY <2>1, Constants, Boards
    <2>3. Channels' = Channels
      BY <1>1, SameBoard
    <2> QED
      BY <2>1, <2>2, <2>3
  <1>7. /\ rx = << >> /\ \A a \in Axes(firmware) : asked[a] \subseteq {0}
        /\ firmware = "shovel" =>
             /\ duty = ZeroTarget
             /\ \A a \in Axes(firmware) : asked[a] # {} => chip[a[1]].target[a[2]] = 0
        /\ firmware = "drivebase" =>
             \A c \in Channels : 4 * c + 3 <= configured => chip[c].target["a"] = 0
    BY <1>1 DEF DriveInv, StartInv
  <1>8. CASE firmware = "shovel"
    <2>1. \A c \in Channels : chip'[c].target = chip[c].target
      BY <1>2, <1>4, <1>5, <1>8
    <2>2. StartInv'
      BY <1>1, <1>6, <1>7, <1>8, <2>1 DEF StartInv
    <2>3. LoopInv'
      <3>. SUFFICES ASSUME NEW a \in Axes(firmware), NEW s \in asked[a] PROVE Driven(a, s)'
        BY <1>1 DEF LoopInv, Pending
      <3>1. s = 0 /\ chip'[a[1]].target[a[2]] = 0 /\ duty'[a[2]] = 0
        BY <1>1, <1>6, <1>7, <1>8, <2>1 DEF ZeroTarget
      <3> QED
        BY <1>1, <1>6, <1>8, <3>1, CastsZero DEF Driven, Drive
    <2> QED
      BY <1>1, <2>2, <2>3 DEF DriveInv, QueueInv
  <1>9. CASE firmware = "drivebase"
    <2>1. ASSUME NEW c \in Channels, 4 * c + 3 <= configured + 1
          PROVE  chip'[c].target["a"] = 0
      <3>1. CASE c # w1
        <4>1. 4 * c + 3 <= configured
          <5>1. configured \div 4 # c
            BY <1>2, <1>9, <3>1
          <5> QED
            BY <1>6, <2>1, <5>1
        <4> QED
          BY <1>5, <1>7, <1>9, <3>1, <4>1
      <3>2. CASE c = w1 /\ w2 = "xtarget"
        BY <1>3, <1>4, <1>5, <3>2 DEF ChipType
      <3>3. CASE c = w1 /\ w2 # "xtarget"
        <4>1. configured % 4 # 2
          BY <1>2, <1>9, <3>3 DEF Stages
        <4>2. c = configured \div 4
          BY <1>2, <1>9, <3>3
        <4>3. 4 * c + 3 <= configured
          BY <1>6, <2>1, <4>1, <4>2
        <4> QED
          BY <1>4, <1>5, <1>7, <1>9, <3>3, <4>3
      <3> QED
        BY <3>1, <3>2, <3>3
    <2>2. StartInv'
      BY <1>1, <1>6, <1>7, <1>9, <2>1 DEF StartInv
    <2>3. LoopInv'
      <3>. SUFFICES ASSUME last, NEW a \in Axes(firmware), NEW s \in asked[a] PROVE Driven(a, s)'
        BY <1>1 DEF LoopInv, Pending
      <3>1. 4 * a[1] + 3 <= configured + 1
        BY <1>2, <1>6, <1>9
      <3>2. s = 0 /\ chip'[a[1]].target["a"] = 0
        BY <1>6, <1>7, <2>1, <3>1
      <3>3. a[2] = "a"
        BY <1>6, <1>9, Boards
      <3> QED
        BY <1>1, <1>6, <1>9, <3>2, <3>3, CastsZero DEF Driven, Drive
    <2> QED
      BY <1>1, <2>2, <2>3 DEF DriveInv, QueueInv
  <1> QED
    BY <1>6, <1>8, <1>9

(* The two coils of the shovel are written together, the one that the      *)
(* message is not for from memory.                                         *)
LEMMA HandleMessageDrive == TypeInv /\ DriveInv /\ HandleMessage => DriveInv'
  <1>. SUFFICES ASSUME TypeInv, DriveInv, HandleMessage PROVE DriveInv'
    OBVIOUS
  <1>1. /\ rx # << >> /\ rx' = Tail(rx) /\ Head(rx).axis \in Axes(firmware)
        /\ Head(rx).value \in Setpoints /\ SetTarget(Head(rx).axis, Head(rx).value)
        /\ pc = "receive" /\ pc' = "health" /\ UNCHANGED <<firmware, asked>>
    BY MessageHead
  <1>2. PICK axis \in Axes(firmware), value \in Setpoints :
          axis = Head(rx).axis /\ value = Head(rx).value /\ SetTarget(axis, value)
    BY <1>1
  <1>3. PICK d \in ChipType :
          /\ chip' = [chip EXCEPT ![axis[1]] = d]
          /\ d.flags = chip[axis[1]].flags
          /\ firmware = "drivebase" => duty' = duty /\ d.target["a"] = AsSteps(value)
          /\ firmware = "shovel" /\ axis[1] = CHANNEL_SHOVEL =>
               /\ duty' = [duty EXCEPT ![axis[2]] = AsDuty(value)]
               /\ d.target["a"] = duty'["a"] /\ d.target["b"] = duty'["b"]
          /\ firmware = "shovel" /\ axis[1] # CHANNEL_SHOVEL =>
               duty' = duty /\ d.target["a"] = AsDuty(value)
    BY <1>2, SetTargetChip
  <1>4. /\ QueueInv'
        /\ \A a \in Axes(firmware) : ~Pending(a)' => ~Pending(a) \/ (a = axis /\ asked[a] = {value})
    BY <1>1, <1>2, Dequeue DEF DriveInv
  <1>5. /\ chip \in [Channels -> ChipType] /\ firmware \in Firmwares
        /\ firmware \in {"drivebase", "shovel"} /\ duty \in [{"a", "b"} -> -MAX_DUTY .. MAX_DUTY]
    BY Constants DEF TypeInv, MotorType, LoopType
  <1>6. /\ \A a \in Axes(firmware) : a[1] \in Channels /\ a[2] \in {"a", "b"}
        /\ \A a, b \in Axes(firmware) : a[1] = b[1] /\ a[2] = b[2] => a = b
        /\ firmware = "drivebase" => \A a \in Axes(firmware) : a[2] = "a"
        /\ firmware = "shovel" =>
             /\ CHANNEL_SHOVEL # CHANNEL_PAVER
             /\ \A a \in Axes(firmware) : a[1] = CHANNEL_SHOVEL \/ a = <<CHANNEL_PAVER, "a">>
    BY <1>5, Boards
  <1>7. /\ chip'[axis[1]] = d
        /\ \A c \in Channels : c # axis[1] => chip'[c] = chip[c]
    BY <1>3, <1>5, <1>6
  <1>8. ASSUME NEW a \in Axes(firmware), ~Pending(a)', NEW s \in asked[a] PROVE Driven(a, s)'
    <2>1. ~Pending(a) => Driven(a, s)
      BY <1>1 DEF DriveInv, LoopInv
    <2>2. (a = axis /\ s = value) \/ ~Pending(a)
      BY <1>4, <1>8
    <2>3. CASE firmware = "drivebase"
      <3>1. CASE a = axis /\ s = value
        BY <1>1, <1>3, <1>6, <1>7, <2>3, <3>1 DEF Driven, Drive
      <3>2. CASE ~Pending(a) /\ a # axis
        <4>1. chip'[a[1]] = chip[a[1]]
          BY <1>6, <1>7, <2>3, <3>2
        <4> QED
          BY <1>1, <2>1, <2>3, <3>2, <4>1 DEF Driven, Drive
      <3>3. CASE ~Pending(a) /\ a = axis
        BY <1>2, <1>1, <3>3, MessageHead DEF Pending, TypeInv, CanType
      <3> QED
        BY <2>2, <3>1, <3>2, <3>3
    <2>4. CASE firmware = "shovel" /\ axis[1] = CHANNEL_SHOVEL
      <3>1. duty'[axis[2]] = AsDuty(value) /\ \A h \in {"a", "b"} : h # axis[2] => duty'[h] = duty[h]
        BY <1>3, <1>5, <1>6, <2>4
      <3>2. \A h \in {"a", "b"} : d.target[h] = duty'[h]
        BY <1>3, <2>4
      <3>3. CASE a = axis /\ s = value
        BY <1>1, <1>6, <1>7, <2>4, <3>1, <3>2, <3>3 DEF Driven, Drive
      <3>4. CASE ~Pending(a) /\ a # axis /\ a[1] = CHANNEL_SHOVEL
        <4>1. a[2] # axis[2]
          BY <1>6, <2>4, <3>4
        <4> QED
          BY <1>1, <1>6, <1>7, <2>1, <2>4, <3>1, <3>2, <3>4, <4>1 DEF Driven, Drive
      <3>5. CASE ~Pending(a) /\ a[1] # CHANNEL_SHOVEL
        <4>1. chip'[a[1]] = chip[a[1]]
          BY <1>6, <1>7, <2>4, <3>5
        <4> QED
          BY <1>1, <2>1, <2>4, <3>5, <4>1 DEF Driven, Drive
      <3>6. CASE ~Pending(a) /\ a = axis
        BY <1>2, <1>1, <3>6, MessageHead DEF Pending, TypeInv, CanType
      <3> QED
        BY <2>2, <3>3, <3>4, <3>5, <3>6
    <2>5. CASE firmware = "shovel" /\ axis[1] # CHANNEL_SHOVEL
      <3>1. axis = <<CHANNEL_PAVER, "a">> /\ axis[2] = "a"
        BY <1>6, <2>5
      <3>2. CASE a = axis /\ s = value
        BY <1>1, <1>3, <1>7, <2>5, <3>1, <3>2 DEF Driven, Drive
      <3>3. CASE ~Pending(a) /\ a # axis
        <4>1. a[1] = CHANNEL_SHOVEL
          BY <1>6, <2>5, <3>1, <3>3
        <4>2. chip'[a[1]] = chip[a[1]]
          BY <1>6, <1>7, <2>5, <4>1
        <4> QED
          BY <1>1, <1>3, <2>1, <2>5, <3>3, <4>2 DEF Driven, Drive
      <3>4. CASE ~Pending(a) /\ a = axis
        BY <1>2, <1>1, <3>4, MessageHead DEF Pending, TypeInv, CanType
      <3> QED
        BY <2>2, <3>2, <3>3, <3>4
    <2> QED
      BY <1>5, <2>3, <2>4, <2>5
  <1>9. LoopInv'
    BY <1>1, <1>8 DEF LoopInv
  <1> QED
    BY <1>1, <1>4, <1>9 DEF DriveInv, StartInv

LEMMA HandleOtherDrive == TypeInv /\ DriveInv /\ HandleOther => DriveInv'
  <1>. SUFFICES ASSUME TypeInv, DriveInv, HandleOther PROVE DriveInv'
    OBVIOUS
  <1>1. /\ rx # << >> /\ rx' = Tail(rx) /\ Head(rx).op # "setpoint"
        /\ pc = "receive" /\ pc' \in {"health", "panic"}
        /\ UNCHANGED <<firmware, duty, asked, chip>>
    BY DEF HandleOther, Transmit, TurnBegins, motors
  <1>2. QueueInv' /\ \A a \in Axes(firmware) : ~Pending(a)' => ~Pending(a)
    BY <1>1, Dequeue DEF DriveInv
  <1>3. LoopInv'
    <2>. SUFFICES ASSUME NEW a \in Axes(firmware), ~Pending(a)', NEW s \in asked[a]
                  PROVE  Driven(a, s)'
      BY <1>1 DEF LoopInv
    <2>1. Driven(a, s)
      BY <1>1, <1>2 DEF DriveInv, LoopInv
    <2> QED
      BY <1>1, <2>1 DEF Driven, Drive
  <1> QED
    BY <1>1, <1>2, <1>3 DEF DriveInv, StartInv

LEMMA DeliverDrive == TypeInv /\ DriveInv /\ Deliver => DriveInv'
  <1>. SUFFICES ASSUME TypeInv, DriveInv, Deliver PROVE DriveInv'
    OBVIOUS
  <1>1. UNCHANGED <<firmware, pc, configured, duty, chip>>
    BY DEF Deliver, node, motors
  <1>2. PICK m \in Messages(firmware) :
          \/ /\ pc # "config" /\ rx' = Append(rx, m)
             /\ asked' = IF m.op = "setpoint" THEN [asked EXCEPT ![m.axis] = {m.value}] ELSE asked
          \/ UNCHANGED <<rx, asked>>
    BY DEF Deliver
  <1>3. CASE UNCHANGED <<rx, asked>>
    BY <1>1, <1>3, SameDrive
  <1>4. CASE /\ pc # "config" /\ rx' = Append(rx, m)
             /\ asked' = IF m.op = "setpoint" THEN [asked EXCEPT ![m.axis] = {m.value}] ELSE asked
    <2>1. QueueInv' /\ \A a \in Axes(firmware) : ~Pending(a)' => ~Pending(a) /\ asked'[a] = asked[a]
      BY <1>4, Enqueue DEF DriveInv
    <2>2. LoopInv'
      <3>. SUFFICES ASSUME pc \in {"receive", "health", "heartbeat"},
                           NEW a \in Axes(firmware), ~Pending(a)', NEW s \in asked'[a]
                    PROVE  Driven(a, s)'
        BY <1>1 DEF LoopInv
      <3>1. Driven(a, s)
        BY <2>1 DEF DriveInv, LoopInv
      <3> QED
        BY <1>1, <3>1 DEF Driven, Drive
    <2> QED
      BY <1>1, <1>4, <2>1, <2>2 DEF DriveInv, StartInv
  <1> QED
    BY <1>2, <1>3, <1>4

LEMMA MotorsDrive ==
  ASSUME TypeInv, DriveInv, NEW c \in Channels, Turn(c) \/ DriverFault(c) \/ Cool(c) \/ PowerLoss(c)
  PROVE  DriveInv'
  <1>1. UNCHANGED <<firmware, configured, pc, duty, rx, asked>>
    BY DEF Turn, DriverFault, Cool, PowerLoss, Faulty, node, can, ghosts
  <1>2. chip \in [Channels -> ChipType]
    BY DEF TypeInv, MotorType
  <1>3. PICK ch \in ChipType :
          /\ chip' = [chip EXCEPT ![c] = ch]
          /\ ch.target = chip[c].target \/ (ch.target = ZeroTarget /\ 0 \in ch.flags)
          /\ 0 \in chip[c].flags => 0 \in ch.flags
    <2>1. CASE Turn(c)
      BY <2>1, Turned
    <2>2. CASE DriverFault(c) \/ Cool(c)
      <3>1. PICK fl \in SUBSET (0 .. 10) :
              /\ [chip[c] EXCEPT !.flags = fl] \in ChipType
              /\ chip' = [chip EXCEPT ![c] = [chip[c] EXCEPT !.flags = fl]]
              /\ 0 \in chip[c].flags => 0 \in fl
        BY <2>2, FlaggedChip
      <3>. DEFINE ch == [chip[c] EXCEPT !.flags = fl]
      <3>2. ch.target = chip[c].target /\ ch.flags = fl
        BY <1>2 DEF ChipType
      <3>. HIDE DEF ch
      <3>3. ch \in ChipType /\ chip' = [chip EXCEPT ![c] = ch] /\ (0 \in chip[c].flags => 0 \in ch.flags)
        BY <3>1, <3>2 DEF ch
      <3> QED
        BY <3>2, <3>3
    <2>3. CASE PowerLoss(c)
      <3>1. chip' = [chip EXCEPT ![c] = PowerOnChip]
        BY <2>3 DEF PowerLoss
      <3>2. PowerOnChip.target = ZeroTarget /\ 0 \in PowerOnChip.flags
        BY DEF PowerOnChip
      <3> QED
        BY <3>1, <3>2, PowerOnType
    <2> QED
      BY <2>1, <2>2, <2>3
  <1>4. ASSUME NEW e \in Channels
        PROVE  /\ \/ chip'[e].target = chip[e].target
                  \/ chip'[e].target = ZeroTarget /\ 0 \in chip'[e].flags
               /\ 0 \in chip[e].flags => 0 \in chip'[e].flags
    BY <1>2, <1>3
  <1> QED
    BY <1>1, <1>4, SameDrive

LEMMA NextDrive == TypeInv /\ DriveInv /\ [Next]_vars => DriveInv'
  <1>. SUFFICES ASSUME TypeInv, DriveInv, [Next]_vars PROVE DriveInv'
    OBVIOUS
  <1>1. CASE NoMessage \/ Heartbeat \/ NoHeartbeat
    <2>1. /\ UNCHANGED <<firmware, configured, duty, rx, asked, chip>>
          /\ pc \in {"receive", "heartbeat"} /\ pc' # "config"
      BY <1>1 DEF NoMessage, Heartbeat, NoHeartbeat, TurnBegins, Transmit, motors, can
    <2> QED
      BY <2>1, SameDrive
  <1>2. CASE Tick \/ Sent \/ BusOff \/ UNCHANGED vars
    <2>1. UNCHANGED <<firmware, configured, duty, rx, asked, chip, pc>>
      BY <1>2 DEF Tick, Sent, BusOff, vars, node, can, motors, ghosts
    <2> QED
      BY <2>1, SameDrive
  <1>3. CASE Scan
    <2>1. scan.chan \in Channels /\ scan.reg \in {"gstat", "drv_status"}
      BY DEF TypeInv, ScanType
    <2>2. /\ chip' = [chip EXCEPT ![scan.chan] = read_reg(chip[scan.chan], scan.reg).chip]
          /\ pc = "health" /\ pc' \in {"health", "heartbeat"}
          /\ UNCHANGED <<firmware, configured, duty, rx, asked>>
      BY <1>3 DEF Scan, NextChannel, Report, can, ghosts
    <2>3. chip \in [Channels -> ChipType]
      BY DEF TypeInv, MotorType
    <2>4. read_reg(chip[scan.chan], scan.reg).chip = [chip[scan.chan] EXCEPT !.addr = "other"]
      BY <2>1, <2>3, ReadReg
    <2>5. \A c \in Channels : chip'[c].target = chip[c].target /\ chip'[c].flags = chip[c].flags
      BY <2>1, <2>2, <2>3, <2>4 DEF ChipType
    <2> QED
      BY <2>2, <2>5, SameDrive
  <1>4. CASE HandleRestart \/ PowerCycle
    BY <1>4, RebootDrive DEF HandleRestart, PowerCycle
  <1> QED
    BY <1>1, <1>2, <1>3, <1>4, ConfigureDrive, HandleMessageDrive, HandleOtherDrive, DeliverDrive,
       MotorsDrive DEF Next, Processor

(* What drives a motor is the last setpoint for it that the bus brought,   *)
(* for any depth of the FIFO, any setpoints and any gear: none is handled  *)
(* out of order, none is left standing by a restart, and the message for   *)
(* one coil of the shovel's chip leaves the other as it was asked for.     *)
THEOREM Obedient == Spec => []Obeys
  <1>1. TypeInv /\ DriveInv => Obeys
    <2>. SUFFICES ASSUME TypeInv, DriveInv, pc \in {"receive", "health", "heartbeat"},
                         NEW a \in Axes(firmware), NEW s \in asked[a],
                         0 \notin chip[a[1]].flags,
                         \A i \in DOMAIN rx : rx[i].axis # a \/ rx[i].op # "setpoint"
                  PROVE  chip[a[1]].target[a[2]] = Drive(s)
      BY DEF Obeys, Drive
    <2> QED
      BY DEF DriveInv, LoopInv, Pending, Driven
  <1>2. Spec => []TypeInv
    BY InitType, NextType, PTL DEF Spec
  <1> QED
    BY <1>1, <1>2, InitDrive, NextDrive, PTL DEF Spec

-----------------------------------------------------------------------------
(* Codes                                                                   *)

(* A status code h is the truth as far as the faults below b go, when R    *)
(* are the faults that there were at some time and L those visible all the *)
(* time.                                                                   *)
Upto(h, b, R, L) ==
  /\ h = NONE => \A x \in L : x >= b
  /\ h # NONE =>
       /\ h % 100 \in R /\ h % 100 < b
       /\ \A x \in L : h % 100 <= x
       /\ h >= 100 => \E x, y \in R : x # y
       /\ h < 100 => \A x \in L : x < b => x = h

LEMMA UptoMore ==
  ASSUME NEW h \in Int, NEW b \in Int, NEW R, NEW L, Upto(h, b, R, L),
         NEW R2, NEW L2, R \subseteq R2, L2 \subseteq L
  PROVE  Upto(h, b, R2, L2)
  BY DEF Upto

(* There are no faults from b to the next bound.                           *)
LEMMA UptoSkip ==
  ASSUME NEW h \in Int, NEW b \in Int, NEW R \in SUBSET Int, NEW L \in SUBSET Int,
         Upto(h, b, R, L), NEW e \in Int, b <= e, \A x \in L : ~(b <= x /\ x < e)
  PROVE  Upto(h, e, R, L)
  BY DEF Upto

(* One call of append_health.                                              *)
LEMMA AppendUpto ==
  ASSUME NEW h \in Int, h = NONE \/ h >= 0, NEW c \in 0 .. 99,
         NEW R \in SUBSET Int, NEW L \in SUBSET Int, Upto(h, c, R, L),
         NEW f, NEW answer, f \in answer => c \in R, f \notin answer => c \notin L
  PROVE  /\ Upto(append_health(h, f \in answer, c), c + 1, R, L)
         /\ append_health(h, f \in answer, c) \in Int
         /\ \/ append_health(h, f \in answer, c) = NONE
            \/ append_health(h, f \in answer, c) >= 0
  <1>1. CASE f \notin answer
    <2>1. append_health(h, f \in answer, c) = h
      BY <1>1 DEF append_health
    <2>2. \A x \in L : ~(c <= x /\ x < c + 1)
      BY <1>1
    <2> QED
      BY <2>1, <2>2, UptoSkip
  <1>2. CASE f \in answer /\ h = NONE
    <2>1. append_health(h, f \in answer, c) = c /\ c % 100 = c /\ c # NONE
      BY <1>2 DEF append_health, NONE
    <2>2. Upto(c, c + 1, R, L)
      BY <1>2, <2>1 DEF Upto
    <2> QED
      BY <2>1, <2>2
  <1>3. CASE f \in answer /\ h # NONE /\ h >= 100
    <2>1. append_health(h, f \in answer, c) = h
      BY <1>3 DEF append_health
    <2>2. Upto(h, c + 1, R, L)
      <3>1. h % 100 < c => h % 100 < c + 1
        OBVIOUS
      <3> QED
        BY <1>3, <3>1 DEF Upto
    <2> QED
      BY <2>1, <2>2
  <1>4. CASE f \in answer /\ h # NONE /\ h < 100
    <2>1. append_health(h, f \in answer, c) = h + 100 /\ h + 100 # NONE /\ h + 100 >= 100
      BY <1>4 DEF append_health, NONE
    <2>2. h % 100 = h /\ (h + 100) % 100 = h
      BY <1>4
    <2>3. h \in R /\ h < c /\ \A x \in L : h <= x
      BY <1>4, <2>2 DEF Upto
    <2>4. \E x, y \in R : x # y
      BY <1>4, <2>3
    <2>. DEFINE k == h + 100
    <2>5. k \in Int /\ k % 100 = h /\ k # NONE /\ k >= 100
      BY <2>1, <2>2
    <2>. HIDE DEF k
    <2>6. Upto(k, c + 1, R, L)
      BY <2>3, <2>4, <2>5 DEF Upto
    <2> QED
      BY <2>1, <2>6 DEF k
  <1> QED
    BY <1>1, <1>2, <1>3, <1>4

(* What is read of a register: no flag that there never was, and every     *)
(* flag that was visible all the time.                                     *)
Answers(answer, p, f, R, L) == (f \in answer => p + f \in R) /\ (f \notin answer => p + f \notin L)

LEMMA AppendPairUpto ==
  ASSUME NEW h \in Int, h = NONE \/ h >= 0, NEW p \in Int, NEW f \in Int, 0 <= p + f, p + f < 99,
         NEW R \in SUBSET Int, NEW L \in SUBSET Int, Upto(h, p + f, R, L),
         NEW answer, Answers(answer, p, f, R, L), Answers(answer, p, f + 1, R, L)
  PROVE  LET k == AppendPair(h, answer, p, f) IN
         Upto(k, p + f + 2, R, L) /\ k \in Int /\ (k = NONE \/ k >= 0)
  <1>. DEFINE c == p + f
              k == append_health(h, f \in answer, c)
  <1>1. c \in 0 .. 99 /\ c + 1 \in 0 .. 99 /\ c + 1 = p + (f + 1) /\ c + 1 = p + f + 1
        /\ (c + 1) + 1 = p + f + 2
    OBVIOUS
  <1>2. Upto(k, c + 1, R, L) /\ k \in Int /\ (k = NONE \/ k >= 0)
    BY <1>1, AppendUpto DEF Answers
  <1>. HIDE DEF k
  <1>3. LET l == append_health(k, f + 1 \in answer, c + 1) IN
        Upto(l, (c + 1) + 1, R, L) /\ l \in Int /\ (l = NONE \/ l >= 0)
    BY <1>1, <1>2, AppendUpto DEF Answers
  <1>4. AppendPair(h, answer, p, f) = append_health(k, f + 1 \in answer, c + 1)
    BY <1>1 DEF AppendPair, k
  <1> QED
    BY <1>1, <1>3, <1>4

LEMMA AppendDriverUpto ==
  ASSUME NEW h \in Int, h = NONE \/ h >= 0, NEW p \in Int, 0 <= p, p <= 90,
         NEW R \in SUBSET Int, NEW L \in SUBSET Int, Upto(h, p + 2, R, L),
         NEW answer, \A f \in 2 .. 9 : Answers(answer, p, f, R, L)
  PROVE  LET k == AppendDriver(h, answer, p) IN
         Upto(k, p + 10, R, L) /\ k \in Int /\ (k = NONE \/ k >= 0)
  <1>1. ASSUME NEW i \in Int, i = NONE \/ i >= 0, NEW f \in {2, 4, 6, 8}, Upto(i, p + f, R, L)
        PROVE  LET k == AppendPair(i, answer, p, f) IN
               Upto(k, p + (f + 2), R, L) /\ k \in Int /\ (k = NONE \/ k >= 0)
    <2>1. f \in Int /\ 0 <= p + f /\ p + f < 99 /\ p + f + 2 = p + (f + 2)
          /\ f \in 2 .. 9 /\ f + 1 \in 2 .. 9
      OBVIOUS
    <2>2. Answers(answer, p, f, R, L) /\ Answers(answer, p, f + 1, R, L)
      BY <2>1
    <2> QED
      BY <1>1, <2>1, <2>2, AppendPairUpto
  <1>. DEFINE h2 == AppendPair(h, answer, p, 2)
              h4 == AppendPair(h2, answer, p, 4)
              h6 == AppendPair(h4, answer, p, 6)
              h8 == AppendPair(h6, answer, p, 8)
  <1>2. PICK t \in {2, 4, 6, 8} : t = 2
    OBVIOUS
  <1>3. Upto(h2, p + 4, R, L) /\ h2 \in Int /\ (h2 = NONE \/ h2 >= 0)
    <2>1. t + 2 = 4
      BY <1>2
    <2> QED
      BY <1>1, <1>2, <2>1
  <1>. HIDE DEF h2
  <1>4. Upto(h4, p + 6, R, L) /\ h4 \in Int /\ (h4 = NONE \/ h4 >= 0)
    <2>1. PICK f \in {2, 4, 6, 8} : f = 4 /\ f + 2 = 6
      OBVIOUS
    <2> QED
      BY <1>1, <1>3, <2>1
  <1>. HIDE DEF h4
  <1>5. Upto(h6, p + 8, R, L) /\ h6 \in Int /\ (h6 = NONE \/ h6 >= 0)
    <2>1. PICK f \in {2, 4, 6, 8} : f = 6 /\ f + 2 = 8
      OBVIOUS
    <2> QED
      BY <1>1, <1>4, <2>1
  <1>. HIDE DEF h6
  <1>6. Upto(h8, p + 10, R, L) /\ h8 \in Int /\ (h8 = NONE \/ h8 >= 0)
    <2>1. PICK f \in {2, 4, 6, 8} : f = 8 /\ f + 2 = 10
      OBVIOUS
    <2> QED
      BY <1>1, <1>5, <2>1
  <1> QED
    BY <1>6 DEF AppendDriver, h2, h4, h6, h8

-----------------------------------------------------------------------------
(* The faults of the chips                                                 *)

(* Every channel has ten codes of its own, and the flags of a chip say     *)
(* which of them are there.                                                *)
LEMMA FaultSets ==
  ASSUME TypeInv
  PROVE  /\ Faults \subseteq 0 .. 99 /\ Present \subseteq 0 .. 99
         /\ \A x \in Faults : x < 10 * NumChannels[firmware]
         /\ \A c \in Channels : \A f \in 0 .. 9 :
              /\ 10 * c + f \in Faults => f \in Visible(chip[c])
              /\ f \in chip[c].flags => 10 * c + f \in Present
         /\ \A c \in Channels : \A x \in Faults :
              10 * c <= x /\ x < 10 * c + 10 => \E f \in Visible(chip[c]) : x = 10 * c + f
         /\ \A c \in Channels : Visible(chip[c]) \subseteq chip[c].flags \cap (0 .. 9)
  <1>1. /\ \A c \in Channels : c \in 0 .. 9 /\ c < NumChannels[firmware]
        /\ NumChannels[firmware] \in 2 .. 10
    BY Boards, Constants DEF TypeInv, LoopType
  <1>2. \A c \in Channels : Visible(chip[c]) \subseteq chip[c].flags \cap (0 .. 9)
    BY DEF Visible
  <1>3. \A x \in Faults : \E d \in Channels : \E g \in Visible(chip[d]) : x = 10 * d + g
    BY DEF Faults
  <1>4. \A x \in Present : \E d \in Channels : \E g \in 0 .. 9 : x = 10 * d + g
    BY DEF Present
  <1>5. \A x \in Faults : x \in 0 .. 99 /\ x < 10 * NumChannels[firmware]
    <2>. SUFFICES ASSUME NEW x \in Faults PROVE x \in 0 .. 99 /\ x < 10 * NumChannels[firmware]
      OBVIOUS
    <2>1. PICK d \in Channels, g \in 0 .. 9 : x = 10 * d + g
      BY <1>2, <1>3
    <2> QED
      BY <1>1, <2>1
  <1>6. Present \subseteq 0 .. 99
    <2>. SUFFICES ASSUME NEW x \in Present PROVE x \in 0 .. 99
      OBVIOUS
    <2>1. PICK d \in Channels, g \in 0 .. 9 : x = 10 * d + g
      BY <1>4
    <2> QED
      BY <1>1, <2>1
  <1>7. ASSUME NEW c \in Channels, NEW x \in Faults, 10 * c <= x /\ x < 10 * c + 10
        PROVE  \E f \in Visible(chip[c]) : x = 10 * c + f
    <2>1. PICK d \in Channels, g \in 0 .. 9 : x = 10 * d + g /\ g \in Visible(chip[d])
      BY <1>2, <1>3
    <2>2. d = c
      BY <1>1, <1>7, <2>1
    <2> QED
      BY <2>1, <2>2
  <1>8. ASSUME NEW c \in Channels, NEW f \in 0 .. 9, 10 * c + f \in Faults
        PROVE  f \in Visible(chip[c])
    <2>1. 10 * c <= 10 * c + f /\ 10 * c + f < 10 * c + 10
      BY <1>1
    <2>2. PICK g \in Visible(chip[c]) : 10 * c + f = 10 * c + g
      BY <1>7, <1>8, <2>1
    <2>3. g \in Int /\ f \in Int /\ c \in Int
      BY <1>1, <1>2
    <2>4. g = f
      BY <2>2, <2>3
    <2> QED
      BY <2>4
  <1>9. ASSUME NEW c \in Channels, NEW f \in 0 .. 9, f \in chip[c].flags
        PROVE  10 * c + f \in Present
    BY <1>9 DEF Present
  <1> QED
    BY <1>2, <1>5, <1>6, <1>7, <1>8, <1>9

LEMMA SameFaults ==
  ASSUME firmware' = firmware, \A c \in Channels : chip'[c].flags = chip[c].flags
  PROVE  Faults' = Faults /\ Present' = Present
  <1>1. Channels' = Channels
    BY SameBoard
  <1>2. \A c \in Channels : Visible(chip[c])' = Visible(chip[c])
    BY DEF Visible
  <1> QED
    BY <1>1, <1>2 DEF Faults, Present

(* What the heartbeat will say, as health() has computed it.               *)
Said == IF health = "nominal" THEN NONE ELSE code

(* How far health() has come: the drv_status of a channel comes after its  *)
(* gstat.                                                                  *)
Bound == IF scan.reg = "gstat" THEN 10 * scan.chan ELSE 10 * scan.chan + 2

HealthInv ==
  /\ raised \subseteq 0 .. 99
  /\ pc # "health" => scan = ScanFrom(0)
  /\ pc \in {"health", "heartbeat"} => lasting \subseteq Faults /\ Present \subseteq raised
  /\ pc = "health" => Upto(scan.code, Bound, raised, lasting)
  /\ pc = "heartbeat" => Upto(Said, 10 * NumChannels[firmware], raised, lasting)

(* The faults change, and the ghosts follow.                               *)
LEMMA SameHealth ==
  ASSUME TypeInv, HealthInv, UNCHANGED <<firmware, pc, scan, health, code>>,
         raised \subseteq raised', raised' \subseteq 0 .. 99, lasting' \subseteq lasting,
         pc \in {"health", "heartbeat"} => lasting' \subseteq Faults' /\ Present' \subseteq raised'
  PROVE  HealthInv'
  <1>1. /\ scan.code \in Int /\ scan.chan \in Int /\ code \in Int
        /\ NumChannels[firmware] \in Int
    <2>1. firmware \in Firmwares /\ scan.chan \in Channels
      BY DEF TypeInv, ScanType, LoopType
    <2>2. scan.chan \in Int /\ NumChannels[firmware] \in Int
      BY <2>1, Boards, Constants
    <2> QED
      BY <2>2 DEF TypeInv, ScanType, CodeOf
  <1>2. Bound \in Int /\ Said \in Int /\ 10 * NumChannels[firmware] \in Int
    BY <1>1 DEF Bound, Said, NONE
  <1>3. Bound' = Bound /\ Said' = Said /\ (10 * NumChannels[firmware])' = 10 * NumChannels[firmware]
    BY DEF Bound, Said
  <1>4. pc = "health" => Upto(scan.code, Bound, raised', lasting')
    BY <1>1, <1>2, UptoMore DEF HealthInv
  <1>5. pc = "heartbeat" => Upto(Said, 10 * NumChannels[firmware], raised', lasting')
    BY <1>2, UptoMore DEF HealthInv
  <1> QED
    BY <1>3, <1>4, <1>5 DEF HealthInv

(* health() begins.                                                        *)
LEMMA BeginHealth ==
  ASSUME TypeInv, HealthInv, pc # "health", pc' = "health", BeginScan,
         UNCHANGED <<firmware, scan>>, \A c \in Channels : chip'[c].flags = chip[c].flags
  PROVE  HealthInv'
  <1>1. raised' = Present /\ lasting' = Faults /\ scan' = ScanFrom(0)
    BY DEF HealthInv, BeginScan
  <1>2. Faults' = Faults /\ Present' = Present
    BY SameFaults
  <1>3. Present \subseteq 0 .. 99 /\ Faults \subseteq 0 .. 99
    BY FaultSets
  <1>4. scan'.code = NONE /\ scan'.reg = "gstat" /\ scan'.chan = 0
    BY <1>1 DEF ScanFrom
  <1>5. Bound' = 0
    BY <1>4 DEF Bound
  <1>6. Upto(NONE, 0, Present, Faults)
    BY <1>3 DEF Upto
  <1> QED
    BY <1>1, <1>2, <1>3, <1>4, <1>5, <1>6 DEF HealthInv

(* Outside health() and before the heartbeat nothing is promised.          *)
LEMMA ElsewhereHealth ==
  ASSUME pc' \notin {"health", "heartbeat"}, scan' = ScanFrom(0), raised' \subseteq 0 .. 99
  PROVE  HealthInv'
  BY DEF HealthInv

LEMMA NextChannelHealth ==
  ASSUME TypeInv, HealthInv, pc = "health", NEW result \in Int,
         Upto(result, 10 * scan.chan + 10, raised, lasting), NextChannel(result),
         UNCHANGED <<firmware, raised, lasting>>, Faults' = Faults, Present' = Present
  PROVE  HealthInv'
  <1>1. scan.chan \in Channels /\ NumChannels[firmware] \in 2 .. 10
    BY Constants DEF TypeInv, ScanType, LoopType
  <1>2. CASE scan.chan + 1 \in Channels
    <2>1. scan' = [ScanFrom(scan.chan + 1) EXCEPT !.code = result] /\ pc' = pc
      BY <1>2 DEF NextChannel
    <2>2. scan'.chan = scan.chan + 1 /\ scan'.reg = "gstat" /\ scan'.code = result
      BY <2>1 DEF ScanFrom
    <2>3. Bound' = 10 * scan.chan + 10
      <3>1. scan.chan \in Int
        BY <1>1, Boards DEF TypeInv, LoopType
      <3> QED
        BY <2>2, <3>1 DEF Bound
    <2> QED
      BY <2>1, <2>2, <2>3 DEF HealthInv
  <1>3. CASE scan.chan + 1 \notin Channels
    <2>1. Report(result)
      BY <1>3 DEF NextChannel
    <2>2. /\ pc' = "heartbeat" /\ scan' = ScanFrom(0)
          /\ result = NONE => health' = "nominal"
          /\ result # NONE => health' = "advisory" /\ code' = result
      BY <2>1 DEF Report
    <2>3. Said' = result
      BY <2>2 DEF Said
    <2>4. 10 * scan.chan + 10 = 10 * NumChannels[firmware]
      BY <1>1, <1>3 DEF Channels, Board
    <2> QED
      BY <2>2, <2>3, <2>4 DEF HealthInv
  <1> QED
    BY <1>2, <1>3

LEMMA ScanHealth == TypeInv /\ HealthInv /\ Scan => HealthInv'
  <1>. SUFFICES ASSUME TypeInv, HealthInv, Scan PROVE HealthInv'
    OBVIOUS
  <1>. DEFINE c == scan.chan
              p == 10 * c
              h == scan.code
              answer == read_reg(chip[c], scan.reg).answer
              flags == chip[c].flags
  <1>1. /\ c \in Channels /\ scan.reg \in {"gstat", "drv_status"} /\ h \in Int /\ (h = NONE \/ h >= 0)
        /\ firmware \in Firmwares
    BY DEF TypeInv, ScanType, LoopType, CodeOf
  <1>2. c \in 0 .. 9 /\ p \in Int /\ 0 <= p /\ p <= 90
    BY <1>1, Boards
  <1>3. /\ pc = "health"
        /\ chip' = [chip EXCEPT ![c] = read_reg(chip[c], scan.reg).chip]
        /\ UNCHANGED <<firmware, raised, lasting>>
    BY DEF Scan, ghosts
  <1>4. chip \in [Channels -> ChipType] /\ chip[c] \in ChipType
    BY <1>1 DEF TypeInv, MotorType
  <1>5. /\ read_reg(chip[c], scan.reg).chip = [chip[c] EXCEPT !.addr = "other"]
        /\ scan.reg = "gstat" => answer = flags \cap {0, 1, DRV_ERR}
        /\ scan.reg = "drv_status" => answer = flags \cap (2 .. 9)
    BY <1>1, <1>4, ReadReg
  <1>6. Faults' = Faults /\ Present' = Present
    <2>1. \A d \in Channels : chip'[d].flags = chip[d].flags
      BY <1>1, <1>3, <1>4, <1>5 DEF ChipType
    <2> QED
      BY <1>3, <2>1, SameFaults
  <1>7. /\ lasting \subseteq Faults /\ Present \subseteq raised
        /\ raised \in SUBSET Int /\ lasting \in SUBSET Int
    BY <1>3, FaultSets DEF HealthInv
  <1>8. /\ \A f \in 0 .. 9 : 10 * c + f \in Faults => f \in Visible(chip[c])
        /\ \A f \in 0 .. 9 : f \in flags => 10 * c + f \in Present
        /\ \A x \in Faults : 10 * c <= x /\ x < 10 * c + 10 => \E f \in Visible(chip[c]) : x = 10 * c + f
        /\ Visible(chip[c]) \subseteq flags \cap (0 .. 9)
    BY <1>1, FaultSets
  <1>9. DRV_ERR \notin flags => Visible(chip[c]) \subseteq {0, 1}
    BY DEF Visible
  <1>. HIDE DEF answer, flags, c, h, p
  <1>10. ASSUME NEW f \in 0 .. 9,
                (scan.reg = "gstat" /\ f \in {0, 1}) \/ (scan.reg # "gstat" /\ f >= 2)
         PROVE  Answers(answer, p, f, raised, lasting)
    <2>1. f \in answer <=> f \in flags
      BY <1>1, <1>5, <1>10
    <2>2. p + f = 10 * c + f
      BY DEF p
    <2> QED
      BY <1>7, <1>8, <2>1, <2>2 DEF Answers
  <1>11. CASE scan.reg = "gstat"
    <2>1. Upto(h, p, raised, lasting)
      BY <1>3, <1>11 DEF HealthInv, Bound, p, h, c
    <2>2. Upto(h, p + 0, raised, lasting) /\ 0 <= p + 0 /\ p + 0 < 99
      BY <1>2, <2>1
    <2>. DEFINE k == AppendPair(h, answer, p, 0)
    <2>3. PICK z \in Int : z = 0 /\ z + 1 = 1 /\ z \in 0 .. 9 /\ z + 1 \in 0 .. 9
      OBVIOUS
    <2>4. Answers(answer, p, z, raised, lasting) /\ Answers(answer, p, z + 1, raised, lasting)
      BY <1>10, <1>11, <2>3
    <2>5. Upto(k, p + 2, raised, lasting) /\ k \in Int
      <3>1. LET l == AppendPair(h, answer, p, z) IN Upto(l, p + z + 2, raised, lasting) /\ l \in Int
        BY <1>1, <1>2, <1>7, <2>2, <2>3, <2>4, AppendPairUpto DEF h
      <3> QED
        BY <1>2, <2>3, <3>1
    <2>. HIDE DEF k
    <2>6. CASE DRV_ERR \in answer
      <3>1. scan' = [scan EXCEPT !.reg = "drv_status", !.code = k] /\ pc' = pc
        BY <1>11, <2>6 DEF Scan, answer, k, p, h, c
      <3>2. scan'.reg = "drv_status" /\ scan'.code = k /\ scan'.chan = c
        BY <3>1 DEF TypeInv, ScanType, c
      <3>3. Bound' = p + 2
        BY <3>2 DEF Bound, p
      <3> QED
        BY <1>3, <1>6, <1>7, <2>5, <3>1, <3>2, <3>3 DEF HealthInv
    <2>7. CASE DRV_ERR \notin answer
      <3>1. NextChannel(k)
        BY <1>11, <2>7 DEF Scan, answer, k, p, h, c
      <3>2. DRV_ERR \notin flags
        BY <1>5, <1>11, <2>7
      <3>3. \A x \in lasting : ~(p + 2 <= x /\ x < p + 10)
        <4>. SUFFICES ASSUME NEW x \in lasting, p + 2 <= x, x < p + 10 PROVE FALSE
          OBVIOUS
        <4>1. x \in Int /\ x \in Faults /\ 10 * c <= x /\ x < 10 * c + 10
          BY <1>2, <1>7 DEF p
        <4>2. PICK f \in Visible(chip[c]) : x = 10 * c + f
          BY <1>8, <4>1
        <4>3. f \in {0, 1}
          BY <1>9, <3>2
        <4> QED
          BY <1>2, <4>2, <4>3 DEF p
      <3>4. Upto(k, p + 10, raised, lasting)
        <4>1. p + 2 \in Int /\ p + 10 \in Int /\ p + 2 <= p + 10
          BY <1>2
        <4> QED
          BY <1>7, <2>5, <3>3, <4>1, UptoSkip
      <3> QED
        BY <1>3, <1>6, <2>5, <3>1, <3>4, NextChannelHealth DEF p, c
    <2> QED
      BY <2>6, <2>7
  <1>12. CASE scan.reg # "gstat"
    <2>1. Upto(h, p + 2, raised, lasting)
      BY <1>3, <1>12 DEF HealthInv, Bound, p, h, c
    <2>. DEFINE k == AppendDriver(h, answer, p)
    <2>2. \A f \in 2 .. 9 : Answers(answer, p, f, raised, lasting)
      BY <1>10, <1>12
    <2>3. Upto(k, p + 10, raised, lasting) /\ k \in Int
      BY <1>1, <1>2, <1>7, <2>1, <2>2, AppendDriverUpto
    <2>4. NextChannel(k)
      BY <1>12 DEF Scan, answer, p, h, c
    <2>. HIDE DEF k
    <2> QED
      BY <1>3, <1>6, <2>3, <2>4, NextChannelHealth DEF p, c
  <1> QED
    BY <1>11, <1>12

(* The codes of all the flags there are, before and after a step.          *)
Codes == Present \subseteq 0 .. 99

LEMMA CodesNext == TypeInv' => Codes'
  <1>1. TypeInv => Codes
    BY FaultSets DEF Codes
  <1> QED
    BY <1>1, PTL

(* A chip fails, cools down or loses its supply while it is being read, or *)
(* after it has been.                                                      *)
LEMMA MotorsHealth ==
  ASSUME TypeInv, HealthInv, NEW c \in Channels, Turn(c) \/ DriverFault(c) \/ Cool(c) \/ PowerLoss(c)
  PROVE  HealthInv'
  <1>1. UNCHANGED <<firmware, pc, scan, health, code>> /\ Channels' = Channels
    BY SameBoard DEF Turn, DriverFault, Cool, PowerLoss, node
  <1>2. chip \in [Channels -> ChipType]
    BY DEF TypeInv, MotorType
  <1>3. TypeInv'
    BY MotorsType
  <1>4. Present' \subseteq 0 .. 99
    BY <1>3, CodesNext DEF Codes
  <1>5. raised \subseteq 0 .. 99 /\ (pc \in {"health", "heartbeat"} => lasting \subseteq Faults /\ Present \subseteq raised)
    BY DEF HealthInv
  <1>6. CASE Turn(c)
    <2>1. raised' = raised /\ lasting' = lasting
      BY <1>6 DEF Turn, ghosts
    <2>2. PICK ch \in ChipType : chip' = [chip EXCEPT ![c] = ch] /\ ch.flags = chip[c].flags
      BY <1>6, Turned
    <2>3. Faults' = Faults /\ Present' = Present
      BY <1>1, <1>2, <2>2, SameFaults
    <2> QED
      BY <1>1, <1>5, <2>1, <2>3, SameHealth
  <1>7. CASE DriverFault(c) \/ PowerLoss(c)
    <2>1. /\ raised' = IF pc \in {"health", "heartbeat"} THEN raised \cup Present' ELSE raised
          /\ lasting' = lasting \cap Faults'
      BY <1>7 DEF DriverFault, PowerLoss, Faulty
    <2>2. /\ raised \subseteq raised' /\ raised' \subseteq 0 .. 99 /\ lasting' \subseteq lasting
          /\ pc \in {"health", "heartbeat"} => lasting' \subseteq Faults' /\ Present' \subseteq raised'
      BY <1>4, <1>5, <2>1
    <2> QED
      BY <1>1, <2>2, SameHealth
  <1>8. CASE Cool(c)
    <2>1. /\ chip' = [chip EXCEPT ![c].flags = @ \ {2, 3}] /\ raised' = raised
          /\ lasting' = lasting \cap Faults'
      BY <1>8 DEF Cool
    <2>2. \A d \in Channels : chip'[d].flags \subseteq chip[d].flags
      BY <1>2, <2>1 DEF ChipType
    <2>3. Present' \subseteq Present
      BY <1>1, <2>2 DEF Present
    <2> QED
      BY <1>1, <1>5, <2>1, <2>3, SameHealth
  <1> QED
    BY <1>6, <1>7, <1>8

LEMMA InitHealth == Init => HealthInv
  BY DEF Init, HealthInv

LEMMA NextHealth == TypeInv /\ HealthInv /\ [Next]_vars => HealthInv'
  <1>. SUFFICES ASSUME TypeInv, HealthInv, [Next]_vars PROVE HealthInv'
    OBVIOUS
  <1>1. raised \subseteq 0 .. 99 /\ (pc # "health" => scan = ScanFrom(0))
    BY DEF HealthInv
  <1>2. CASE Configure
    <2>1. UNCHANGED <<scan, raised>> /\ pc = "config" /\ pc' \in {"config", "receive"}
      BY <1>2 DEF Configure
    <2> QED
      BY <1>1, <2>1, ElsewhereHealth
  <1>3. CASE NoMessage
    <2>1. /\ pc = "receive" /\ pc' = "health" /\ BeginScan
          /\ UNCHANGED <<firmware, scan, chip>>
      BY <1>3 DEF NoMessage, TurnBegins, motors
    <2> QED
      BY <2>1, BeginHealth
  <1>4. CASE HandleMessage
    <2>1. PICK axis \in Axes(firmware), value \in Setpoints :
            axis[1] \in Channels /\ SetTarget(axis, value)
      BY <1>4, MessageHead
    <2>2. PICK d \in ChipType :
            chip' = [chip EXCEPT ![axis[1]] = d] /\ d.flags = chip[axis[1]].flags
      BY <2>1, SetTargetChip
    <2>3. \A c \in Channels : chip'[c].flags = chip[c].flags
      BY <2>1, <2>2 DEF TypeInv, MotorType
    <2>4. pc = "receive" /\ pc' = "health" /\ BeginScan /\ UNCHANGED <<firmware, scan>>
      BY <1>4 DEF HandleMessage, TurnBegins
    <2> QED
      BY <2>3, <2>4, BeginHealth
  <1>5. CASE HandleRestart \/ PowerCycle
    <2>1. pc' = "config" /\ scan' = ScanFrom(0) /\ raised' = {}
      BY <1>5 DEF HandleRestart, PowerCycle, Reboot
    <2> QED
      BY <2>1, ElsewhereHealth
  <1>6. CASE HandleOther
    <2>1. /\ pc = "receive" /\ pc' \in {"health", "panic"} /\ BeginScan
          /\ UNCHANGED <<firmware, scan, chip>>
      BY <1>6 DEF HandleOther, TurnBegins, Transmit, motors
    <2>2. raised' \subseteq 0 .. 99
      BY <2>1, FaultSets DEF BeginScan
    <2> QED
      BY <1>1, <2>1, <2>2, BeginHealth, ElsewhereHealth
  <1>7. CASE Heartbeat \/ NoHeartbeat
    <2>1. pc = "heartbeat" /\ pc' \in {"receive", "panic"} /\ scan' = scan /\ raised' = {}
      BY <1>7 DEF Heartbeat, NoHeartbeat, Transmit
    <2> QED
      BY <1>1, <2>1, ElsewhereHealth
  <1>8. CASE Tick \/ Sent \/ Deliver \/ BusOff \/ UNCHANGED vars
    <2>1. UNCHANGED <<firmware, pc, scan, health, code, chip, raised, lasting>>
      BY <1>8 DEF Tick, Sent, Deliver, BusOff, vars, node, motors, ghosts
    <2>2. Faults' = Faults /\ Present' = Present
      BY <2>1, SameFaults
    <2> QED
      BY <2>1, <2>2, SameHealth DEF HealthInv
  <1> QED
    BY <1>2, <1>3, <1>4, <1>5, <1>6, <1>7, <1>8, ScanHealth, MotorsHealth DEF Next, Processor

(* Sets with two members, and with one at most.                            *)
LEMMA TwoMembers ==
  ASSUME NEW S, IsFiniteSet(S), NEW x \in S, NEW y \in S, x # y
  PROVE  Cardinality(S) > 1
  <1>1. IsFiniteSet({x}) /\ Cardinality({x}) = 1
    BY FS_Singleton
  <1>2. IsFiniteSet({x} \cup {y}) /\ Cardinality({x} \cup {y}) = 2
    <2>1. y \notin {x}
      OBVIOUS
    <2>2. /\ IsFiniteSet({x} \cup {y})
          /\ Cardinality({x} \cup {y}) = Cardinality({x}) + 1
      BY <1>1, <2>1, FS_AddElement
    <2> QED
      BY <1>1, <2>2
  <1>3. {x} \cup {y} \subseteq S
    OBVIOUS
  <1>4. Cardinality({x} \cup {y}) <= Cardinality(S) /\ Cardinality(S) \in Nat
    BY <1>3, FS_Subset, FS_CardinalityType
  <1> QED
    BY <1>2, <1>4

LEMMA OneMember ==
  ASSUME NEW x, NEW S, S \subseteq {x}
  PROVE  ~(Cardinality(S) > 1)
  <1>1. IsFiniteSet({x}) /\ Cardinality({x}) = 1
    BY FS_Singleton
  <1>2. IsFiniteSet(S) /\ Cardinality(S) <= 1
    BY <1>1, FS_Subset
  <1>3. Cardinality(S) \in Nat
    BY <1>2, FS_CardinalityType
  <1> QED
    BY <1>2, <1>3

(* A heartbeat is nominal only if no fault was visible all through the     *)
(* scan; its code is that of a fault there was, and adds a hundred if and  *)
(* only if there were more: whatever the chips do between two transfers,   *)
(* for any number of channels up to ten and any flags.                     *)
THEOREM Truthful == Spec => []HealthTrue
  <1>1. TypeInv /\ HealthInv => HealthTrue
    <2>. SUFFICES ASSUME TypeInv, HealthInv, pc = "heartbeat" PROVE HealthTrue
      BY DEF HealthTrue
    <2>1. /\ Upto(Said, 10 * NumChannels[firmware], raised, lasting)
          /\ lasting \subseteq Faults /\ raised \subseteq 0 .. 99
      BY DEF HealthInv
    <2>2. \A x \in lasting : x < 10 * NumChannels[firmware] /\ x \in 0 .. 99
      BY <2>1, FaultSets
    <2>3. NumChannels[firmware] \in 2 .. 10 /\ code \in Int /\ code # NONE
          /\ health \in {"nominal", "advisory"}
      BY Constants DEF TypeInv, ScanType, LoopType, CodeOf
    <2>4. CASE health = "nominal"
      <3>1. Said = NONE
        BY <2>4 DEF Said
      <3>2. lasting = {}
        BY <2>1, <2>2, <2>3, <3>1 DEF Upto
      <3> QED
        BY <2>4, <3>2 DEF HealthTrue
    <2>5. CASE health # "nominal"
      <3>1. Upto(code, 10 * NumChannels[firmware], raised, lasting)
        BY <2>1, <2>5 DEF Said
      <3>2. /\ code % 100 \in raised /\ \A x \in lasting : code % 100 <= x
            /\ code >= 100 => \E x, y \in raised : x # y
            /\ code < 100 => \A x \in lasting : x = code
        BY <2>2, <2>3, <3>1 DEF Upto
      <3>3. IsFiniteSet(raised)
        <4>1. PICK a \in Int, b \in Int : a = 0 /\ b = 99
          OBVIOUS
        <4>2. IsFiniteSet(0 .. 99)
          <5>1. IsFiniteSet(a .. b)
            BY FS_Interval
          <5> QED
            BY <4>1, <5>1
        <4> QED
          BY <2>1, <4>2, FS_Subset
      <3>4. code >= 100 => Cardinality(raised) > 1
        BY <3>2, <3>3, TwoMembers
      <3>5. code < 100 => ~(Cardinality(lasting) > 1)
        <4>. SUFFICES ASSUME code < 100 PROVE ~(Cardinality(lasting) > 1)
          OBVIOUS
        <4>1. lasting \subseteq {code}
          BY <3>2
        <4> QED
          BY <4>1, OneMember
      <3>6. Cardinality(lasting) > 1 => code >= 100
        BY <2>3, <3>5
      <3> QED
        BY <2>5, <3>2, <3>4, <3>6 DEF HealthTrue
    <2> QED
      BY <2>4, <2>5
  <1>2. Spec => []TypeInv
    BY InitType, NextType, PTL DEF Spec
  <1> QED
    BY <1>1, <1>2, InitHealth, NextHealth, PTL DEF Spec

=============================================================================
