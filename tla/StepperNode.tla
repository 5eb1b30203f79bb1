---------------------------- MODULE StepperNode ----------------------------
(***************************************************************************)
(* A stepper board on the CAN bus: the main loop of the drivebase firmware *)
(* (four steered wheels) or of the shovel firmware (pivot, bucket and      *)
(* paver), the CAN driver, the clock and the stepper bus of                *)
(* embedded_common, and the TMC5160 chips at the other end of the bus.     *)
(*                                                                         *)
(* The processor is one thread: receive, health, heartbeat, and again.     *)
(* What it shares with the outside are the registers of the chips, reached *)
(* one at a time over SPI, and the FIFOs of the CAN peripheral.  The chips *)
(* turn, fail and lose power whatever the processor is doing.              *)
(*                                                                         *)
(* A chip's flags are numbered as health() numbers them: 0 reset, 1        *)
(* undervoltage, 2 .. 9 the flags of DRV_STATUS; 10 is GSTAT.drv_err.      *)
(***************************************************************************)
EXTENDS Integers, Sequences, FiniteSets

CONSTANTS
  Firmwares,      \* the firmwares considered: "drivebase", "shovel"
  NumChannels,    \* ALL_CHANNELS.len(), for the board of each firmware
  Setpoints,      \* the numbers that setpoint messages carry, and perhaps NaN
  NaN,
  GEAR_RATIO, MAX_DUTY,
  ChipFaults,     \* the flags that a chip may raise, out of 1 .. 9
  RxDepth,        \* elements of the Rx FIFO of the CAN peripheral
  TICKS,          \* values of the microsecond counter
  PERIOD,         \* HEARTBEAT_PERIOD_US
  MaxMessages, MaxFaults, MaxRestarts,  \* bounds: events from outside
  MaxShaft        \* bound: how far a chip counts while its mode is hold

ASSUME NodeAssumption ==
  /\ Firmwares \subseteq {"drivebase", "shovel"}
  /\ NumChannels \in [Firmwares -> Nat] /\ \A fw \in Firmwares : NumChannels[fw] \in 2 .. 10
  /\ NaN \notin Int /\ Setpoints \subseteq Int \cup {NaN}
  /\ GEAR_RATIO \in Nat \ {0} /\ MAX_DUTY \in Nat \ {0}
  /\ ChipFaults \subseteq 1 .. 9 /\ RxDepth \in Nat \ {0}
  /\ TICKS \in Nat /\ PERIOD \in Nat /\ 0 < PERIOD /\ 2 * PERIOD < TICKS
  /\ MaxMessages \in Nat /\ MaxFaults \in Nat /\ MaxRestarts \in Nat /\ MaxShaft \in Nat

NONE == -1
TxDepth == 3                       \* "the TX buffer has space for three messages"
Board(fw) == 0 .. NumChannels[fw] - 1
DRV_ERR == 10
Shutdown == {2, 4, 5, 6, 7}        \* the faults upon which a chip stops its motor

(* The drivebase uses every channel of its board, the shovel firmware the  *)
(* last two of its own.                                                    *)
Wheels == IF "drivebase" \in Firmwares THEN Board("drivebase") ELSE {}
CHANNEL_SHOVEL == NumChannels["shovel"] - 2
CHANNEL_PAVER  == NumChannels["shovel"] - 1

(* What a setpoint message is for: a channel and the half of its target    *)
(* register.  Pivot and bucket are the two coils of one chip.              *)
Axes(fw) ==
  IF fw = "drivebase" THEN Board(fw) \X {"a"}
  ELSE {<<CHANNEL_SHOVEL, "a">>, <<CHANNEL_SHOVEL, "b">>, <<CHANNEL_PAVER, "a">>}

(* A float becomes an integer by a saturating cast, which makes 0 of NaN.  *)
AsSteps(s) == IF s = NaN THEN 0 ELSE s * GEAR_RATIO
(* Mutant: the duty is not clamped.                                        *)
AsDutyRaw(s) == IF s = NaN THEN 0 ELSE s * MAX_DUTY

AsDuty(s) ==
  IF s = NaN THEN 0
  ELSE IF s * MAX_DUTY > MAX_DUTY THEN MAX_DUTY
  ELSE IF s * MAX_DUTY < -MAX_DUTY THEN -MAX_DUTY
  ELSE s * MAX_DUTY

VARIABLES
  firmware,
  pc,             \* "config", "receive", "health", "heartbeat" or "panic"
  configured,     \* how many writes of config_steppers are done
  duty,           \* Motion: pivot_duty and bucket_duty
  scan,           \* health(): channel, register, code so far
  health, code,   \* of the node, as its next heartbeat will say
  start,          \* tim_heartbeat
  now,            \* the microsecond counter
  rx, tx,         \* the FIFOs of the CAN peripheral
  busOff,         \* the peripheral has left the bus
  chip,           \* the TMC5160s
  shaft,          \* where the shaft of each motor really is
  budget,         \* how much of each bound is left
  told,           \* ghost: the health that the last heartbeat told
  since,          \* ghost: ticks since then
  asked,          \* ghost: the last setpoint taken from the bus for an axis, {} if
                  \* the node has forgotten it
  raised,         \* ghost: the faults there were at some time since the scan began
  lasting,        \* ghost: the faults visible all the time since then
  resting,        \* ghost: where a wheel rested when the node restarted
  intact          \* ghost: wheels without a fault or a restart so far

Channels == Board(firmware)

node == <<firmware, pc, configured, duty, scan, health, code, start>>
can == <<rx, tx, busOff>>
motors == <<chip, shaft>>
ghosts == <<told, since, asked, raised, lasting, resting, intact>>
vars == <<node, now, can, motors, budget, ghosts>>

-----------------------------------------------------------------------------
(* The chips                                                               *)

Sign(x) == IF x > 0 THEN 1 ELSE IF x < 0 THEN -1 ELSE 0
ZeroTarget == [f \in {"a", "b"} |-> 0]

PowerOnChip ==
  [flags |-> {0}, addr |-> "other", mode |-> "position", ramp |-> FALSE,
   target |-> ZeroTarget, xactual |-> 0, vel |-> 0]

(* What health() can see of a chip: DRV_STATUS only next to drv_err.       *)
Visible(ch) ==
  (ch.flags \cap {0, 1}) \cup (IF DRV_ERR \in ch.flags THEN ch.flags \cap (2 .. 9) ELSE {})

(* The faults that are visible, as status codes; and all there are.        *)
Faults == UNION {{10 * c + f : f \in Visible(chip[c])} : c \in Channels}
Present == UNION {{10 * c + f : f \in chip[c].flags \cap (0 .. 9)} : c \in Channels}

AtRest(ch) == ch.vel = 0 /\ ch.xactual = ch.target.a

(* The speed a chip's ramp generator gives the motor.  In hold mode it     *)
(* keeps the one it has.                                                   *)
Speed(ch) ==
  IF ch.mode = "hold" THEN ch.vel
  ELSE IF ch.ramp THEN Sign(ch.target.a - ch.xactual)
  ELSE 0

(* One step of a ramp.  A chip that has shut its driver down goes on       *)
(* counting, but the shaft stays.                                          *)
Turn(c) ==
  LET ch == chip[c]
      s == Speed(ch) IN
  /\ firmware = "drivebase"
  /\ s # 0 \/ ch.vel # 0
  /\ ch.mode = "hold" => ch.xactual + s \in -MaxShaft .. MaxShaft
  /\ chip' = [chip EXCEPT ![c].xactual = @ + s,
                          ![c].vel = IF ch.mode = "position" /\ ch.xactual + s = ch.target.a
                                     THEN 0 ELSE s]
  /\ shaft' = [shaft EXCEPT ![c] = IF DRV_ERR \in ch.flags THEN @ ELSE @ + s]
  /\ UNCHANGED <<node, now, can, budget, ghosts>>

(* What a fault makes of the ghosts.                                       *)
Faulty(c) ==
  /\ raised' = IF pc \in {"health", "heartbeat"} THEN raised \cup Present' ELSE raised
  /\ lasting' = lasting \cap Faults'
  /\ intact' = intact \ {c}
  /\ UNCHANGED <<told, since, asked>>

SpendFault ==
  /\ budget.faults > 0
  /\ budget' = [budget EXCEPT !.faults = @ - 1]

(* Overtemperature, a short or an open coil; undervoltage of the charge    *)
(* pump is latched like a fault of GSTAT.                                  *)
DriverFault(c) ==
  \E f \in ChipFaults :
    /\ f \notin chip[c].flags
    /\ SpendFault
    /\ chip' = [chip EXCEPT ![c].flags =
                  @ \cup {f} \cup (IF f \in Shutdown THEN {DRV_ERR} ELSE {})]
    /\ UNCHANGED <<node, now, can, shaft, resting>>
    /\ Faulty(c)

(* The chip cools down: the temperature flags go, drv_err stays.           *)
Cool(c) ==
  /\ chip[c].flags \cap {2, 3} # {}
  /\ chip' = [chip EXCEPT ![c].flags = @ \ {2, 3}]
  /\ UNCHANGED <<node, now, can, shaft, budget, told, since, asked, raised, resting, intact>>
  /\ lasting' = lasting \cap Faults'

(* A chip loses its supply and comes back with its registers cleared.      *)
PowerLoss(c) ==
  /\ SpendFault
  /\ chip' = [chip EXCEPT ![c] = PowerOnChip]
  /\ UNCHANGED <<node, now, can, shaft, resting>>
  /\ Faulty(c)

-----------------------------------------------------------------------------
(* The stepper bus.  A chip answers a transfer with the register that the  *)
(* transfer before it has named.                                           *)

Transfer(ch, reg) ==
  [chip   |-> [ch EXCEPT !.addr = reg],
   answer |-> IF ch.addr = "gstat" THEN ch.flags \cap {0, 1, DRV_ERR}
              ELSE IF ch.addr = "drv_status" THEN ch.flags \cap (2 .. 9)
              ELSE {}]

(* Mutant: the answer is taken from the transfer that asks for it.         *)
read_regOnce(ch, reg) == Transfer(ch, reg)

(* read_reg: the register's name, and then zeros for the answer.           *)
read_reg(ch, reg) == Transfer(Transfer(ch, reg).chip, "other")

(* write_reg to the target register.                                       *)
Written(ch, field, value) ==
  [Transfer(ch, "other").chip EXCEPT !.target[field] = value]

append_health(h, cond, c) ==
  IF ~cond THEN h
  ELSE IF h = NONE THEN c
  ELSE IF h >= 100 THEN h
  ELSE h + 100

(* The calls of append_health for two flags, and for those of DRV_STATUS,  *)
(* in order.                                                               *)
AppendPair(h, answer, prefix, f) ==
  append_health(append_health(h, f \in answer, prefix + f), f + 1 \in answer, prefix + f + 1)
AppendDriver(h, answer, prefix) ==
  LET shorts == AppendPair(AppendPair(h, answer, prefix, 2), answer, prefix, 4) IN
  AppendPair(AppendPair(shorts, answer, prefix, 6), answer, prefix, 8)

ScanFrom(c) == [chan |-> c, reg |-> "gstat", code |-> NONE]

(* The end of health(): what the loop makes of its result.                 *)
Report(result) ==
  /\ pc' = "heartbeat"
  /\ scan' = ScanFrom(0)
  /\ IF result = NONE
     THEN health' = "nominal" /\ UNCHANGED code
     ELSE health' = "advisory" /\ code' = result

(* health() goes to the next channel, or is done.                          *)
NextChannel(result) ==
  IF scan.chan + 1 \in Channels
  THEN /\ scan' = [ScanFrom(scan.chan + 1) EXCEPT !.code = result]
       /\ UNCHANGED <<pc, health, code>>
  ELSE Report(result)

(* health() reads one register of one channel.                             *)
Scan ==
  LET read == read_reg(chip[scan.chan], scan.reg)
      prefix == 10 * scan.chan IN
  /\ pc = "health"
  /\ chip' = [chip EXCEPT ![scan.chan] = read.chip]
  /\ IF scan.reg = "gstat"
     THEN LET result == AppendPair(scan.code, read.answer, prefix, 0) IN
          IF DRV_ERR \in read.answer
          THEN /\ scan' = [scan EXCEPT !.reg = "drv_status", !.code = result]
               /\ UNCHANGED <<pc, health, code>>
          ELSE NextChannel(result)
     ELSE NextChannel(AppendDriver(scan.code, read.answer, prefix))
  /\ UNCHANGED <<firmware, configured, duty, start, now, can, shaft, budget, ghosts>>

-----------------------------------------------------------------------------
(* config_steppers: the writes that matter to the motion, in their order.  *)
(* The drivebase stops the ramp generator before it moves the origin; the  *)
(* shovel runs in direct mode and leaves the target register as it is.     *)

(* Mutant: positioning begins before the old target is gone.               *)
StagesHasty == <<"hold", "xactual", "position", "xtarget">>

Stages == <<"hold", "xactual", "xtarget", "position">>

ConfigSeq(fw) ==
  IF fw = "drivebase"
  THEN [k \in 1 .. 4 * NumChannels[fw] |-> <<(k - 1) \div 4, Stages[((k - 1) % 4) + 1]>>]
  ELSE << <<CHANNEL_SHOVEL, "general">>, <<CHANNEL_PAVER, "general">> >>

(* GSTAT is cleared, in which drv_err can only be cleared when the         *)
(* temperature is below the limit.                                         *)
Cleared(ch) ==
  [ch EXCEPT !.flags = @ \ ({0, 1} \cup (IF 2 \in @ THEN {} ELSE {DRV_ERR}))]

(* Mutant: the ramp parameters are left out.                               *)
ConfigWriteNoRamp(ch, stage) ==
  CASE stage = "general"  -> Cleared(ch)
    [] stage = "hold"     -> [Cleared(ch) EXCEPT !.mode = "hold"]
    [] stage = "xactual"  -> [ch EXCEPT !.xactual = 0]
    [] stage = "xtarget"  -> Written(ch, "a", 0)
    [] stage = "position" -> [ch EXCEPT !.mode = "position"]

(* The effect of a stage on a chip, with that of the writes before it on   *)
(* which the motion does not depend.                                       *)
ConfigWrite(ch, stage) ==
  CASE stage = "general"  -> Cleared(ch)
    [] stage = "hold"     -> [Cleared(ch) EXCEPT !.mode = "hold"]
    [] stage = "xactual"  -> [ch EXCEPT !.xactual = 0]
    [] stage = "xtarget"  -> Written(ch, "a", 0)
    [] stage = "position" -> [ch EXCEPT !.mode = "position", !.ramp = TRUE]

(* One write; after the last one the loop begins.                          *)
Configure ==
  LET write == ConfigSeq(firmware)[configured + 1]
      last == configured + 1 = Len(ConfigSeq(firmware)) IN
  /\ pc = "config"
  /\ chip' = [chip EXCEPT ![write[1]] = ConfigWrite(@, write[2])]
  /\ configured' = IF last THEN 0 ELSE configured + 1
  /\ pc' = IF last THEN "receive" ELSE pc
  /\ start' = IF last THEN now ELSE start
  /\ since' = IF last THEN 0 ELSE since
  /\ UNCHANGED <<firmware, duty, scan, health, code, now, can, shaft, budget,
                 told, asked, raised, lasting, resting, intact>>

(* The processor restarts: its memory, its clock and the CAN peripheral.   *)
(* The chips are what the caller makes of them.                            *)
Reboot ==
  /\ pc' = "config" /\ configured' = 0
  /\ duty' = ZeroTarget /\ scan' = ScanFrom(0)
  /\ health' = "nominal" /\ code' = 0
  /\ now' = TICKS - 1 /\ start' = TICKS - 1
  /\ rx' = <<>> /\ tx' = <<>> /\ busOff' = FALSE
  /\ asked' = [a \in Axes(firmware) |-> IF firmware = "drivebase" THEN {0} ELSE {}]
  /\ raised' = {} /\ lasting' = {} /\ since' = 0 /\ intact' = {}
  /\ resting' = [c \in Channels |-> IF firmware = "drivebase" /\ AtRest(chip[c]) THEN {shaft[c]} ELSE {}]
  /\ UNCHANGED <<firmware, shaft, told>>

(* The supply of the whole board goes and comes back.                      *)
PowerCycle ==
  /\ budget.restarts > 0
  /\ budget' = [budget EXCEPT !.restarts = @ - 1]
  /\ Reboot
  /\ chip' = [c \in Channels |-> PowerOnChip]

-----------------------------------------------------------------------------
(* The CAN peripheral and its driver                                       *)

Messages(fw) ==
  [op : {"setpoint"}, axis : Axes(fw), value : Setpoints]
    \cup [op : {"restart", "other"}, axis : {<<0, "a">>}, value : {0}]

(* A message for this node arrives.  The filters refuse it before the loop *)
(* has begun, a full FIFO refuses it at any time.                          *)
Deliver ==
  /\ ~busOff /\ budget.messages > 0
  /\ \E m \in Messages(firmware) :
       /\ m.op = "restart" => budget.restarts > 0
       /\ budget' = [budget EXCEPT !.messages = @ - 1,
                                  !.restarts = IF m.op = "restart" THEN @ - 1 ELSE @]
       /\ IF pc # "config" /\ Len(rx) < RxDepth
          THEN /\ rx' = Append(rx, m)
               /\ asked' = IF m.op = "setpoint" THEN [asked EXCEPT ![m.axis] = {m.value}] ELSE asked
          ELSE UNCHANGED <<rx, asked>>
  /\ UNCHANGED <<node, now, tx, busOff, motors, told, since, raised, lasting, resting, intact>>

(* A frame leaves: automatic_retransmit is off, so it does so at once      *)
(* whether or not anybody receives it.                                     *)
Sent ==
  /\ ~busOff /\ tx # <<>>
  /\ tx' = Tail(tx)
  /\ UNCHANGED <<node, now, rx, busOff, motors, budget, ghosts>>

(* Too many errors: the peripheral stops, and nothing restarts it.         *)
BusOff ==
  /\ ~busOff
  /\ SpendFault
  /\ busOff' = TRUE
  /\ UNCHANGED <<node, now, rx, tx, motors, ghosts>>

(* Mutant: one buffer instead of three.                                    *)
RoomOne(frames) == Len(tx) + frames <= 1

Room(frames) == Len(tx) + frames <= TxDepth

(* transmit: with the buffers full a frame of higher priority may drive    *)
(* one of lower priority out (a heartbeat, any response); else the error   *)
(* goes up to an unwrap().                                                 *)
Transmit(frame, next) ==
  \/ /\ Room(1)
     /\ tx' = Append(tx, frame) /\ pc' = next
  \/ /\ ~Room(1) /\ frame = "heartbeat"
     /\ \E i \in DOMAIN tx : tx[i] = "response" /\ tx' = [tx EXCEPT ![i] = frame]
     /\ pc' = next
  \/ /\ ~Room(1)
     /\ pc' = "panic" /\ UNCHANGED tx

-----------------------------------------------------------------------------
(* The main loop                                                           *)

(* Frames leave faster than the loop turns, while the bus is there.        *)
TurnBegins == pc = "receive" /\ (busOff \/ tx = <<>>)

(* health() begins.                                                        *)
BeginScan ==
  /\ raised' = Present /\ lasting' = Faults

(* receive finds no message.                                               *)
NoMessage ==
  /\ TurnBegins /\ rx = <<>>
  /\ pc' = "health"
  /\ BeginScan
  /\ UNCHANGED <<firmware, configured, duty, scan, health, code, start, now, can, motors, budget,
                 told, since, asked, resting, intact>>

(* Mutant: only the coil that the message is for is written.               *)
SetTargetAlone(axis, value) ==
  LET c == axis[1] IN
  IF firmware = "drivebase"
  THEN /\ chip' = [chip EXCEPT ![c] = Written(@, "a", AsSteps(value))]
       /\ UNCHANGED duty
  ELSE /\ duty' = [ZeroTarget EXCEPT ![axis[2]] = AsDuty(value)]
       /\ chip' = [chip EXCEPT ![c] = Written(Written(@, "a", duty'["a"]), "b", duty'["b"])]

(* What a setpoint writes: set_position; set_pivot and set_bucket, which   *)
(* write both coils; set_paver.                                            *)
SetTarget(axis, value) ==
  LET c == axis[1] IN
  IF firmware = "drivebase"
  THEN /\ chip' = [chip EXCEPT ![c] = Written(@, "a", AsSteps(value))]
       /\ UNCHANGED duty
  ELSE IF c = CHANNEL_SHOVEL
  THEN /\ duty' = [duty EXCEPT ![axis[2]] = AsDuty(value)]
       /\ chip' = [chip EXCEPT ![c] = Written(Written(@, "a", duty'["a"]), "b", duty'["b"])]
  ELSE /\ chip' = [chip EXCEPT ![c] = Written(Written(@, "a", AsDuty(value)), "b", 0)]
       /\ UNCHANGED duty

(* handle_message                                                          *)
HandleMessage ==
  /\ TurnBegins /\ rx # <<>> /\ Head(rx).op = "setpoint"
  /\ rx' = Tail(rx)
  /\ SetTarget(Head(rx).axis, Head(rx).value)
  /\ resting' = [resting EXCEPT ![Head(rx).axis[1]] = {}]
  /\ pc' = "health"
  /\ BeginScan
  /\ UNCHANGED <<firmware, configured, scan, health, code, start, now, tx, busOff, shaft, budget,
                 told, since, asked, intact>>

(* handle_request, with COMMAND_RESTART.                                   *)
HandleRestart ==
  /\ TurnBegins /\ rx # <<>> /\ Head(rx).op = "restart"
  /\ Reboot
  /\ UNCHANGED <<chip, budget>>

(* handle_request, with any other command.                                 *)
HandleOther ==
  /\ TurnBegins /\ rx # <<>> /\ Head(rx).op = "other"
  /\ rx' = Tail(rx)
  /\ Transmit("response", "health")
  /\ BeginScan
  /\ UNCHANGED <<firmware, configured, duty, scan, health, code, start, now, busOff, motors, budget,
                 told, since, asked, resting, intact>>

(* Mutant: instants compare as numbers.                                    *)
LaterPlain(a, b) == a > b

(* Instants compare by the shorter way around the counter.                 *)
Later(a, b) == (a - b) % TICKS \in 1 .. (TICKS - 1) \div 2
NotBefore(a, b) == a = b \/ Later(a, b)

(* Mutant: the period has to be met exactly.                               *)
ElapsedExact == now = (start + PERIOD) % TICKS

(* advance_if_elapsed, its result and the new start.                       *)
Elapsed ==
  LET end == (start + PERIOD) % TICKS IN
  /\ ~(Later(start, end) /\ Later(now, start))
  /\ NotBefore(now, end)
Advanced ==
  LET end == (start + PERIOD) % TICKS IN
  IF NotBefore((end + PERIOD) % TICKS, end) THEN now ELSE end

(* run_per_second_tasks, when a second has passed.                         *)
Heartbeat ==
  /\ pc = "heartbeat" /\ Elapsed
  /\ start' = Advanced
  /\ Transmit("heartbeat", "receive")
  /\ told' = health
  /\ since' = 0
  /\ raised' = {} /\ lasting' = {}
  /\ UNCHANGED <<firmware, configured, duty, scan, health, code, now, rx, busOff, motors, budget,
                 asked, resting, intact>>

NoHeartbeat ==
  /\ pc = "heartbeat" /\ ~Elapsed
  /\ pc' = "receive"
  /\ raised' = {} /\ lasting' = {}
  /\ UNCHANGED <<firmware, configured, duty, scan, health, code, start, now, can, motors, budget,
                 told, since, asked, resting, intact>>

(* The counter, at the place where the loop looks at it.  A turn of the    *)
(* loop takes a millisecond: far less than half the counter's range passes *)
(* between two looks.                                                      *)
Tick ==
  /\ pc = "heartbeat"
  /\ (now - start) % TICKS < TICKS \div 2
  /\ now' = (now + 1) % TICKS
  /\ since' = since + 1
  /\ UNCHANGED <<node, can, motors, budget, told, asked, raised, lasting, resting, intact>>

Init ==
  /\ firmware \in Firmwares
  /\ pc = "config" /\ configured = 0 /\ duty = ZeroTarget /\ scan = ScanFrom(0)
  /\ health = "nominal" /\ code = 0
  /\ now = TICKS - 1 /\ start = TICKS - 1
  /\ rx = <<>> /\ tx = <<>> /\ busOff = FALSE
  /\ chip = [c \in Channels |-> PowerOnChip] /\ shaft = [c \in Channels |-> 0]
  /\ budget = [messages |-> MaxMessages, faults |-> MaxFaults, restarts |-> MaxRestarts]
  /\ told = "nominal" /\ since = 0
  /\ asked = [a \in Axes(firmware) |-> {0}]
  /\ raised = {} /\ lasting = {} /\ intact = (IF firmware = "drivebase" THEN Channels ELSE {})
  /\ resting = [c \in Channels |-> IF firmware = "drivebase" THEN {0} ELSE {}]

Processor ==
  \/ Configure \/ NoMessage \/ HandleMessage \/ HandleRestart \/ HandleOther
  \/ Scan \/ Heartbeat \/ NoHeartbeat

Next ==
  \/ Processor \/ Tick \/ Sent
  \/ Deliver \/ BusOff \/ PowerCycle
  \/ \E c \in Channels : Turn(c) \/ DriverFault(c) \/ Cool(c) \/ PowerLoss(c)

Spec == Init /\ [][Next]_vars

(* The processor runs, frames leave, motors turn.  Time passes: strongly,  *)
(* as Tick stands for the time of a whole turn of the loop.                *)
Fairness ==
  /\ WF_vars(Processor) /\ SF_vars(Tick) /\ WF_vars(Sent)
  /\ \A c \in Wheels : WF_vars(Turn(c))
FairSpec == Spec /\ Fairness
-----------------------------------------------------------------------------
(* Properties                                                              *)

ChipType ==
  [flags : SUBSET (0 .. 10), addr : {"gstat", "drv_status", "other"},
   mode : {"position", "hold"}, ramp : BOOLEAN, target : [{"a", "b"} -> Int],
   xactual : Int, vel : {-1, 0, 1}]

(* Every variable has its type.  A status code is one of a board's forty,  *)
(* or a hundred above it: two faults or more never make a u8 overflow.     *)
TypeOK ==
  /\ firmware \in Firmwares
  /\ pc \in {"config", "receive", "health", "heartbeat", "panic"}
  /\ configured \in Nat /\ configured < Len(ConfigSeq(firmware))
  /\ duty \in [{"a", "b"} -> -MAX_DUTY .. MAX_DUTY]
  /\ scan \in [chan : Channels, reg : {"gstat", "drv_status"},
               code : {NONE} \cup 0 .. 100 + 10 * NumChannels[firmware]]
  /\ health \in {"nominal", "advisory"} /\ code \in 0 .. 100 + 10 * NumChannels[firmware]
  /\ start \in 0 .. TICKS - 1 /\ now \in 0 .. TICKS - 1 /\ since \in Nat
  /\ Len(rx) <= RxDepth /\ \A i \in DOMAIN rx : rx[i] \in Messages(firmware)
  /\ Len(tx) <= TxDepth /\ \A i \in DOMAIN tx : tx[i] \in {"heartbeat", "response"}
  /\ busOff \in BOOLEAN
  /\ chip \in [Channels -> ChipType] /\ shaft \in [Channels -> Int]

(* The health the node is about to tell is the truth about its scan of the *)
(* chips, which goes on for many transfers while the chips change: it is   *)
(* nominal only if no fault was to be seen all the time; its code is that  *)
(* of a fault that was there, and of none with a higher number than one    *)
(* that was to be seen all the time; a hundred is added only if there were *)
(* more, and always if more were to be seen all the time.                  *)
HealthTrue ==
  pc = "heartbeat" =>
    IF health = "nominal" THEN lasting = {}
    ELSE /\ code % 100 \in raised
         /\ \A f \in lasting : code % 100 <= f
         /\ code >= 100 => Cardinality(raised) > 1
         /\ Cardinality(lasting) > 1 => code >= 100

(* What a chip is driven with is the last setpoint that the bus brought    *)
(* for it: each half of the shovel's chip, too, although the firmware      *)
(* writes both for either.                                                 *)
Obeys ==
  pc \in {"receive", "health", "heartbeat"} =>
    \A a \in Axes(firmware) : \A s \in asked[a] :
      (/\ 0 \notin chip[a[1]].flags
       /\ \A i \in DOMAIN rx : rx[i].axis # a \/ rx[i].op # "setpoint")
        => chip[a[1]].target[a[2]] = IF firmware = "drivebase" THEN AsSteps(s) ELSE AsDuty(s)

(* A wheel that stood still when the node restarted stays where it is      *)
(* until its next setpoint, although the registers of a chip that works    *)
(* are rewritten one by one.                                               *)
RestartStays == \A c \in Channels : \A x \in resting[c] : shaft[c] = x

(* A node panics on a full transmit buffer only when its peripheral has    *)
(* left the bus: try_reserve does not look at what is already waiting.     *)
PanicOnlyOffBus == pc = "panic" => busOff

(* Heartbeats are a period apart, also where the counter wraps around and  *)
(* when the loop has been held up.                                         *)
HeartbeatsApart ==
  [][pc = "heartbeat" /\ Len(tx') > Len(tx) => since >= PERIOD]_vars

(* A fault that stays is told by every heartbeat from some time on, as     *)
(* long as there is a bus to tell it on.                                   *)
FaultReported ==
  <>[](Faults # {}) => <>[](told = "advisory" \/ busOff)

(* Once the messages end (they are bounded here), every wheel without a    *)
(* fault or a restart comes to stand at its last setpoint.                 *)
Arrives ==
  <>[](pc # "panic" =>
         \A c \in intact : \A s \in asked[<<c, "a">>] : shaft[c] = AsSteps(s))
=============================================================================
