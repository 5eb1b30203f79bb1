------------------------- MODULE StepperNodeProofs -------------------------
(***************************************************************************)
(* Proofs about StepperNode, for both firmwares, any number of channels,   *)
(* any depth of the receive FIFO and any number of messages and faults.    *)
(***************************************************************************)
EXTENDS StepperNode, TLAPS

(* While the node is on the bus, a turn of the loop begins with empty      *)
(* transmit buffers, and health and heartbeat find one response in them at *)
(* most.  PanicOnlyOffBus says nothing of what is waiting, and so does not *)
(* carry over from one step to the next by itself.                         *)
FewWaiting ==
  /\ tx \in Seq({"heartbeat", "response"})
  /\ ~busOff => /\ pc # "panic"
                /\ pc \in {"health", "heartbeat"} => Len(tx) <= 1

(* A frame that finds room is appended, and the loop goes on.              *)
LEMMA TransmitRoom ==
  ASSUME FewWaiting, Len(tx) <= 1, NEW frame \in {"heartbeat", "response"}, NEW next,
         Transmit(frame, next)
  PROVE  tx' = Append(tx, frame) /\ pc' = next
  <1>1. Len(tx) \in Nat
    BY DEF FewWaiting
  <1>2. Room(1)
    BY <1>1 DEF Room, TxDepth
  <1> QED BY <1>2 DEF Transmit

(* Whatever becomes of a frame, the buffers hold frames.                   *)
LEMMA TransmitType ==
  ASSUME FewWaiting, NEW frame \in {"heartbeat", "response"}, NEW next, Transmit(frame, next)
  PROVE  tx' \in Seq({"heartbeat", "response"})
  <1> USE DEF FewWaiting
  <1>1. CASE tx' = Append(tx, frame)
    BY <1>1
  <1>2. CASE tx' = tx
    BY <1>2
  <1>3. ASSUME NEW j \in DOMAIN tx, tx' = [tx EXCEPT ![j] = frame]
        PROVE  tx' \in Seq({"heartbeat", "response"})
    BY <1>3
  <1> QED BY <1>1, <1>2, <1>3 DEF Transmit

(* Steps that leave the CAN peripheral and the place in the loop alone.    *)
LEMMA Elsewhere ==
  ASSUME FewWaiting, UNCHANGED <<tx, busOff, pc>>
  PROVE  FewWaiting'
  BY DEF FewWaiting

LEMMA InitFew == Init => FewWaiting
  <1> SUFFICES ASSUME Init PROVE FewWaiting
    OBVIOUS
  <1>1. tx = << >> /\ pc = "config"
    BY DEF Init
  <1> QED BY <1>1 DEF FewWaiting

(* The processor's own steps.                                              *)
LEMMA ProcessorFew ==
  ASSUME FewWaiting, Processor
  PROVE  FewWaiting'
  <1> USE DEF FewWaiting
  <1>1. CASE Configure
    <2>1. tx' = tx /\ busOff' = busOff /\ pc = "config" /\ pc' \in {"receive", pc}
      BY <1>1 DEF Configure, can
    <2> QED BY <2>1
  <1>2. CASE NoMessage \/ HandleMessage
    <2>1. tx' = tx /\ busOff' = busOff /\ pc' = "health" /\ (busOff \/ tx = << >>)
      BY <1>2 DEF NoMessage, HandleMessage, TurnBegins, can
    <2> QED BY <2>1
  <1>3. CASE HandleRestart
    <2>1. tx' = << >> /\ pc' = "config"
      BY <1>3 DEF HandleRestart, Reboot
    <2> QED BY <2>1
  <1>4. CASE HandleOther
    <2>1. Transmit("response", "health") /\ busOff' = busOff /\ (busOff \/ tx = << >>)
      BY <1>4 DEF HandleOther, TurnBegins
    <2>2. tx' \in Seq({"heartbeat", "response"})
      BY <2>1, TransmitType
    <2>3. CASE busOff
      BY <2>1, <2>2, <2>3
    <2>4. CASE tx = << >>
      <3>1. tx' = Append(tx, "response") /\ pc' = "health"
        BY <2>1, <2>4, TransmitRoom
      <3> QED BY <2>2, <2>4, <3>1
    <2> QED BY <2>1, <2>3, <2>4
  <1>5. CASE Scan
    <2>1. tx' = tx /\ busOff' = busOff /\ pc = "health"
      BY <1>5 DEF Scan, can
    <2>2. pc' \in {"health", "heartbeat"}
      BY <1>5, <2>1 DEF Scan, NextChannel, Report
    <2> QED BY <2>1, <2>2
  <1>6. CASE Heartbeat
    <2>1. Transmit("heartbeat", "receive") /\ busOff' = busOff /\ pc = "heartbeat"
      BY <1>6 DEF Heartbeat
    <2>2. tx' \in Seq({"heartbeat", "response"})
      BY <2>1, TransmitType
    <2>3. CASE busOff
      BY <2>1, <2>2, <2>3
    <2>4. CASE ~busOff
      <3>1. pc' = "receive"
        BY <2>1, <2>4, TransmitRoom
      <3> QED BY <2>2, <3>1
    <2> QED BY <2>3, <2>4
  <1>7. CASE NoHeartbeat
    <2>1. tx' = tx /\ busOff' = busOff /\ pc' = "receive"
      BY <1>7 DEF NoHeartbeat, can
    <2> QED BY <2>1
  <1> QED BY <1>1, <1>2, <1>3, <1>4, <1>5, <1>6, <1>7 DEF Processor

(* The steps of the peripheral.                                            *)
LEMMA PeripheralFew ==
  ASSUME FewWaiting, Sent \/ BusOff
  PROVE  FewWaiting'
  <1> USE DEF FewWaiting
  <1>1. CASE Sent
    <2>1. tx # << >> /\ tx' = Tail(tx) /\ busOff' = busOff /\ pc' = pc
      BY <1>1 DEF Sent, node
    <2>2. tx' \in Seq({"heartbeat", "response"}) /\ Len(tx') = Len(tx) - 1 /\ Len(tx) \in Nat
      BY <2>1
    <2> QED BY <2>1, <2>2
  <1>2. CASE BusOff
    BY <1>2 DEF BusOff
  <1> QED BY <1>1, <1>2

LEMMA NextFew ==
  ASSUME FewWaiting, [Next]_vars
  PROVE  FewWaiting'
  <1>1. CASE UNCHANGED vars
    BY <1>1, Elsewhere DEF vars, node, can
  <1>2. CASE Processor
    BY <1>2, ProcessorFew
  <1>3. CASE Sent \/ BusOff
    BY <1>3, PeripheralFew
  <1>4. CASE Tick \/ Deliver
    BY <1>4, Elsewhere DEF Tick, Deliver, node, can
  <1>5. CASE PowerCycle
    <2>1. tx' = << >> /\ pc' = "config"
      BY <1>5 DEF PowerCycle, Reboot
    <2> QED BY <2>1 DEF FewWaiting
  <1>6. ASSUME NEW c \in Channels, Turn(c) \/ DriverFault(c) \/ Cool(c) \/ PowerLoss(c)
        PROVE  FewWaiting'
    BY <1>6, Elsewhere DEF Turn, DriverFault, Cool, PowerLoss, node, can
  <1> QED BY <1>1, <1>2, <1>3, <1>4, <1>5, <1>6 DEF Next

(* The unwrap() on a full transmit buffer is only reached off the bus,     *)
(* whatever requests come in and whenever heartbeats fall due, given that  *)
(* frames leave before the next turn of the loop (TurnBegins).             *)
THEOREM PanicsOffBus == Spec => []PanicOnlyOffBus
  <1>1. FewWaiting => PanicOnlyOffBus
    BY DEF FewWaiting, PanicOnlyOffBus
  <1> QED BY <1>1, InitFew, NextFew, PTL DEF Spec

-----------------------------------------------------------------------------
(* The constants and the chips                                             *)

LEMMA Constants ==
  ASSUME firmware \in Firmwares
  PROVE  /\ firmware \in {"drivebase", "shovel"}
         /\ NumChannels[firmware] \in 2 .. 10
         /\ GEAR_RATIO \in Nat /\ MAX_DUTY \in Nat /\ MAX_DUTY > 0
         /\ Setpoints \subseteq Int \cup {NaN} /\ NaN \notin Int
         /\ TICKS \in Nat /\ PERIOD \in Nat /\ 0 < PERIOD /\ 2 * PERIOD < TICKS
         /\ ChipFaults \subseteq 1 .. 9 /\ RxDepth \in Nat
  BY NodeAssumption

(* The channels of a board, and those that messages are for.               *)
LEMMA Boards ==
  ASSUME firmware \in Firmwares
  PROVE  /\ \A c \in Channels : c \in 0 .. 9 /\ c < NumChannels[firmware]
         /\ \A a \in Axes(firmware) : a[1] \in Channels /\ a[2] \in {"a", "b"}
         /\ \A a, b \in Axes(firmware) : a[1] = b[1] /\ a[2] = b[2] => a = b
         /\ firmware = "drivebase" =>
              /\ \A a \in Axes(firmware) : a[2] = "a"
              /\ \A c \in Channels : <<c, "a">> \in Axes(firmware)
         /\ firmware = "shovel" =>
              /\ CHANNEL_SHOVEL \in Channels /\ CHANNEL_PAVER \in Channels
              /\ CHANNEL_SHOVEL # CHANNEL_PAVER
              /\ \A a \in Axes(firmware) : a[1] = CHANNEL_SHOVEL \/ a = <<CHANNEL_PAVER, "a">>
  <1>1. /\ firmware \in {"drivebase", "shovel"} /\ NumChannels[firmware] \in 2 .. 10
    BY Constants
  <1>2. \A c \in Channels : c \in 0 .. 9 /\ c < NumChannels[firmware]
    BY <1>1 DEF Channels, Board
  <1>3. CASE firmware = "drivebase"
    <2>1. Axes(firmware) = Channels \X {"a"}
      BY <1>3 DEF Axes, Channels
    <2> QED
      BY <1>2, <1>3, <2>1
  <1>4. CASE firmware = "shovel"
    <2>1. CHANNEL_SHOVEL \in Channels /\ CHANNEL_PAVER \in Channels /\ CHANNEL_SHOVEL # CHANNEL_PAVER
      BY <1>1, <1>4 DEF CHANNEL_SHOVEL, CHANNEL_PAVER, Channels, Board
    <2>2. Axes(firmware) = {<<CHANNEL_SHOVEL, "a">>, <<CHANNEL_SHOVEL, "b">>, <<CHANNEL_PAVER, "a">>}
      BY <1>4 DEF Axes
    <2> QED
      BY <1>2, <1>4, <2>1, <2>2
  <1> QED
    BY <1>1, <1>3, <1>4

LEMMA PowerOnType == PowerOnChip \in ChipType
  BY DEF PowerOnChip, ChipType, ZeroTarget

(* A transfer, a read and a write change the register that the next answer *)
(* is for, and a write the target.                                         *)
LEMMA TransferChip ==
  ASSUME NEW ch \in ChipType, NEW reg \in {"gstat", "drv_status", "other"}
  PROVE  /\ Transfer(ch, reg).chip = [ch EXCEPT !.addr = reg]
         /\ Transfer(ch, reg).chip \in ChipType
         /\ Transfer(ch, reg).chip.addr = reg
         /\ Transfer(ch, reg).chip.flags = ch.flags
  BY DEF Transfer, ChipType

LEMMA ReadReg ==
  ASSUME NEW ch \in ChipType, NEW reg \in {"gstat", "drv_status"}
  PROVE  /\ read_reg(ch, reg).chip = [ch EXCEPT !.addr = "other"]
         /\ read_reg(ch, reg).chip \in ChipType
         /\ reg = "gstat" => read_reg(ch, reg).answer = ch.flags \cap {0, 1, DRV_ERR}
         /\ reg = "drv_status" => read_reg(ch, reg).answer = ch.flags \cap (2 .. 9)
  <1>. DEFINE d == [ch EXCEPT !.addr = reg]
  <1>1. Transfer(ch, reg).chip = d
    BY DEF Transfer
  <1>2. d \in ChipType /\ d.addr = reg /\ d.flags = ch.flags
    BY DEF ChipType
  <1>3. [d EXCEPT !.addr = "other"] = [ch EXCEPT !.addr = "other"]
    BY DEF ChipType
  <1>4. read_reg(ch, reg).chip = [d EXCEPT !.addr = "other"] /\ read_reg(ch, reg).chip \in ChipType
    <2>1. read_reg(ch, reg) = Transfer(d, "other")
      BY <1>1 DEF read_reg
    <2> HIDE DEF d
    <2>2. Transfer(d, "other").chip = [d EXCEPT !.addr = "other"] /\ Transfer(d, "other").chip \in ChipType
      BY <1>2, TransferChip
    <2> QED
      BY <2>1, <2>2
  <1>5. read_reg(ch, reg).answer = IF d.addr = "gstat" THEN d.flags \cap {0, 1, DRV_ERR}
                                   ELSE IF d.addr = "drv_status" THEN d.flags \cap (2 .. 9)
                                   ELSE {}
    BY <1>1 DEF read_reg, Transfer
  <1> QED
    BY <1>2, <1>3, <1>4, <1>5

LEMMA WrittenChip ==
  ASSUME NEW ch \in ChipType, NEW f \in {"a", "b"}, NEW v \in Int
  PROVE  /\ Written(ch, f, v) \in ChipType
         /\ Written(ch, f, v).target = [ch.target EXCEPT ![f] = v]
         /\ Written(ch, f, v).flags = ch.flags /\ Written(ch, f, v).xactual = ch.xactual
         /\ Written(ch, f, v).vel = ch.vel /\ Written(ch, f, v).mode = ch.mode
  <1>. DEFINE d == [ch EXCEPT !.addr = "other"]
  <1>1. Written(ch, f, v) = [d EXCEPT !.target[f] = v]
    BY TransferChip DEF Written
  <1>2. /\ d \in ChipType /\ d.target = ch.target /\ d.flags = ch.flags
        /\ d.xactual = ch.xactual /\ d.vel = ch.vel /\ d.mode = ch.mode
    BY DEF ChipType
  <1>. HIDE DEF d
  <1> QED
    BY <1>1, <1>2 DEF ChipType

LEMMA ClearedChip ==
  ASSUME NEW ch \in ChipType
  PROVE  /\ Cleared(ch) \in ChipType /\ Cleared(ch).target = ch.target
         /\ Cleared(ch).xactual = ch.xactual /\ Cleared(ch).vel = ch.vel
         /\ Cleared(ch).mode = ch.mode
  BY DEF Cleared, ChipType

(* A stage of config_steppers.                                             *)
LEMMA ConfigWrites ==
  ASSUME NEW ch \in ChipType, NEW stage \in {"general", "hold", "xactual", "xtarget", "position"}
  PROVE  LET d == ConfigWrite(ch, stage) IN
         /\ d \in ChipType /\ d.vel = ch.vel
         /\ d.mode = IF stage = "hold" THEN "hold" ELSE IF stage = "position" THEN "position"
                     ELSE ch.mode
         /\ d.xactual = IF stage = "xactual" THEN 0 ELSE ch.xactual
         /\ d.target = IF stage = "xtarget" THEN [ch.target EXCEPT !["a"] = 0] ELSE ch.target
  <1>1. CASE stage = "general"
    BY <1>1, ClearedChip DEF ConfigWrite
  <1>2. CASE stage = "hold"
    <2>1. ConfigWrite(ch, stage) = [Cleared(ch) EXCEPT !.mode = "hold"]
      BY <1>2 DEF ConfigWrite
    <2>. DEFINE e == Cleared(ch)
    <2>2. /\ e \in ChipType /\ e.target = ch.target
          /\ e.xactual = ch.xactual /\ e.vel = ch.vel
      BY ClearedChip
    <2>. HIDE DEF e
    <2>3. LET d == [e EXCEPT !.mode = "hold"] IN
          /\ d \in ChipType /\ d.vel = ch.vel /\ d.mode = "hold"
          /\ d.xactual = ch.xactual /\ d.target = ch.target
      BY <2>2 DEF ChipType
    <2> QED
      BY <1>2, <2>1, <2>3 DEF e
  <1>3. CASE stage = "xactual"
    <2>1. ConfigWrite(ch, stage) = [ch EXCEPT !.xactual = 0]
      BY <1>3 DEF ConfigWrite
    <2> QED
      BY <1>3, <2>1 DEF ChipType
  <1>4. CASE stage = "xtarget"
    <2>1. ConfigWrite(ch, stage) = Written(ch, "a", 0)
      BY <1>4 DEF ConfigWrite
    <2> QED
      BY <1>4, <2>1, WrittenChip
  <1>5. CASE stage = "position"
    <2>1. ConfigWrite(ch, stage) = [ch EXCEPT !.mode = "position", !.ramp = TRUE]
      BY <1>5 DEF ConfigWrite
    <2> QED
      BY <1>5, <2>1 DEF ChipType
  <1> QED
    BY <1>1, <1>2, <1>3, <1>4, <1>5


-----------------------------------------------------------------------------
(* Types                                                                   *)

(* A status code in the making: that of one of the board's channels, with  *)
(* a hundred added once at most.                                           *)
CodeOf(h, n) == h \in Int /\ (h = NONE \/ (0 <= h /\ h < 10 * n) \/ (100 <= h /\ h < 100 + 10 * n))

LEMMA AppendCode ==
  ASSUME NEW n \in 2 .. 10, NEW h, CodeOf(h, n), NEW c \in Int, 0 <= c, c < 10 * n, NEW cond
  PROVE  CodeOf(append_health(h, cond, c), n)
  BY DEF CodeOf, append_health, NONE

LEMMA AppendPairCode ==
  ASSUME NEW n \in 2 .. 10, NEW h, CodeOf(h, n), NEW c \in Int, 0 <= c, c < n,
         NEW f \in 0 .. 8, NEW answer
  PROVE  CodeOf(AppendPair(h, answer, 10 * c, f), n)
  <1>1. /\ 10 * c + f \in Int /\ 0 <= 10 * c + f /\ 10 * c + f < 10 * n
        /\ 10 * c + f + 1 \in Int /\ 0 <= 10 * c + f + 1 /\ 10 * c + f + 1 < 10 * n
    OBVIOUS
  <1>2. CodeOf(append_health(h, f \in answer, 10 * c + f), n)
    BY <1>1, AppendCode
  <1> QED
    BY <1>1, <1>2, AppendCode DEF AppendPair

LEMMA AppendDriverCode ==
  ASSUME NEW n \in 2 .. 10, NEW h, CodeOf(h, n), NEW c \in Int, 0 <= c, c < n, NEW answer
  PROVE  CodeOf(AppendDriver(h, answer, 10 * c), n)
  <1>. DEFINE h2 == AppendPair(h, answer, 10 * c, 2)
              h4 == AppendPair(h2, answer, 10 * c, 4)
              h6 == AppendPair(h4, answer, 10 * c, 6)
  <1>1. CodeOf(h2, n)
    BY AppendPairCode
  <1>. HIDE DEF h2
  <1>2. CodeOf(h4, n)
    BY <1>1, AppendPairCode
  <1>. HIDE DEF h4
  <1>3. CodeOf(h6, n)
    BY <1>2, AppendPairCode
  <1>. HIDE DEF h6
  <1>4. CodeOf(AppendPair(h6, answer, 10 * c, 8), n)
    BY <1>3, AppendPairCode
  <1> QED
    BY <1>4 DEF AppendDriver, h2, h4, h6

(* What a float becomes.                                                   *)
LEMMA Casts ==
  ASSUME firmware \in Firmwares, NEW s \in Setpoints \cup {0}
  PROVE  AsSteps(s) \in Int /\ AsDuty(s) \in -MAX_DUTY .. MAX_DUTY /\ AsDuty(s) \in Int
  <1>1. s = NaN \/ s \in Int
    BY Constants
  <1>2. GEAR_RATIO \in Nat /\ MAX_DUTY \in Nat
    BY Constants
  <1>3. CASE s = NaN
    BY <1>2, <1>3 DEF AsSteps, AsDuty
  <1>4. CASE s # NaN
    <2>1. s * GEAR_RATIO \in Int /\ s * MAX_DUTY \in Int
      BY <1>1, <1>2, <1>4
    <2>2. AsSteps(s) \in Int
      BY <1>4, <2>1 DEF AsSteps
    <2>3. PICK p \in Int : p = s * MAX_DUTY
      BY <2>1
    <2>4. AsDuty(s) = IF p > MAX_DUTY THEN MAX_DUTY ELSE IF p < -MAX_DUTY THEN -MAX_DUTY ELSE p
      BY <1>4, <2>3 DEF AsDuty
    <2>5. AsDuty(s) \in -MAX_DUTY .. MAX_DUTY
      BY <1>2, <2>3, <2>4
    <2> QED
      BY <1>2, <2>2, <2>5
  <1> QED
    BY <1>3, <1>4

LEMMA CastsZero ==
  ASSUME firmware \in Firmwares
  PROVE  AsSteps(0) = 0 /\ AsDuty(0) = 0
  <1>1. 0 # NaN /\ GEAR_RATIO \in Nat /\ MAX_DUTY \in Nat
    BY Constants
  <1>2. 0 * GEAR_RATIO = 0 /\ 0 * MAX_DUTY = 0
    BY <1>1
  <1> QED
    BY <1>1, <1>2 DEF AsSteps, AsDuty

(* The types, by the part of the node that they belong to.                 *)
LoopType ==
  /\ firmware \in Firmwares
  /\ pc \in {"config", "receive", "health", "heartbeat", "panic"}
  /\ configured \in Nat /\ configured < Len(ConfigSeq(firmware))
  /\ duty \in [{"a", "b"} -> -MAX_DUTY .. MAX_DUTY]
ScanType ==
  /\ scan \in [chan : Channels, reg : {"gstat", "drv_status"}, code : Int]
  /\ CodeOf(scan.code, NumChannels[firmware])
  /\ health \in {"nominal", "advisory"}
  /\ CodeOf(code, NumChannels[firmware]) /\ code # NONE
ClockType == start \in 0 .. TICKS - 1 /\ now \in 0 .. TICKS - 1 /\ since \in Nat
CanType ==
  /\ rx \in Seq(Messages(firmware)) /\ Len(rx) <= RxDepth
  /\ tx \in Seq({"heartbeat", "response"}) /\ Len(tx) <= TxDepth
  /\ busOff \in BOOLEAN
MotorType == chip \in [Channels -> ChipType] /\ shaft \in [Channels -> Int]
AskedType == asked \in [Axes(firmware) -> SUBSET (Setpoints \cup {0})]

TypeInv == LoopType /\ ScanType /\ ClockType /\ CanType /\ MotorType /\ AskedType

LEMMA TypeInvTypeOK == TypeInv => TypeOK
  <1>. SUFFICES ASSUME TypeInv PROVE TypeOK
    OBVIOUS
  <1>1. NumChannels[firmware] \in 2 .. 10
    BY Constants DEF TypeInv, LoopType
  <1>2. /\ scan.code \in {NONE} \cup 0 .. 100 + 10 * NumChannels[firmware]
        /\ code \in 0 .. 100 + 10 * NumChannels[firmware]
    BY <1>1 DEF TypeInv, ScanType, CodeOf
  <1>3. scan \in [chan : Channels, reg : {"gstat", "drv_status"},
                  code : {NONE} \cup 0 .. 100 + 10 * NumChannels[firmware]]
    BY <1>2 DEF TypeInv, ScanType
  <1>4. /\ \A i \in DOMAIN rx : rx[i] \in Messages(firmware)
        /\ \A i \in DOMAIN tx : tx[i] \in {"heartbeat", "response"}
    BY DEF TypeInv, CanType
  <1> QED
    BY <1>2, <1>3, <1>4 DEF TypeInv, LoopType, ScanType, ClockType, CanType, MotorType, TypeOK


(* The writes of config_steppers.                                          *)
LEMMA ConfigSteps ==
  ASSUME LoopType
  PROVE  /\ ConfigSeq(firmware)[configured + 1][1] \in Channels
         /\ ConfigSeq(firmware)[configured + 1][2] \in
              {"general", "hold", "xactual", "xtarget", "position"}
         /\ firmware = "drivebase" =>
              /\ Len(ConfigSeq(firmware)) = 4 * NumChannels[firmware]
              /\ ConfigSeq(firmware)[configured + 1][1] = configured \div 4
              /\ ConfigSeq(firmware)[configured + 1][2] = Stages[(configured % 4) + 1]
         /\ firmware = "shovel" =>
              /\ Len(ConfigSeq(firmware)) = 2
              /\ ConfigSeq(firmware)[configured + 1][2] = "general"
  <1>. USE DEF LoopType
  <1>. DEFINE n == NumChannels[firmware]
  <1>1. firmware \in {"drivebase", "shovel"} /\ n \in 2 .. 10
    BY Constants
  <1>2. CASE firmware = "drivebase"
    <2>. HIDE DEF n
    <2>1. ConfigSeq(firmware) = [k \in 1 .. 4 * n |-> <<(k - 1) \div 4, Stages[((k - 1) % 4) + 1]>>]
      BY <1>2 DEF ConfigSeq, n
    <2>2. Len(ConfigSeq(firmware)) = 4 * n
      BY <1>1, <2>1
    <2>3. configured + 1 \in 1 .. 4 * n /\ configured \in Nat
      BY <1>1, <2>2
    <2>4. ConfigSeq(firmware)[configured + 1]
            = <<((configured + 1) - 1) \div 4, Stages[(((configured + 1) - 1) % 4) + 1]>>
      BY <2>1, <2>3
    <2>5. (configured + 1) - 1 = configured
      BY <2>3
    <2>6. ConfigSeq(firmware)[configured + 1] = <<configured \div 4, Stages[(configured % 4) + 1]>>
      BY <2>4, <2>5
    <2>7. configured \div 4 \in 0 .. n - 1
      BY <1>1, <2>3
    <2>8. Stages[(configured % 4) + 1] \in {"hold", "xactual", "xtarget", "position"}
      BY <2>3 DEF Stages
    <2> QED
      BY <1>2, <2>2, <2>6, <2>7, <2>8 DEF Channels, Board, n
  <1>3. CASE firmware = "shovel"
    <2>1. ConfigSeq(firmware) = << <<CHANNEL_SHOVEL, "general">>, <<CHANNEL_PAVER, "general">> >>
      BY <1>3 DEF ConfigSeq
    <2>2. Len(ConfigSeq(firmware)) = 2
      BY <2>1
    <2>3. configured + 1 \in {1, 2}
      BY <2>2
    <2> QED
      BY <1>3, <2>1, <2>2, <2>3, Boards
  <1> QED
    BY <1>1, <1>2, <1>3

(* The board does not change its firmware.                                 *)
LEMMA SameBoard ==
  ASSUME firmware' = firmware
  PROVE  /\ Channels' = Channels /\ Axes(firmware') = Axes(firmware)
         /\ Messages(firmware') = Messages(firmware)
  BY DEF Channels

LEMMA SameLoop ==
  ASSUME LoopType, UNCHANGED <<firmware, pc, configured, duty>>
  PROVE  LoopType'
  BY DEF LoopType

LEMMA SameScan ==
  ASSUME ScanType, UNCHANGED <<firmware, scan, health, code>>
  PROVE  ScanType'
  BY DEF ScanType, Channels

LEMMA SameClock == ASSUME ClockType, UNCHANGED <<start, now, since>> PROVE ClockType'
  BY DEF ClockType

LEMMA SameCan == ASSUME CanType, UNCHANGED <<firmware, rx, tx, busOff>> PROVE CanType'
  BY DEF CanType

LEMMA SameMotors == ASSUME MotorType, UNCHANGED <<firmware, chip, shaft>> PROVE MotorType'
  BY DEF MotorType, Channels

LEMMA SameAsked == ASSUME AskedType, UNCHANGED <<firmware, asked>> PROVE AskedType'
  BY DEF AskedType

(* One chip changes.                                                       *)
LEMMA OneChip ==
  ASSUME MotorType, firmware' = firmware, NEW c \in Channels, NEW ch \in ChipType,
         chip' = [chip EXCEPT ![c] = ch], shaft' \in [Channels -> Int]
  PROVE  MotorType' /\ chip'[c] = ch /\ \A d \in Channels : d # c => chip'[d] = chip[d]
  BY SameBoard DEF MotorType

LEMMA InitType == Init => TypeInv
  <1>. SUFFICES ASSUME Init PROVE TypeInv
    OBVIOUS
  <1>. USE DEF Init
  <1>1. /\ firmware \in {"drivebase", "shovel"} /\ NumChannels[firmware] \in 2 .. 10
        /\ MAX_DUTY \in Nat /\ TICKS \in Nat /\ TICKS > 0 /\ RxDepth \in Nat
    BY Constants
  <1>2. Len(ConfigSeq(firmware)) > 0
    <2>1. CASE firmware = "drivebase"
      <3>1. ConfigSeq(firmware) = [k \in 1 .. 4 * NumChannels[firmware] |->
                                     <<(k - 1) \div 4, Stages[((k - 1) % 4) + 1]>>]
        BY <2>1 DEF ConfigSeq
      <3> QED
        BY <1>1, <3>1
    <2>2. CASE firmware = "shovel"
      BY <2>2 DEF ConfigSeq
    <2> QED
      BY <1>1, <2>1, <2>2
  <1>3. LoopType
    BY <1>1, <1>2 DEF LoopType, ZeroTarget
  <1>4. ScanType
    BY <1>1 DEF ScanType, ScanFrom, CodeOf, NONE, Channels, Board
  <1>5. ClockType
    BY <1>1 DEF ClockType
  <1>6. CanType
    <2>1. Len(rx) = 0 /\ Len(tx) = 0 /\ 0 <= RxDepth /\ 0 <= TxDepth
      BY <1>1 DEF TxDepth
    <2>2. Len(rx) <= RxDepth /\ Len(tx) <= TxDepth
      BY <2>1
    <2>3. rx \in Seq(Messages(firmware)) /\ tx \in Seq({"heartbeat", "response"})
      OBVIOUS
    <2> QED
      BY <2>2, <2>3 DEF CanType
  <1>7. MotorType
    BY PowerOnType DEF MotorType
  <1>8. AskedType
    BY DEF AskedType
  <1> QED
    BY <1>3, <1>4, <1>5, <1>6, <1>7, <1>8 DEF TypeInv


LEMMA TransmitCan ==
  ASSUME CanType, NEW frame \in {"heartbeat", "response"}, NEW next, Transmit(frame, next)
  PROVE  /\ tx' \in Seq({"heartbeat", "response"}) /\ Len(tx') <= TxDepth
         /\ pc' \in {next, "panic"}
         /\ Len(tx') \in Nat
  <1>. USE DEF CanType
  <1>1. CASE Room(1) /\ tx' = Append(tx, frame) /\ pc' = next
    BY <1>1 DEF Room, TxDepth
  <1>2. CASE tx' = tx /\ pc' = "panic"
    BY <1>2 DEF TxDepth
  <1>3. ASSUME NEW j \in DOMAIN tx, tx' = [tx EXCEPT ![j] = frame], pc' = next
        PROVE  /\ tx' \in Seq({"heartbeat", "response"}) /\ Len(tx') <= TxDepth
               /\ Len(tx') \in Nat
    <2>1. Len(tx') = Len(tx)
      BY <1>3
    <2>2. tx' \in Seq({"heartbeat", "response"})
      BY <1>3
    <2> QED
      BY <2>1, <2>2 DEF TxDepth
  <1> QED
    BY <1>1, <1>2, <1>3 DEF Transmit

LEMMA RebootType ==
  ASSUME TypeInv, Reboot
  PROVE  LoopType' /\ ScanType' /\ ClockType' /\ CanType' /\ AskedType'
  <1>. USE DEF Reboot
  <1>1. /\ firmware \in {"drivebase", "shovel"} /\ NumChannels[firmware] \in 2 .. 10
        /\ MAX_DUTY \in Nat /\ TICKS \in Nat /\ TICKS > 0 /\ RxDepth \in Nat
    BY Constants DEF TypeInv, LoopType
  <1>2. LoopType'
    <2>1. \/ Len(ConfigSeq(firmware)) = 4 * NumChannels[firmware]
          \/ Len(ConfigSeq(firmware)) = 2
      BY <1>1, ConfigSteps DEF TypeInv
    <2>2. Len(ConfigSeq(firmware)) > 0
      BY <1>1, <2>1
    <2> QED
      BY <1>1, <2>2 DEF LoopType, ZeroTarget, TypeInv
  <1>3. ScanType'
    BY <1>1 DEF ScanType, ScanFrom, CodeOf, NONE, Channels, Board
  <1>4. ClockType'
    BY <1>1 DEF ClockType
  <1>5. CanType'
    <2>1. Len(rx') = 0 /\ Len(tx') = 0 /\ 0 <= RxDepth /\ 0 <= TxDepth
      BY <1>1 DEF TxDepth
    <2>2. Len(rx') <= RxDepth /\ Len(tx') <= TxDepth
      BY <2>1
    <2>3. rx' \in Seq(Messages(firmware)) /\ tx' \in Seq({"heartbeat", "response"})
      OBVIOUS
    <2> QED
      BY <2>2, <2>3 DEF CanType
  <1>6. AskedType'
    BY DEF AskedType
  <1> QED
    BY <1>2, <1>3, <1>4, <1>5, <1>6

LEMMA ConfigureType == TypeInv /\ Configure => TypeInv'
  <1>. SUFFICES ASSUME TypeInv, Configure PROVE TypeInv'
    OBVIOUS
  <1>. DEFINE write == ConfigSeq(firmware)[configured + 1]
              len == Len(ConfigSeq(firmware))
              d == ConfigWrite(chip[write[1]], write[2])
  <1>1. /\ pc = "config"
        /\ chip' = [chip EXCEPT ![write[1]] = d]
        /\ configured' = IF configured + 1 = len THEN 0 ELSE configured + 1
        /\ pc' = IF configured + 1 = len THEN "receive" ELSE pc
        /\ start' = IF configured + 1 = len THEN now ELSE start
        /\ since' = IF configured + 1 = len THEN 0 ELSE since
        /\ UNCHANGED <<firmware, duty, scan, health, code, now, rx, tx, busOff, shaft, asked>>
    BY DEF Configure, can
  <1>2. write[1] \in Channels
        /\ write[2] \in {"general", "hold", "xactual", "xtarget", "position"}
    BY ConfigSteps DEF TypeInv
  <1>. DEFINE w1 == write[1]
              w2 == write[2]
  <1>3. chip[w1] \in ChipType
    BY <1>2 DEF TypeInv, MotorType
  <1>. HIDE DEF w1, w2
  <1>4. w1 \in Channels /\ w2 \in {"general", "hold", "xactual", "xtarget", "position"}
    BY <1>2 DEF w1, w2
  <1>5. ConfigWrite(chip[w1], w2) \in ChipType
    BY <1>3, <1>4, ConfigWrites
  <1>6. d \in ChipType
    BY <1>5 DEF w1, w2
  <1>. HIDE DEF d, write
  <1>7. MotorType'
    BY <1>1, <1>2, <1>6, OneChip DEF TypeInv, MotorType
  <1>8. LoopType'
    <2>1. configured \in Nat /\ configured < len /\ len \in Nat
      <3>1. firmware \in {"drivebase", "shovel"} /\ NumChannels[firmware] \in 2 .. 10
        BY Constants DEF TypeInv, LoopType
      <3>2. len \in Nat
        BY <3>1, ConfigSteps DEF TypeInv
      <3> QED
        BY <3>2 DEF TypeInv, LoopType
    <2>. HIDE DEF len
    <2>2. configured' \in Nat /\ configured' < len
      BY <1>1, <2>1
    <2> QED
      BY <1>1, <2>2 DEF TypeInv, LoopType, len
  <1>9. ScanType' /\ CanType' /\ AskedType'
    BY <1>1, SameScan, SameCan, SameAsked DEF TypeInv
  <1>10. ClockType'
    BY <1>1 DEF TypeInv, ClockType
  <1> QED
    BY <1>7, <1>8, <1>9, <1>10 DEF TypeInv

LEMMA SetTargetType ==
  ASSUME TypeInv, firmware' = firmware, shaft' = shaft,
         NEW axis \in Axes(firmware), NEW value \in Setpoints, SetTarget(axis, value)
  PROVE  MotorType' /\ duty' \in [{"a", "b"} -> -MAX_DUTY .. MAX_DUTY]
  <1>1. firmware \in Firmwares /\ firmware \in {"drivebase", "shovel"} /\ MAX_DUTY \in Nat
    BY Constants DEF TypeInv, LoopType
  <1>2. AsSteps(value) \in Int /\ AsDuty(value) \in -MAX_DUTY .. MAX_DUTY /\ AsDuty(value) \in Int
    BY <1>1, Casts
  <1>3. axis[1] \in Channels /\ axis[2] \in {"a", "b"}
    BY <1>1, Boards
  <1>. DEFINE c == axis[1]
  <1>4. chip[c] \in ChipType
    BY <1>3 DEF TypeInv, MotorType
  <1>5. CASE firmware = "drivebase"
    <2>1. chip' = [chip EXCEPT ![c] = Written(chip[c], "a", AsSteps(value))] /\ duty' = duty
      BY <1>5 DEF SetTarget
    <2>2. Written(chip[c], "a", AsSteps(value)) \in ChipType
      BY <1>2, <1>4, WrittenChip
    <2> QED
      BY <1>3, <2>1, <2>2, OneChip DEF TypeInv, MotorType, LoopType
  <1>6. CASE firmware = "shovel" /\ c = CHANNEL_SHOVEL
    <2>1. /\ duty' = [duty EXCEPT ![axis[2]] = AsDuty(value)]
          /\ chip' = [chip EXCEPT ![c] = Written(Written(chip[c], "a", duty'["a"]), "b", duty'["b"])]
      BY <1>6 DEF SetTarget
    <2>2. duty' \in [{"a", "b"} -> -MAX_DUTY .. MAX_DUTY]
      BY <1>2, <1>3, <2>1 DEF TypeInv, LoopType
    <2>3. duty'["a"] \in Int /\ duty'["b"] \in Int
      BY <1>1, <2>2
    <2>4. Written(chip[c], "a", duty'["a"]) \in ChipType
      BY <1>4, <2>3, WrittenChip
    <2>5. Written(Written(chip[c], "a", duty'["a"]), "b", duty'["b"]) \in ChipType
      BY <2>3, <2>4, WrittenChip
    <2> QED
      BY <1>3, <2>1, <2>2, <2>5, OneChip DEF TypeInv, MotorType
  <1>7. CASE firmware = "shovel" /\ c # CHANNEL_SHOVEL
    <2>1. /\ duty' = duty
          /\ chip' = [chip EXCEPT ![c] = Written(Written(chip[c], "a", AsDuty(value)), "b", 0)]
      BY <1>7 DEF SetTarget
    <2>2. Written(chip[c], "a", AsDuty(value)) \in ChipType
      BY <1>2, <1>4, WrittenChip
    <2>3. PICK z \in Int : z = 0
      OBVIOUS
    <2>4. Written(Written(chip[c], "a", AsDuty(value)), "b", z) \in ChipType
      BY <2>2, WrittenChip
    <2> QED
      BY <1>3, <2>1, <2>3, <2>4, OneChip DEF TypeInv, MotorType, LoopType
  <1> QED
    BY <1>1, <1>5, <1>6, <1>7


LEMMA HandleMessageType == TypeInv /\ HandleMessage => TypeInv'
  <1>. SUFFICES ASSUME TypeInv, HandleMessage PROVE TypeInv'
    OBVIOUS
  <1>1. /\ rx # << >> /\ rx' = Tail(rx) /\ Head(rx).op = "setpoint" /\ pc' = "health"
        /\ SetTarget(Head(rx).axis, Head(rx).value)
        /\ UNCHANGED <<firmware, configured, scan, health, code, start, now, tx, busOff, shaft,
                       since, asked>>
    BY DEF HandleMessage
  <1>2. /\ rx' \in Seq(Messages(firmware)) /\ Len(rx') <= Len(rx)
        /\ Len(rx') \in Nat /\ Len(rx) \in Nat
        /\ Head(rx) \in Messages(firmware)
    BY <1>1 DEF TypeInv, CanType
  <1>3. Head(rx).axis \in Axes(firmware) /\ Head(rx).value \in Setpoints
    BY <1>1, <1>2 DEF Messages
  <1>4. MotorType' /\ duty' \in [{"a", "b"} -> -MAX_DUTY .. MAX_DUTY]
    BY <1>1, <1>3, SetTargetType
  <1>5. CanType'
    <2>1. Len(rx') <= RxDepth
      BY <1>2, Constants DEF TypeInv, CanType, LoopType
    <2> QED
      BY <1>1, <1>2, <2>1 DEF TypeInv, CanType
  <1>6. LoopType'
    BY <1>1, <1>4 DEF TypeInv, LoopType
  <1>7. ScanType' /\ ClockType' /\ AskedType'
    BY <1>1, SameScan, SameClock, SameAsked DEF TypeInv
  <1> QED
    BY <1>4, <1>5, <1>6, <1>7 DEF TypeInv

LEMMA NoMessageType == TypeInv /\ NoMessage => TypeInv'
  <1>. SUFFICES ASSUME TypeInv, NoMessage PROVE TypeInv'
    OBVIOUS
  <1>1. /\ pc' = "health"
        /\ UNCHANGED <<firmware, configured, duty, scan, health, code, start, now, rx, tx, busOff,
                       chip, shaft, since, asked>>
    BY DEF NoMessage, can, motors
  <1>2. LoopType'
    BY <1>1 DEF TypeInv, LoopType
  <1> QED
    BY <1>1, <1>2, SameScan, SameClock, SameCan, SameMotors, SameAsked DEF TypeInv

LEMMA HandleRestartType == TypeInv /\ HandleRestart => TypeInv'
  <1>. SUFFICES ASSUME TypeInv, HandleRestart PROVE TypeInv'
    OBVIOUS
  <1>1. Reboot /\ chip' = chip
    BY DEF HandleRestart
  <1>2. MotorType'
    BY <1>1, SameMotors DEF Reboot, TypeInv
  <1> QED
    BY <1>1, <1>2, RebootType DEF TypeInv

LEMMA PowerCycleType == TypeInv /\ PowerCycle => TypeInv'
  <1>. SUFFICES ASSUME TypeInv, PowerCycle PROVE TypeInv'
    OBVIOUS
  <1>1. Reboot /\ chip' = [c \in Channels |-> PowerOnChip]
    BY DEF PowerCycle
  <1>2. firmware' = firmware /\ shaft' = shaft
    BY <1>1 DEF Reboot
  <1>3. MotorType'
    BY <1>1, <1>2, PowerOnType, SameBoard DEF MotorType, TypeInv
  <1> QED
    BY <1>1, <1>3, RebootType DEF TypeInv

LEMMA HandleOtherType == TypeInv /\ HandleOther => TypeInv'
  <1>. SUFFICES ASSUME TypeInv, HandleOther PROVE TypeInv'
    OBVIOUS
  <1>1. /\ rx # << >> /\ rx' = Tail(rx) /\ Transmit("response", "health")
        /\ UNCHANGED <<firmware, configured, duty, scan, health, code, start, now, busOff,
                       chip, shaft, since, asked>>
    BY DEF HandleOther, motors
  <1>2. /\ rx' \in Seq(Messages(firmware)) /\ Len(rx') <= Len(rx)
        /\ Len(rx') \in Nat /\ Len(rx) \in Nat
    BY <1>1 DEF TypeInv, CanType
  <1>3. /\ tx' \in Seq({"heartbeat", "response"}) /\ Len(tx') <= TxDepth
        /\ pc' \in {"health", "panic"}
    BY <1>1, TransmitCan DEF TypeInv
  <1>4. CanType'
    <2>1. Len(rx') <= RxDepth
      BY <1>2, Constants DEF TypeInv, CanType, LoopType
    <2> QED
      BY <1>1, <1>2, <1>3, <2>1 DEF TypeInv, CanType
  <1>5. LoopType'
    BY <1>1, <1>3 DEF TypeInv, LoopType
  <1> QED
    BY <1>1, <1>4, <1>5, SameScan, SameClock, SameMotors, SameAsked DEF TypeInv

LEMMA NextChannelType ==
  ASSUME TypeInv, firmware' = firmware, NEW result, CodeOf(result, NumChannels[firmware]),
         NextChannel(result)
  PROVE  ScanType' /\ pc' \in {pc, "heartbeat"}
  <1>1. NumChannels[firmware] \in 2 .. 10
    BY Constants DEF TypeInv, LoopType
  <1>2. CASE scan.chan + 1 \in Channels
    <2>1. /\ scan' = [ScanFrom(scan.chan + 1) EXCEPT !.code = result]
          /\ UNCHANGED <<pc, health, code>>
      BY <1>2 DEF NextChannel
    <2>2. scan' = [chan |-> scan.chan + 1, reg |-> "gstat", code |-> result]
      BY <2>1 DEF ScanFrom
    <2>3. result \in Int
      BY DEF CodeOf
    <2> QED
      BY <1>2, <2>1, <2>2, <2>3, SameBoard DEF TypeInv, ScanType
  <1>3. CASE scan.chan + 1 \notin Channels
    <2>1. Report(result)
      BY <1>3 DEF NextChannel
    <2>2. /\ pc' = "heartbeat" /\ scan' = ScanFrom(0)
          /\ result = NONE => health' = "nominal" /\ code' = code
          /\ result # NONE => health' = "advisory" /\ code' = result
      BY <2>1 DEF Report
    <2>3. scan' \in [chan : Channels, reg : {"gstat", "drv_status"}, code : Int]
      BY <1>1, <2>2 DEF ScanFrom, Channels, Board, NONE
    <2>4. scan'.code = NONE /\ CodeOf(NONE, NumChannels[firmware])
      BY <2>2 DEF ScanFrom, CodeOf, NONE
    <2> QED
      BY <2>2, <2>3, <2>4, SameBoard DEF TypeInv, ScanType
  <1> QED
    BY <1>2, <1>3

LEMMA ScanTypeStep == TypeInv /\ Scan => TypeInv'
  <1>. SUFFICES ASSUME TypeInv, Scan PROVE TypeInv'
    OBVIOUS
  <1>. DEFINE c == scan.chan
              n == NumChannels[firmware]
              answer == read_reg(chip[c], scan.reg).answer
  <1>1. /\ c \in Channels /\ scan.reg \in {"gstat", "drv_status"} /\ CodeOf(scan.code, n)
        /\ firmware \in Firmwares
    BY DEF TypeInv, ScanType, LoopType
  <1>2. n \in 2 .. 10 /\ c \in Int /\ 0 <= c /\ c < n
    BY <1>1, Constants, Boards
  <1>3. /\ pc = "health"
        /\ chip' = [chip EXCEPT ![c] = read_reg(chip[c], scan.reg).chip]
        /\ UNCHANGED <<firmware, configured, duty, start, now, rx, tx, busOff, shaft, since, asked>>
    BY DEF Scan, can, ghosts
  <1>4. read_reg(chip[c], scan.reg).chip \in ChipType
    BY <1>1, ReadReg DEF TypeInv, MotorType
  <1>5. MotorType'
    BY <1>1, <1>3, <1>4, OneChip DEF TypeInv, MotorType
  <1>. HIDE DEF answer
  <1>6. CodeOf(AppendPair(scan.code, answer, 10 * c, 0), n)
    BY <1>1, <1>2, AppendPairCode
  <1>7. CodeOf(AppendDriver(scan.code, answer, 10 * c), n)
    BY <1>1, <1>2, AppendDriverCode
  <1>8. ScanType' /\ pc' \in {pc, "heartbeat"}
    <2>1. CASE scan.reg = "gstat" /\ DRV_ERR \in answer
      <3>1. /\ scan' = [scan EXCEPT !.reg = "drv_status",
                                   !.code = AppendPair(scan.code, answer, 10 * c, 0)]
            /\ UNCHANGED <<pc, health, code>>
        BY <2>1 DEF Scan, answer
      <3>2. AppendPair(scan.code, answer, 10 * c, 0) \in Int
        BY <1>6 DEF CodeOf
      <3>3. /\ scan' \in [chan : Channels, reg : {"gstat", "drv_status"}, code : Int]
            /\ scan'.code = AppendPair(scan.code, answer, 10 * c, 0)
        BY <3>1, <3>2 DEF TypeInv, ScanType
      <3> QED
        BY <1>3, <1>6, <3>1, <3>3, SameBoard DEF TypeInv, ScanType
    <2>2. CASE scan.reg = "gstat" /\ DRV_ERR \notin answer
      <3>1. NextChannel(AppendPair(scan.code, answer, 10 * c, 0))
        BY <2>2 DEF Scan, answer
      <3> QED
        BY <1>3, <1>6, <3>1, NextChannelType
    <2>3. CASE scan.reg # "gstat"
      <3>1. NextChannel(AppendDriver(scan.code, answer, 10 * c))
        BY <2>3 DEF Scan, answer
      <3> QED
        BY <1>3, <1>7, <3>1, NextChannelType
    <2> QED
      BY <2>1, <2>2, <2>3
  <1>9. LoopType'
    BY <1>3, <1>8 DEF TypeInv, LoopType
  <1> QED
    BY <1>3, <1>5, <1>8, <1>9, SameClock, SameCan, SameAsked DEF TypeInv


LEMMA HeartbeatType == TypeInv /\ Heartbeat => TypeInv'
  <1>. SUFFICES ASSUME TypeInv, Heartbeat PROVE TypeInv'
    OBVIOUS
  <1>1. /\ start' = Advanced /\ Transmit("heartbeat", "receive") /\ since' = 0
        /\ UNCHANGED <<firmware, configured, duty, scan, health, code, now, rx, busOff,
                       chip, shaft, asked>>
    BY DEF Heartbeat, motors
  <1>2. TICKS \in Nat /\ TICKS > 0 /\ PERIOD \in Nat
    BY Constants DEF TypeInv, LoopType
  <1>3. Advanced \in 0 .. TICKS - 1
    BY <1>2 DEF Advanced, TypeInv, ClockType
  <1>4. ClockType'
    BY <1>1, <1>3 DEF TypeInv, ClockType
  <1>5. CanType' /\ pc' \in {"receive", "panic"}
    BY <1>1, TransmitCan DEF TypeInv, CanType
  <1>6. LoopType'
    BY <1>1, <1>5 DEF TypeInv, LoopType
  <1> QED
    BY <1>1, <1>4, <1>5, <1>6, SameScan, SameMotors, SameAsked DEF TypeInv

LEMMA NoHeartbeatType == TypeInv /\ NoHeartbeat => TypeInv'
  <1>. SUFFICES ASSUME TypeInv, NoHeartbeat PROVE TypeInv'
    OBVIOUS
  <1>1. /\ pc' = "receive"
        /\ UNCHANGED <<firmware, configured, duty, scan, health, code, start, now, rx, tx, busOff,
                       chip, shaft, since, asked>>
    BY DEF NoHeartbeat, can, motors
  <1>2. LoopType'
    BY <1>1 DEF TypeInv, LoopType
  <1> QED
    BY <1>1, <1>2, SameScan, SameClock, SameCan, SameMotors, SameAsked DEF TypeInv

LEMMA TickType == TypeInv /\ Tick => TypeInv'
  <1>. SUFFICES ASSUME TypeInv, Tick PROVE TypeInv'
    OBVIOUS
  <1>1. /\ now' = (now + 1) % TICKS /\ since' = since + 1
        /\ UNCHANGED <<firmware, pc, configured, duty, scan, health, code, start, rx, tx, busOff,
                       chip, shaft, asked>>
    BY DEF Tick, node, can, motors
  <1>2. TICKS \in Nat /\ TICKS > 0
    BY Constants DEF TypeInv, LoopType
  <1>3. ClockType'
    BY <1>1, <1>2 DEF TypeInv, ClockType
  <1> QED
    BY <1>1, <1>3, SameLoop, SameScan, SameCan, SameMotors, SameAsked DEF TypeInv

LEMMA DeliverType == TypeInv /\ Deliver => TypeInv'
  <1>. SUFFICES ASSUME TypeInv, Deliver PROVE TypeInv'
    OBVIOUS
  <1>1. UNCHANGED <<firmware, pc, configured, duty, scan, health, code, start, now, tx, busOff,
                    chip, shaft, since>>
    BY DEF Deliver, node, motors
  <1>2. PICK m \in Messages(firmware) :
          \/ /\ Len(rx) < RxDepth /\ rx' = Append(rx, m)
             /\ asked' = IF m.op = "setpoint" THEN [asked EXCEPT ![m.axis] = {m.value}] ELSE asked
          \/ UNCHANGED <<rx, asked>>
    BY DEF Deliver
  <1>3. CASE UNCHANGED <<rx, asked>>
    BY <1>1, <1>3, SameLoop, SameScan, SameClock, SameCan, SameMotors, SameAsked DEF TypeInv
  <1>4. CASE /\ Len(rx) < RxDepth /\ rx' = Append(rx, m)
             /\ asked' = IF m.op = "setpoint" THEN [asked EXCEPT ![m.axis] = {m.value}] ELSE asked
    <2>1. RxDepth \in Nat
      BY Constants DEF TypeInv, LoopType
    <2>2. rx' \in Seq(Messages(firmware)) /\ Len(rx') = Len(rx) + 1 /\ Len(rx) \in Nat
      BY <1>4 DEF TypeInv, CanType
    <2>3. Len(rx') <= RxDepth
      BY <1>4, <2>1, <2>2
    <2>4. CanType'
      BY <1>1, <2>2, <2>3 DEF TypeInv, CanType
    <2>5. m.op = "setpoint" => m.axis \in Axes(firmware) /\ m.value \in Setpoints
      BY DEF Messages
    <2>6. AskedType'
      BY <1>1, <1>4, <2>5 DEF TypeInv, AskedType
    <2> QED
      BY <1>1, <2>4, <2>6, SameLoop, SameScan, SameClock, SameMotors DEF TypeInv
  <1> QED
    BY <1>2, <1>3, <1>4

LEMMA PeripheralType == TypeInv /\ (Sent \/ BusOff) => TypeInv'
  <1>. SUFFICES ASSUME TypeInv, Sent \/ BusOff PROVE TypeInv'
    OBVIOUS
  <1>1. /\ UNCHANGED <<firmware, pc, configured, duty, scan, health, code, start, now, rx,
                       chip, shaft, since, asked>>
        /\ tx' = tx \/ (tx # << >> /\ tx' = Tail(tx))
        /\ busOff' \in {busOff, TRUE}
    BY DEF Sent, BusOff, node, motors, ghosts
  <1>2. tx' \in Seq({"heartbeat", "response"}) /\ Len(tx') \in Nat /\ Len(tx') <= Len(tx)
        /\ Len(tx) \in Nat
    <2>1. CASE tx' = tx
      BY <2>1 DEF TypeInv, CanType
    <2>2. CASE tx # << >> /\ tx' = Tail(tx)
      BY <2>2 DEF TypeInv, CanType
    <2> QED
      BY <1>1, <2>1, <2>2
  <1>3. Len(tx') <= TxDepth
    BY <1>2 DEF TypeInv, CanType, TxDepth
  <1>4. busOff' \in BOOLEAN
    BY <1>1 DEF TypeInv, CanType
  <1>5. CanType'
    BY <1>1, <1>2, <1>3, <1>4 DEF TypeInv, CanType
  <1> QED
    BY <1>1, <1>5, SameLoop, SameScan, SameClock, SameMotors, SameAsked DEF TypeInv

(* What a turn does with a chip.                                           *)
LEMMA Turned ==
  ASSUME TypeInv, NEW c \in Channels, Turn(c)
  PROVE  \E ch \in ChipType :
            /\ chip' = [chip EXCEPT ![c] = ch]
            /\ ch.flags = chip[c].flags /\ ch.target = chip[c].target /\ ch.mode = chip[c].mode
            /\ shaft' \in [Channels -> Int]
            /\ \A d \in Channels : d # c => shaft'[d] = shaft[d]
  <1>. DEFINE ch == chip[c]
              s == Speed(ch)
              v == IF ch.mode = "position" /\ ch.xactual + s = ch.target.a THEN 0 ELSE s
              e == [ch EXCEPT !.xactual = @ + s, !.vel = v]
  <1>1. ch \in ChipType /\ shaft \in [Channels -> Int]
    BY DEF TypeInv, MotorType
  <1>2. s \in {-1, 0, 1}
    BY <1>1 DEF Speed, Sign, ChipType
  <1>3. /\ chip' = [chip EXCEPT ![c].xactual = @ + s, ![c].vel = v]
        /\ shaft' = [shaft EXCEPT ![c] = IF DRV_ERR \in ch.flags THEN @ ELSE @ + s]
    BY DEF Turn
  <1>. HIDE DEF s
  <1>4. v \in {-1, 0, 1}
    BY <1>2
  <1>. HIDE DEF v
  <1>5. chip \in [Channels -> ChipType]
    BY DEF TypeInv, MotorType
  <1>6. chip' = [chip EXCEPT ![c] = e]
    BY <1>3, <1>5 DEF ChipType
  <1>7. ch.xactual + s \in Int
    BY <1>1, <1>2 DEF ChipType
  <1>8. e \in ChipType /\ e.flags = ch.flags /\ e.target = ch.target /\ e.mode = ch.mode
    BY <1>1, <1>4, <1>7 DEF ChipType
  <1>9. shaft' \in [Channels -> Int] /\ \A d \in Channels : d # c => shaft'[d] = shaft[d]
    <2>1. shaft[c] \in Int /\ shaft[c] + s \in Int
      BY <1>1, <1>2
    <2> QED
      BY <1>1, <1>3, <2>1
  <1>. HIDE DEF e
  <1> QED
    BY <1>6, <1>8, <1>9

(* A fault of the driver, or the end of one, changes the flags of a chip.  *)
LEMMA FlaggedChip ==
  ASSUME TypeInv, NEW c \in Channels, DriverFault(c) \/ Cool(c)
  PROVE  \E fl \in SUBSET (0 .. 10) :
            /\ [chip[c] EXCEPT !.flags = fl] \in ChipType
            /\ chip' = [chip EXCEPT ![c] = [chip[c] EXCEPT !.flags = fl]]
            /\ 0 \in chip[c].flags => 0 \in fl
  <1>1. chip \in [Channels -> ChipType] /\ chip[c] \in ChipType
    BY DEF TypeInv, MotorType
  <1>2. CASE Cool(c)
    <2>1. chip' = [chip EXCEPT ![c].flags = @ \ {2, 3}]
      BY <1>2 DEF Cool
    <2>. DEFINE fl == chip[c].flags \ {2, 3}
                ch == [chip[c] EXCEPT !.flags = fl]
    <2>2. fl \in SUBSET (0 .. 10) /\ ch \in ChipType
      BY <1>1 DEF ChipType
    <2>3. chip' = [chip EXCEPT ![c] = ch]
      BY <1>1, <2>1 DEF ChipType
    <2>4. 0 \in chip[c].flags => 0 \in fl
      OBVIOUS
    <2> QED
      BY <2>2, <2>3, <2>4
  <1>3. CASE DriverFault(c)
    <2>1. PICK f \in ChipFaults :
            chip' = [chip EXCEPT ![c].flags = @ \cup {f} \cup (IF f \in Shutdown THEN {DRV_ERR} ELSE {})]
      BY <1>3 DEF DriverFault
    <2>. DEFINE fl == chip[c].flags \cup {f} \cup (IF f \in Shutdown THEN {DRV_ERR} ELSE {})
                ch == [chip[c] EXCEPT !.flags = fl]
    <2>2. f \in 1 .. 9 /\ DRV_ERR \in 0 .. 10
      BY Constants DEF TypeInv, LoopType, DRV_ERR
    <2>3. chip[c].flags \in SUBSET (0 .. 10)
      BY <1>1 DEF ChipType
    <2>4. fl \in SUBSET (0 .. 10)
      BY <2>2, <2>3
    <2>5. 0 \in chip[c].flags => 0 \in fl
      OBVIOUS
    <2>6. chip' = [chip EXCEPT ![c].flags = fl]
      BY <2>1
    <2>. HIDE DEF fl
    <2>7. ch \in ChipType
      BY <1>1, <2>4 DEF ChipType
    <2>8. chip' = [chip EXCEPT ![c] = ch]
      BY <1>1, <2>6 DEF ChipType
    <2> QED
      BY <2>4, <2>5, <2>7, <2>8
  <1> QED
    BY <1>2, <1>3

LEMMA MotorsType ==
  ASSUME TypeInv, NEW c \in Channels, Turn(c) \/ DriverFault(c) \/ Cool(c) \/ PowerLoss(c)
  PROVE  TypeInv'
  <1>1. UNCHANGED <<firmware, pc, configured, duty, scan, health, code, start, now, rx, tx, busOff,
                    since, asked>>
    BY DEF Turn, DriverFault, Cool, PowerLoss, Faulty, node, can, ghosts
  <1>2. MotorType'
    <2>1. CASE Turn(c)
      BY <1>1, <2>1, Turned, OneChip DEF TypeInv
    <2>2. CASE DriverFault(c) \/ Cool(c)
      <3>1. shaft' = shaft /\ shaft \in [Channels -> Int]
        BY <2>2 DEF DriverFault, Cool, TypeInv, MotorType
      <3> QED
        BY <1>1, <2>2, <3>1, FlaggedChip, OneChip DEF TypeInv
    <2>3. CASE PowerLoss(c)
      <3>1. shaft' = shaft /\ shaft \in [Channels -> Int] /\ chip' = [chip EXCEPT ![c] = PowerOnChip]
        BY <2>3 DEF PowerLoss, TypeInv, MotorType
      <3> QED
        BY <1>1, <3>1, PowerOnType, OneChip DEF TypeInv
    <2> QED
      BY <2>1, <2>2, <2>3
  <1> QED
    BY <1>1, <1>2, SameLoop, SameScan, SameClock, SameCan, SameAsked DEF TypeInv

LEMMA StutterType == TypeInv /\ UNCHANGED vars => TypeInv'
  BY SameLoop, SameScan, SameClock, SameCan, SameMotors, SameAsked
  DEF vars, node, can, motors, ghosts, TypeInv

LEMMA NextType == TypeInv /\ [Next]_vars => TypeInv'
  <1>1. TypeInv /\ Processor => TypeInv'
    BY ConfigureType, NoMessageType, HandleMessageType, HandleRestartType, HandleOtherType,
       ScanTypeStep, HeartbeatType, NoHeartbeatType DEF Processor
  <1>2. TypeInv /\ (Tick \/ Sent \/ Deliver \/ BusOff \/ PowerCycle) => TypeInv'
    BY TickType, PeripheralType, DeliverType, PowerCycleType
  <1> QED
    BY <1>1, <1>2, MotorsType, StutterType DEF Next

(* The types, for both firmwares; a status code stays that of one of the   *)
(* board's faults, or a hundred above it.                                  *)
THEOREM TypeCorrect == Spec => []TypeOK
  <1>1. Spec => []TypeInv
    BY InitType, NextType, PTL DEF Spec
  <1> QED
    BY <1>1, TypeInvTypeOK, PTL

(* What a setpoint does to the chip that it is for.                        *)
LEMMA SetTargetChip ==
  ASSUME TypeInv, NEW axis \in Axes(firmware), NEW value \in Setpoints, SetTarget(axis, value)
  PROVE  \E d \in ChipType :
           LET ch == chip[axis[1]] IN
           /\ chip' = [chip EXCEPT ![axis[1]] = d]
           /\ d.flags = ch.flags /\ d.mode = ch.mode /\ d.vel = ch.vel /\ d.xactual = ch.xactual
           /\ firmware = "drivebase" => duty' = duty /\ d.target["a"] = AsSteps(value)
           /\ firmware = "shovel" /\ axis[1] = CHANNEL_SHOVEL =>
                /\ duty' = [duty EXCEPT ![axis[2]] = AsDuty(value)]
                /\ d.target["a"] = duty'["a"] /\ d.target["b"] = duty'["b"]
           /\ firmware = "shovel" /\ axis[1] # CHANNEL_SHOVEL =>
                duty' = duty /\ d.target["a"] = AsDuty(value)
  <1>. DEFINE c == axis[1]
              ch == chip[c]
  <1>1. firmware \in Firmwares /\ firmware \in {"drivebase", "shovel"} /\ MAX_DUTY \in Nat
    BY Constants DEF TypeInv, LoopType
  <1>2. AsSteps(value) \in Int /\ AsDuty(value) \in -MAX_DUTY .. MAX_DUTY /\ AsDuty(value) \in Int
    BY <1>1, Casts
  <1>3. c \in Channels /\ axis[2] \in {"a", "b"}
    BY <1>1, Boards
  <1>4. ch \in ChipType
    BY <1>3 DEF TypeInv, MotorType
  <1>5. CASE firmware = "drivebase"
    <2>. DEFINE d == Written(ch, "a", AsSteps(value))
    <2>1. chip' = [chip EXCEPT ![c] = d] /\ duty' = duty
      BY <1>5 DEF SetTarget
    <2>2. /\ d \in ChipType /\ d.flags = ch.flags /\ d.mode = ch.mode /\ d.vel = ch.vel
          /\ d.xactual = ch.xactual /\ d.target = [ch.target EXCEPT !["a"] = AsSteps(value)]
      BY <1>2, <1>4, WrittenChip
    <2>. HIDE DEF d
    <2>3. d.target["a"] = AsSteps(value)
      BY <1>4, <2>2 DEF ChipType
    <2> QED
      BY <1>5, <2>1, <2>2, <2>3
  <1>6. ASSUME NEW va \in Int, NEW vb \in Int
        PROVE  \E d \in ChipType :
                 /\ d = Written(Written(ch, "a", va), "b", vb)
                 /\ d.flags = ch.flags /\ d.mode = ch.mode /\ d.vel = ch.vel
                 /\ d.xactual = ch.xactual /\ d.target["a"] = va /\ d.target["b"] = vb
    <2>. DEFINE e == Written(ch, "a", va)
                d == Written(e, "b", vb)
    <2>1. /\ e \in ChipType /\ e.flags = ch.flags /\ e.mode = ch.mode /\ e.vel = ch.vel
          /\ e.xactual = ch.xactual /\ e.target = [ch.target EXCEPT !["a"] = va]
      BY <1>4, WrittenChip
    <2>. HIDE DEF e
    <2>2. /\ d \in ChipType /\ d.flags = e.flags /\ d.mode = e.mode /\ d.vel = e.vel
          /\ d.xactual = e.xactual /\ d.target = [e.target EXCEPT !["b"] = vb]
      BY <2>1, WrittenChip
    <2>3. d = Written(Written(ch, "a", va), "b", vb)
      BY DEF e
    <2>. HIDE DEF d
    <2>4. d.target["a"] = va /\ d.target["b"] = vb
      BY <1>4, <2>1, <2>2 DEF ChipType
    <2> QED
      BY <2>1, <2>2, <2>3, <2>4
  <1>7. CASE firmware = "shovel" /\ c = CHANNEL_SHOVEL
    <2>1. /\ duty' = [duty EXCEPT ![axis[2]] = AsDuty(value)]
          /\ chip' = [chip EXCEPT ![c] = Written(Written(ch, "a", duty'["a"]), "b", duty'["b"])]
      BY <1>7 DEF SetTarget
    <2>2. duty' \in [{"a", "b"} -> -MAX_DUTY .. MAX_DUTY]
      BY <1>2, <1>3, <2>1 DEF TypeInv, LoopType
    <2>3. duty'["a"] \in Int /\ duty'["b"] \in Int
      BY <1>1, <2>2
    <2>4. PICK d \in ChipType :
             /\ d = Written(Written(ch, "a", duty'["a"]), "b", duty'["b"])
             /\ d.flags = ch.flags /\ d.mode = ch.mode /\ d.vel = ch.vel
             /\ d.xactual = ch.xactual /\ d.target["a"] = duty'["a"] /\ d.target["b"] = duty'["b"]
      BY <1>6, <2>3
    <2> QED
      BY <1>7, <2>1, <2>4
  <1>8. CASE firmware = "shovel" /\ c # CHANNEL_SHOVEL
    <2>1. /\ duty' = duty
          /\ chip' = [chip EXCEPT ![c] = Written(Written(ch, "a", AsDuty(value)), "b", 0)]
      BY <1>8 DEF SetTarget
    <2>2. PICK z \in Int : z = 0
      OBVIOUS
    <2>3. PICK d \in ChipType :
             /\ d = Written(Written(ch, "a", AsDuty(value)), "b", z)
             /\ d.flags = ch.flags /\ d.mode = ch.mode /\ d.vel = ch.vel
             /\ d.xactual = ch.xactual /\ d.target["a"] = AsDuty(value) /\ d.target["b"] = z
      BY <1>2, <1>6
    <2> QED
      BY <1>8, <2>1, <2>2, <2>3
  <1> QED
    BY <1>1, <1>5, <1>7, <1>8

(* A setpoint is taken from the head of the FIFO.                          *)
LEMMA MessageHead ==
  ASSUME TypeInv, HandleMessage
  PROVE  /\ rx # << >> /\ rx' = Tail(rx) /\ Head(rx).op = "setpoint"
         /\ Head(rx) \in Messages(firmware)
         /\ Head(rx).axis \in Axes(firmware) /\ Head(rx).value \in Setpoints
         /\ Head(rx).axis[1] \in Channels
         /\ SetTarget(Head(rx).axis, Head(rx).value)
         /\ resting' = [resting EXCEPT ![Head(rx).axis[1]] = {}]
         /\ pc = "receive" /\ pc' = "health"
         /\ UNCHANGED <<firmware, configured, shaft, asked>>
  <1>1. rx # << >> /\ Head(rx).op = "setpoint" /\ Head(rx) \in Messages(firmware)
    BY DEF HandleMessage, TypeInv, CanType
  <1>2. Head(rx).axis \in Axes(firmware) /\ Head(rx).value \in Setpoints
    BY <1>1 DEF Messages
  <1>3. Head(rx).axis[1] \in Channels
    BY <1>2, Boards DEF TypeInv, LoopType
  <1> QED
    BY <1>1, <1>2, <1>3 DEF HandleMessage, TurnBegins

-----------------------------------------------------------------------------
(* The clock                                                               *)

(* Remainders of numbers that are less than one range away.                *)
LEMMA Remainder ==
  ASSUME NEW n \in Nat, n > 0, NEW x \in Int
  PROVE  /\ 0 <= x /\ x < n => x % n = x
         /\ -n <= x /\ x < 0 => x % n = x + n
         /\ n <= x /\ x < 2 * n => x % n = x - n
  <1>1. PICK q \in Int, r \in Int : x = n * q + r /\ 0 <= r /\ r < n /\ r = x % n
    OBVIOUS
  <1>2. q >= 1 => n * q >= n
    OBVIOUS
  <1>3. q >= 2 => n * q >= 2 * n
    OBVIOUS
  <1>4. q <= -1 => n * q <= -n
    OBVIOUS
  <1>5. q <= -2 => n * q <= -(2 * n)
    OBVIOUS
  <1>6. ASSUME 0 <= x, x < n PROVE q = 0
    BY <1>1, <1>2, <1>4, <1>6
  <1>7. ASSUME -n <= x, x < 0 PROVE q = -1
    <2>1. q = 0 => n * q = 0
      OBVIOUS
    <2> QED
      BY <1>1, <1>2, <1>5, <1>7, <2>1
  <1>8. ASSUME n <= x, x < 2 * n PROVE q = 1
    <2>1. q = 0 => n * q = 0
      OBVIOUS
    <2> QED
      BY <1>1, <1>3, <1>4, <1>8, <2>1
  <1>9. /\ q = 0 => n * q = 0
        /\ q = -1 => n * q = -n
        /\ q = 1 => n * q = n
    OBVIOUS
  <1> QED
    BY <1>1, <1>6, <1>7, <1>8, <1>9

(* While the loop runs, the ticks since the last heartbeat are what the    *)
(* code computes from its counter, which has not gone around since.        *)
ClockInv ==
  pc \in {"receive", "health", "heartbeat"} =>
    since < TICKS /\ since = (now - start) % TICKS

LEMMA ClockRange ==
  ASSUME TypeInv
  PROVE  /\ TICKS \in Nat /\ TICKS > 2 /\ PERIOD \in Nat /\ 0 < PERIOD /\ 2 * PERIOD < TICKS
         /\ now \in Int /\ 0 <= now /\ now < TICKS
         /\ start \in Int /\ 0 <= start /\ start < TICKS
         /\ since \in Nat
  BY Constants DEF TypeInv, LoopType, ClockType

(* A heartbeat is only due when a period has passed, and the next one is   *)
(* counted from there.                                                     *)
LEMMA ElapsedPeriod ==
  ASSUME TypeInv, ClockInv, pc = "heartbeat"
  PROVE  /\ Elapsed => since >= PERIOD
         /\ Advanced = now
  <1>. DEFINE T == TICKS
              e == (start + PERIOD) % T
              f == (e + PERIOD) % T
  <1>1. /\ T \in Nat /\ T > 2 /\ PERIOD \in Nat /\ 0 < PERIOD /\ 2 * PERIOD < T
        /\ now \in Int /\ 0 <= now /\ now < T
        /\ start \in Int /\ 0 <= start /\ start < T
        /\ since \in Nat /\ since < T /\ since = (now - start) % T
    BY ClockRange DEF ClockInv
  <1>. HIDE DEF T
  <1>2. /\ start + PERIOD < T => e = start + PERIOD
        /\ start + PERIOD >= T => e = start + PERIOD - T
    BY <1>1, Remainder
  <1>3. e \in Int /\ 0 <= e /\ e < T
    BY <1>1, <1>2
  <1>. HIDE DEF e
  <1>4. /\ e + PERIOD < T => f = e + PERIOD
        /\ e + PERIOD >= T => f = e + PERIOD - T
    BY <1>1, <1>3, Remainder
  <1>5. f \in Int /\ 0 <= f /\ f < T
    BY <1>1, <1>3, <1>4
  <1>. HIDE DEF f
  <1>6. (f - e) % T = PERIOD
    <2>1. CASE e + PERIOD < T
      <3>1. f - e = PERIOD
        BY <1>1, <1>3, <1>4, <2>1
      <3> QED
        BY <1>1, <3>1, Remainder
    <2>2. CASE e + PERIOD >= T
      <3>1. f - e \in Int /\ f - e = PERIOD - T
        BY <1>1, <1>3, <1>4, <2>2
      <3>2. -T <= f - e /\ f - e < 0
        BY <1>1, <3>1
      <3>3. (f - e) % T = (f - e) + T
        BY <1>1, <3>1, <3>2, Remainder
      <3> QED
        BY <1>1, <3>1, <3>3
    <2> QED
      BY <1>1, <1>3, <2>1, <2>2
  <1>7. Later(f, e)
    <2>1. PERIOD \in 1 .. (T - 1) \div 2
      BY <1>1
    <2> QED
      BY <1>6, <2>1 DEF Later, T
  <1>8. Advanced = now
    BY <1>7 DEF Advanced, NotBefore, e, f, T
  <1>9. ASSUME Elapsed, since < PERIOD PROVE FALSE
    <2>1. now = e \/ Later(now, e)
      BY <1>9 DEF Elapsed, NotBefore, e, T
    <2>2. /\ now >= start => since = now - start
          /\ now < start => since = now - start + T
      <3>1. now >= start => (now - start) % T = now - start
        BY <1>1, Remainder
      <3>2. now < start => (now - start) % T = now - start + T
        BY <1>1, Remainder
      <3> QED
        BY <1>1, <3>1, <3>2
    <2>3. now - e = since - PERIOD \/ now - e = since - PERIOD + T
      BY <1>1, <1>2, <1>3, <2>2, <1>9
    <2>4. now # e
      BY <1>1, <1>3, <1>9, <2>3
    <2>5. (now - e) % T = since - PERIOD + T
      <3>1. now - e \in Int /\ since - PERIOD \in Int
        BY <1>1, <1>3
      <3>2. CASE now - e = since - PERIOD
        <4>1. -T <= now - e /\ now - e < 0
          BY <1>1, <1>9, <3>1, <3>2
        <4> QED
          BY <1>1, <3>1, <3>2, <4>1, Remainder
      <3>3. CASE now - e = since - PERIOD + T
        <4>1. 0 <= now - e /\ now - e < T
          BY <1>1, <1>9, <3>1, <3>3
        <4> QED
          BY <1>1, <3>1, <3>3, <4>1, Remainder
      <3> QED
        BY <2>3, <3>2, <3>3
    <2>6. (now - e) % T \in 1 .. (T - 1) \div 2
      BY <2>1, <2>4 DEF Later, T
    <2> QED
      BY <1>1, <2>5, <2>6
  <1> QED
    BY <1>1, <1>8, <1>9

LEMMA NextClock == TypeInv /\ ClockInv /\ [Next]_vars => ClockInv'
  <1>. SUFFICES ASSUME TypeInv, ClockInv, [Next]_vars PROVE ClockInv'
    OBVIOUS
  <1>1. /\ TICKS \in Nat /\ TICKS > 2
        /\ now \in Int /\ 0 <= now /\ now < TICKS
        /\ start \in Int /\ 0 <= start /\ start < TICKS
        /\ since \in Nat
    BY ClockRange
  <1>2. 0 % TICKS = 0
    BY <1>1, Remainder
  <1>3. CASE Configure
    <2>1. now' = now /\ (pc' = "config" \/ (since' = 0 /\ start' = now))
      BY <1>3 DEF Configure
    <2> QED
      BY <1>1, <1>2, <2>1 DEF ClockInv
  <1>4. CASE NoMessage \/ HandleMessage \/ HandleOther \/ Scan \/ NoHeartbeat
    <2>1. UNCHANGED <<now, start, since>> /\ pc \in {"receive", "health", "heartbeat"}
      BY <1>4 DEF NoMessage, HandleMessage, HandleOther, Scan, NoHeartbeat, TurnBegins, ghosts
    <2> QED
      BY <2>1 DEF ClockInv
  <1>5. CASE HandleRestart \/ PowerCycle
    BY <1>5 DEF HandleRestart, PowerCycle, Reboot, ClockInv
  <1>6. CASE Heartbeat
    <2>1. start' = Advanced /\ now' = now /\ since' = 0 /\ pc = "heartbeat"
      BY <1>6 DEF Heartbeat
    <2>2. start' = now
      BY <2>1, ElapsedPeriod
    <2> QED
      BY <1>1, <1>2, <2>1, <2>2 DEF ClockInv
  <1>7. CASE Tick
    <2>1. /\ pc = "heartbeat" /\ (now - start) % TICKS < TICKS \div 2
          /\ now' = (now + 1) % TICKS /\ since' = since + 1 /\ start' = start
      BY <1>7 DEF Tick, node
    <2>2. since = (now - start) % TICKS
      BY <2>1 DEF ClockInv
    <2>3. since < TICKS \div 2
      BY <2>1, <2>2
    <2>4. since' < TICKS
      BY <1>1, <2>1, <2>3
    <2>5. /\ now >= start => since = now - start
          /\ now < start => since = now - start + TICKS
      <3>1. now >= start => (now - start) % TICKS = now - start
        BY <1>1, Remainder
      <3>2. now < start => (now - start) % TICKS = now - start + TICKS
        BY <1>1, Remainder
      <3> QED
        BY <2>2, <3>1, <3>2
    <2>6. (now' - start') % TICKS = since'
      <3>1. CASE now + 1 < TICKS
        <4>1. now' = now + 1
          BY <1>1, <2>1, <3>1, Remainder
        <4>2. CASE now + 1 >= start
          <5>1. (now' - start') % TICKS = now' - start'
            BY <1>1, <2>1, <3>1, <4>1, <4>2, Remainder
          <5>2. now >= start \/ since' = TICKS
            BY <1>1, <2>1, <2>5, <4>2
          <5> QED
            BY <1>1, <2>1, <2>4, <2>5, <4>1, <5>1, <5>2
        <4>3. CASE now + 1 < start
          <5>1. (now' - start') % TICKS = now' - start' + TICKS
            BY <1>1, <2>1, <3>1, <4>1, <4>3, Remainder
          <5> QED
            BY <1>1, <2>1, <2>5, <4>1, <4>3, <5>1
        <4> QED
          BY <1>1, <4>2, <4>3
      <3>2. CASE now + 1 = TICKS
        <4>1. now' = 0
          BY <1>1, <2>1, <3>2, Remainder
        <4>2. CASE start = 0
          BY <1>1, <2>1, <2>4, <2>5, <3>2, <4>2
        <4>3. CASE start > 0
          <5>1. (now' - start') % TICKS = now' - start' + TICKS
            BY <1>1, <2>1, <4>1, <4>3, Remainder
          <5> QED
            BY <1>1, <2>1, <2>5, <3>2, <4>1, <5>1
        <4> QED
          BY <1>1, <4>2, <4>3
      <3> QED
        BY <1>1, <3>1, <3>2
    <2> QED
      BY <2>4, <2>6 DEF ClockInv
  <1>8. CASE Sent \/ Deliver \/ BusOff \/ UNCHANGED vars
    BY <1>8 DEF Sent, Deliver, BusOff, vars, node, ghosts, ClockInv
  <1>9. ASSUME NEW c \in Channels, Turn(c) \/ DriverFault(c) \/ Cool(c) \/ PowerLoss(c)
        PROVE  ClockInv'
    BY <1>9 DEF Turn, DriverFault, Cool, PowerLoss, Faulty, node, ghosts, ClockInv
  <1> QED
    BY <1>3, <1>4, <1>5, <1>6, <1>7, <1>8, <1>9 DEF Next, Processor

(* No two heartbeats are less than a period apart, for any period and any  *)
(* width of the counter that it fits twice into, over any number of times  *)
(* that the counter wraps around.                                          *)
THEOREM Paced == Spec => HeartbeatsApart
  <1>1. Init => ClockInv
    BY DEF Init, ClockInv
  <1>2. ASSUME TypeInv, ClockInv, [Next]_vars
        PROVE  [pc = "heartbeat" /\ Len(tx') > Len(tx) => since >= PERIOD]_vars
    <2>. SUFFICES ASSUME Next, pc = "heartbeat", Len(tx') > Len(tx) PROVE since >= PERIOD
      BY <1>2
    <2>1. Len(tx) \in Nat /\ ~(Len(tx) > Len(tx))
      BY <1>2 DEF TypeInv, CanType
    <2>2. tx' # tx
      BY <2>1
    <2>3. CASE Heartbeat
      BY <1>2, <2>3, ElapsedPeriod DEF Heartbeat
    <2>4. CASE Sent
      <3>1. tx # << >> /\ tx' = Tail(tx)
        BY <2>4 DEF Sent
      <3>2. Len(tx') = Len(tx) - 1
        BY <1>2, <3>1 DEF TypeInv, CanType
      <3> QED
        BY <2>1, <3>2
    <2>5. CASE PowerCycle
      <3>1. Len(tx') = 0
        BY <2>5 DEF PowerCycle, Reboot
      <3> QED
        BY <2>1, <3>1
    <2>6. CASE Processor
      BY <2>2, <2>3, <2>6 DEF Processor, Configure, NoMessage, HandleMessage, HandleRestart,
        HandleOther, Scan, NoHeartbeat, TurnBegins, can
    <2>7. CASE Tick \/ Deliver \/ BusOff
      BY <2>2, <2>7 DEF Tick, Deliver, BusOff, can
    <2>8. ASSUME NEW c \in Channels, Turn(c) \/ DriverFault(c) \/ Cool(c) \/ PowerLoss(c)
          PROVE  FALSE
      BY <2>2, <2>8 DEF Turn, DriverFault, Cool, PowerLoss, can
    <2> QED
      BY <2>3, <2>4, <2>5, <2>6, <2>7, <2>8 DEF Next
  <1> QED
    BY <1>1, <1>2, InitType, NextType, NextClock, PTL DEF Spec, HeartbeatsApart

============================================================================
