-------------------------- MODULE GsControlProofs --------------------------
(***************************************************************************)
(* Proofs about GsControl, for any number of channels, any timings and     *)
(* modes the host may send and any length of the run.                      *)
(***************************************************************************)
EXTENDS GsControl, TLAPS

(* A data stage is for the transfer the host is in, and names a channel.   *)
Matched ==
  ep0_state = "data_out" =>
    /\ transfer = last_setup_request
    /\ last_setup_request.bRequest # "HOST_FORMAT" => last_setup_request.wValue \in Channels

(* The stored timings are ones that the check lets through.                *)
NominalOK == [tseg1 : 0 .. 255, tseg2 : 1 .. 128, brp : 1 .. 512, sjw : 0 .. 128]
DataOK == [tseg1 : 1 .. 32, tseg2 : 1 .. 16, brp : 1 .. 32, sjw : 0 .. 16]
Checked ==
  \A c \in Channels : init[c].nominal \in NominalOK /\ init[c].data \in DataOK

(* Timings the host may rely on are stored as they were sent last.         *)
Kept ==
  \A c \in Channels :
    /\ Advertised(btc, sent[c].nominal) => init[c].nominal = Stored(sent[c].nominal)
    /\ Advertised(dbtc, sent[c].data) => init[c].data = Stored(sent[c].data)

IInv == TypeOK /\ Matched /\ Checked /\ Kept /\ RunsAsAsked

-----------------------------------------------------------------------------
(* Arithmetic of the timings                                               *)

(* What the check lets through is stored in range.                         *)
LEMMA CheckedStored ==
  ASSUME NEW t \in Timing
  PROVE  /\ can_check_bittiming_ok(btc, t) => Stored(t) \in NominalOK
         /\ can_check_bittiming_ok(dbtc, t) => Stored(t) \in DataOK
  <1>1. t.prop_seg \in Nat /\ t.phase_seg1 \in Nat /\ t.phase_seg2 \in Nat /\ t.sjw \in Nat
        /\ t.brp \in Nat /\ UINT8 = 256
    BY ControlAssumption DEF Timing
  <1> DEFINE x == Tseg1(t)
  <1>2. ASSUME x \in 1 .. 256 PROVE x % UINT8 \in 0 .. 255
    BY <1>1, <1>2
  <1>3. ASSUME x \in 1 .. 32 PROVE x % UINT8 = x
    BY <1>1, <1>3
  <1> HIDE DEF x
  <1>4. can_check_bittiming_ok(btc, t) => Stored(t) \in NominalOK
    BY <1>1, <1>2 DEF can_check_bittiming_ok, Stored, NominalOK, btc, x
  <1>5. can_check_bittiming_ok(dbtc, t) => Stored(t) \in DataOK
    BY <1>1, <1>3 DEF can_check_bittiming_ok, Stored, DataOK, dbtc, x
  <1> QED BY <1>4, <1>5

(* An advertised timing passes the check.                                  *)
LEMMA AdvertisedPasses ==
  ASSUME NEW t \in Timing
  PROVE  /\ Advertised(btc, t) => can_check_bittiming_ok(btc, t)
         /\ Advertised(dbtc, t) => can_check_bittiming_ok(dbtc, t)
  <1>1. t.prop_seg \in Nat /\ t.phase_seg1 \in Nat /\ t.sjw \in Nat
        /\ UINT32 \in Nat /\ UINT32 > 512
    BY ControlAssumption DEF Timing
  <1> DEFINE x == t.prop_seg + t.phase_seg1
  <1>2. ASSUME x \in 1 .. 256 PROVE x % UINT32 = x
    BY <1>1, <1>2
  <1> HIDE DEF x
  <1> QED BY <1>1, <1>2 DEF Advertised, can_check_bittiming_ok, Tseg1, btc, dbtc, x

(* An advertised timing is programmed as it is, but for the truncation of  *)
(* the first segment.                                                      *)
LEMMA AdvertisedExact ==
  ASSUME NEW t \in Timing
  PROVE  /\ Advertised(btc, t) /\ t.prop_seg + t.phase_seg1 < UINT8
              => Nbtp(Stored(t)) = Exactly(t)
         /\ Advertised(dbtc, t) => Dbtp(Stored(t)) = Exactly(t)
  <1>1. t.prop_seg \in Nat /\ t.phase_seg1 \in Nat /\ t.sjw \in Nat
        /\ UINT32 \in Nat /\ UINT32 > 512 /\ UINT8 = 256
    BY ControlAssumption DEF Timing
  <1> DEFINE x == t.prop_seg + t.phase_seg1
  <1>2. ASSUME x \in 1 .. 255 PROVE (x % UINT32) % UINT8 = x
    <2>1. x % UINT32 = x
      BY <1>1, <1>2
    <2> QED BY <1>1, <1>2, <2>1
  <1> HIDE DEF x
  <1>3. Advertised(btc, t) /\ x < UINT8 => Nbtp(Stored(t)) = Exactly(t)
    <2> SUFFICES ASSUME Advertised(btc, t), x < UINT8 PROVE Nbtp(Stored(t)) = Exactly(t)
      OBVIOUS
    <2>1. x \in 1 .. 255 /\ t.sjw # 0
      BY <1>1 DEF Advertised, btc, x
    <2>2. Stored(t) = [tseg1 |-> x, tseg2 |-> t.phase_seg2, sjw |-> t.sjw, brp |-> t.brp]
      BY <1>2, <2>1 DEF Stored, Tseg1, x
    <2> QED BY <2>1, <2>2 DEF Nbtp, Exactly, x
  <1>4. Advertised(dbtc, t) => Dbtp(Stored(t)) = Exactly(t)
    <2> SUFFICES ASSUME Advertised(dbtc, t) PROVE Dbtp(Stored(t)) = Exactly(t)
      OBVIOUS
    <2>1. x \in 1 .. 255 /\ t.sjw # 0
      BY <1>1 DEF Advertised, dbtc, x
    <2>2. Stored(t) = [tseg1 |-> x, tseg2 |-> t.phase_seg2, sjw |-> t.sjw, brp |-> t.brp]
      BY <1>2, <2>1 DEF Stored, Tseg1, x
    <2> QED BY <2>1, <2>2 DEF Dbtp, Exactly, x
  <1> QED BY <1>3, <1>4 DEF x

(* What is in range can be held by the registers.                          *)
LEMMA RegistersFit ==
  /\ \A s \in NominalOK : Nbtp(s) \in Fields(256, 128, 512, 128)
  /\ \A s \in DataOK : Dbtp(s) \in Fields(32, 16, 32, 16) /\ Tdco(s) \in 0 .. 127
  <1>1. \A s \in NominalOK : Nbtp(s) \in Fields(256, 128, 512, 128)
    BY DEF NominalOK, Nbtp, Fields
  <1>2. \A s \in DataOK : Dbtp(s) \in Fields(32, 16, 32, 16)
    BY DEF DataOK, Dbtp, Fields
  <1>3. ASSUME NEW s \in DataOK PROVE Tdco(s) \in 0 .. 127
    <2>1. s.tseg1 \in Nat /\ s.brp \in Nat
      BY DEF DataOK
    <2>2. s.tseg1 * s.brp \in Nat
      BY <2>1
    <2>3. \A n \in Nat : n % 128 \in 0 .. 127
      OBVIOUS
    <2> QED BY <2>2, <2>3 DEF Tdco
  <1> QED BY <1>1, <1>2, <1>3

-----------------------------------------------------------------------------
(* The steps                                                               *)

LEMMA ChannelsType == 0 \in Channels /\ Channels \subseteq 0 .. NumChannels
  BY ControlAssumption DEF Channels

LEMMA DefaultTimings ==
  /\ NominalDefault \in Timing /\ DataDefault \in Timing
  /\ Stored(NominalDefault) \in NominalOK /\ Stored(DataDefault) \in DataOK
  <1>1. NominalDefault \in Timing /\ DataDefault \in Timing
    BY DEF NominalDefault, DataDefault, Timing
  <1>2. Advertised(btc, NominalDefault) /\ Advertised(dbtc, DataDefault)
    BY DEF Advertised, btc, dbtc, NominalDefault, DataDefault
  <1> QED BY <1>1, <1>2, AdvertisedPasses, CheckedStored

LEMMA HalTimings == NominalOK \subseteq HalTiming /\ DataOK \subseteq HalTiming
  BY DEF NominalOK, DataOK, HalTiming

LEMMA InitIInv == Init => IInv
  <1> SUFFICES ASSUME Init PROVE IInv
    OBVIOUS
  <1> USE DEF Init
  <1>1. InitDefault.nominal = Stored(NominalDefault) /\ InitDefault.data = Stored(DataDefault)
    BY DEF InitDefault
  <1>2. Checked
    BY <1>1, DefaultTimings DEF Checked
  <1>3. Kept
    BY <1>1 DEF Kept
  <1>4. Matched /\ RunsAsAsked
    BY DEF Matched, RunsAsAsked
  <1>5. InitDefault \in HalInit
    BY DefaultTimings, HalTimings DEF InitDefault, HalInit
  <1>6. RegsReset \in Registers
    BY DEF RegsReset, Registers, Fields
  <1>7. init \in [Channels -> HalInit] /\ regs \in [Channels -> Registers]
    BY <1>5, <1>6
  <1>8. last_setup_request \in Request /\ transfer \in Request
    BY ChannelsType, ControlAssumption DEF Request, Requests, ToDevice, NONE
  <1>9. /\ sent \in [Channels -> [nominal : Timing, data : Timing]]
        /\ started \in [Channels -> [nominal : Timing, data : Timing, flags : SUBSET Flags]]
    BY DefaultTimings
  <1>10. TypeOK
    BY <1>7, <1>8, <1>9 DEF TypeOK
  <1> QED BY <1>2, <1>3, <1>4, <1>10 DEF IInv

(* A step that leaves timings, registers and the endpoint's request alone  *)
(* and turns no channel on.                                                *)
LEMMA Untouched ==
  ASSUME IInv, UNCHANGED <<init, regs, sent, started>>,
         \A c \in Channels : enabled'[c] => enabled[c],
         Matched', TypeOK'
  PROVE  IInv'
  <1>1. Checked' /\ Kept'
    BY DEF IInv, Checked, Kept
  <1>2. RunsAsAsked'
    BY DEF IInv, RunsAsAsked
  <1> QED BY <1>1, <1>2 DEF IInv

LEMMA SetupStep ==
  ASSUME IInv, NEW req \in Requests, NEW ch \in 0 .. NumChannels, NEW fit,
         Config_Request(req, ch, fit)
  PROVE  IInv'
  <1>1. UNCHANGED <<device, perchan, sent, started>> /\ setups' \in Nat
    BY DEF Config_Request, IInv, TypeOK
  <1>2. Matched'
    BY DEF Config_Request, Matched, Saved, Rejected, PerDevice, ToDevice
  <1>3. last_setup_request' \in Request /\ transfer' \in Request
    BY ControlAssumption DEF Config_Request, Saved, Request, IInv, TypeOK
  <1>4. ep0_state' \in {"idle", "data_out"}
    BY DEF Config_Request
  <1>5. TypeOK'
    BY <1>1, <1>3, <1>4 DEF IInv, TypeOK, device, perchan
  <1> QED BY <1>1, <1>2, <1>5, Untouched DEF perchan

(* The data stage of a request that names a channel.                       *)
LEMMA StageFacts ==
  ASSUME IInv, NEW req \in Requests \ {"HOST_FORMAT"}, RxReady(req)
  PROVE  /\ channel \in Channels /\ transfer.wValue = channel
         /\ ep0_state' = "idle" /\ setups' \in Nat /\ transfer' \in Request
         /\ Matched'
  <1>1. channel \in Channels /\ transfer.wValue = channel
    BY DEF RxReady, IInv, Matched, channel
  <1>2. ep0_state' = "idle" /\ setups' \in Nat
    BY DEF RxReady, IInv, TypeOK
  <1>3. transfer' \in Request
    BY ControlAssumption DEF RxReady, Request
  <1>4. Matched'
    BY <1>2 DEF Matched
  <1> QED BY <1>1, <1>2, <1>3, <1>4

LEMMA ForgetType ==
  ASSUME IInv, Forget \/ UNCHANGED last_setup_request
  PROVE  last_setup_request' \in Request
  BY DEF IInv, TypeOK, Forget, Request

LEMMA HostFormatStep ==
  ASSUME IInv, HostFormat
  PROVE  IInv'
  <1>1. ep0_state' = "idle" /\ setups' \in Nat /\ UNCHANGED <<device, perchan, sent, started>>
    BY DEF HostFormat, RxReady, IInv, TypeOK
  <1>2. transfer' \in Request
    BY ControlAssumption DEF HostFormat, RxReady, Request
  <1>3. last_setup_request' \in Request
    BY ForgetType DEF HostFormat
  <1>4. TypeOK'
    BY <1>1, <1>2, <1>3 DEF IInv, TypeOK, device, perchan
  <1>5. Matched'
    BY <1>1 DEF Matched
  <1> QED BY <1>1, <1>4, <1>5, Untouched DEF perchan

(* A timing, nominal or for data, replaces the one of the named channel.   *)
LEMMA TimingType ==
  ASSUME IInv, NEW c \in Channels, NEW t \in Timing
  PROVE  /\ Stored(t) \in HalTiming =>
              /\ [init EXCEPT ![c].nominal = Stored(t)] \in [Channels -> HalInit]
              /\ [init EXCEPT ![c].data = Stored(t)] \in [Channels -> HalInit]
         /\ [sent EXCEPT ![c].nominal = t] \in [Channels -> [nominal : Timing, data : Timing]]
         /\ [sent EXCEPT ![c].data = t] \in [Channels -> [nominal : Timing, data : Timing]]
  <1> DEFINE v == Stored(t)
  <1>1. init \in [Channels -> HalInit] /\ sent \in [Channels -> [nominal : Timing, data : Timing]]
    BY DEF IInv, TypeOK
  <1> HIDE DEF v
  <1> QED BY <1>1 DEF HalInit, v

LEMMA BittimingStep ==
  ASSUME IInv, NEW t \in Timings, Bittiming(t)
  PROVE  IInv'
  <1>1. t \in Timing
    BY ControlAssumption
  <1>2. /\ channel \in Channels /\ transfer.wValue = channel
        /\ ep0_state' = "idle" /\ setups' \in Nat /\ transfer' \in Request /\ Matched'
    BY StageFacts DEF Bittiming, Requests, ToDevice
  <1>3. /\ sent' = [sent EXCEPT ![channel].nominal = t]
        /\ UNCHANGED <<device, regs, enabled, phy, led, term_state, started>>
        /\ Forget \/ UNCHANGED last_setup_request
        /\ IF can_check_bittiming_ok(btc, t)
           THEN init' = [init EXCEPT ![channel].nominal = Stored(t)]
           ELSE UNCHANGED init
    BY <1>2 DEF Bittiming
  <1>4. can_check_bittiming_ok(btc, t) => Stored(t) \in NominalOK /\ Stored(t) \in HalTiming
    BY <1>1, CheckedStored, HalTimings
  <1>5. TypeOK'
    <2>1. init' \in [Channels -> HalInit] /\ sent' \in [Channels -> [nominal : Timing, data : Timing]]
      <3>1. /\ Stored(t) \in HalTiming =>
                 [init EXCEPT ![channel].nominal = Stored(t)] \in [Channels -> HalInit]
            /\ [sent EXCEPT ![channel].nominal = t] \in [Channels -> [nominal : Timing, data : Timing]]
        BY <1>1, <1>2, TimingType
      <3>2. init \in [Channels -> HalInit]
        BY DEF IInv, TypeOK
      <3> QED BY <1>3, <1>4, <3>1, <3>2, Zenon
    <2>2. last_setup_request' \in Request
      BY <1>3, ForgetType
    <2> QED BY <1>2, <1>3, <2>1, <2>2 DEF IInv, TypeOK, device
  <1>6. ASSUME NEW c \in Channels
        PROVE  /\ init'[c].nominal \in NominalOK /\ init'[c].data \in DataOK
               /\ Advertised(btc, sent'[c].nominal) => init'[c].nominal = Stored(sent'[c].nominal)
               /\ Advertised(dbtc, sent'[c].data) => init'[c].data = Stored(sent'[c].data)
    <2>1. /\ init[c].nominal \in NominalOK /\ init[c].data \in DataOK
          /\ Advertised(btc, sent[c].nominal) => init[c].nominal = Stored(sent[c].nominal)
          /\ Advertised(dbtc, sent[c].data) => init[c].data = Stored(sent[c].data)
      BY DEF IInv, Checked, Kept
    <2>2. CASE c # channel
      <3>1. init'[c] = init[c] /\ sent'[c] = sent[c]
        BY <1>3, <2>2 DEF IInv, TypeOK
      <3> QED BY <2>1, <3>1
    <2>3. CASE c = channel
      <3>1. sent'[c].nominal = t /\ sent'[c].data = sent[c].data
        BY <1>3, <2>3 DEF IInv, TypeOK
      <3>2. CASE can_check_bittiming_ok(btc, t)
        <4>1. init'[c].nominal = Stored(t) /\ init'[c].data = init[c].data
          <5>1. init' = [init EXCEPT ![c].nominal = Stored(t)]
            BY <1>3, <2>3, <3>2
          <5>2. init \in [Channels -> HalInit]
            BY DEF IInv, TypeOK
          <5> QED BY <5>1, <5>2 DEF HalInit
        <4> QED BY <1>4, <2>1, <3>1, <3>2, <4>1
      <3>3. CASE ~can_check_bittiming_ok(btc, t)
        <4>1. init'[c] = init[c] /\ ~Advertised(btc, t)
          BY <1>1, <1>3, <3>3, AdvertisedPasses
        <4> QED BY <2>1, <3>1, <4>1
      <3> QED BY <3>2, <3>3
    <2> QED BY <2>2, <2>3
  <1>7. Checked' /\ Kept'
    BY <1>6 DEF Checked, Kept
  <1>8. RunsAsAsked'
    BY <1>3 DEF IInv, RunsAsAsked
  <1> QED BY <1>2, <1>5, <1>7, <1>8 DEF IInv

LEMMA DataBittimingStep ==
  ASSUME IInv, NEW t \in DataTimings, DataBittiming(t)
  PROVE  IInv'
  <1>1. t \in Timing
    BY ControlAssumption
  <1>2. /\ channel \in Channels /\ transfer.wValue = channel
        /\ ep0_state' = "idle" /\ setups' \in Nat /\ transfer' \in Request /\ Matched'
    BY StageFacts DEF DataBittiming, Requests, ToDevice
  <1>3. /\ sent' = [sent EXCEPT ![channel].data = t]
        /\ UNCHANGED <<device, regs, enabled, phy, led, term_state, started>>
        /\ Forget \/ UNCHANGED last_setup_request
        /\ IF can_check_bittiming_ok(dbtc, t)
           THEN init' = [init EXCEPT ![channel].data = Stored(t)]
           ELSE UNCHANGED init
    BY <1>2 DEF DataBittiming
  <1>4. can_check_bittiming_ok(dbtc, t) => Stored(t) \in DataOK /\ Stored(t) \in HalTiming
    BY <1>1, CheckedStored, HalTimings
  <1>5. TypeOK'
    <2>1. init' \in [Channels -> HalInit] /\ sent' \in [Channels -> [nominal : Timing, data : Timing]]
      <3>1. /\ Stored(t) \in HalTiming =>
                 [init EXCEPT ![channel].data = Stored(t)] \in [Channels -> HalInit]
            /\ [sent EXCEPT ![channel].data = t] \in [Channels -> [nominal : Timing, data : Timing]]
        BY <1>1, <1>2, TimingType
      <3>2. init \in [Channels -> HalInit]
        BY DEF IInv, TypeOK
      <3> QED BY <1>3, <1>4, <3>1, <3>2, Zenon
    <2>2. last_setup_request' \in Request
      BY <1>3, ForgetType
    <2> QED BY <1>2, <1>3, <2>1, <2>2 DEF IInv, TypeOK, device
  <1>6. ASSUME NEW c \in Channels
        PROVE  /\ init'[c].nominal \in NominalOK /\ init'[c].data \in DataOK
               /\ Advertised(btc, sent'[c].nominal) => init'[c].nominal = Stored(sent'[c].nominal)
               /\ Advertised(dbtc, sent'[c].data) => init'[c].data = Stored(sent'[c].data)
    <2>1. /\ init[c].nominal \in NominalOK /\ init[c].data \in DataOK
          /\ Advertised(btc, sent[c].nominal) => init[c].nominal = Stored(sent[c].nominal)
          /\ Advertised(dbtc, sent[c].data) => init[c].data = Stored(sent[c].data)
      BY DEF IInv, Checked, Kept
    <2>2. CASE c # channel
      <3>1. init'[c] = init[c] /\ sent'[c] = sent[c]
        BY <1>3, <2>2 DEF IInv, TypeOK
      <3> QED BY <2>1, <3>1
    <2>3. CASE c = channel
      <3>1. sent'[c].data = t /\ sent'[c].nominal = sent[c].nominal
        BY <1>3, <2>3 DEF IInv, TypeOK
      <3>2. CASE can_check_bittiming_ok(dbtc, t)
        <4>1. init'[c].data = Stored(t) /\ init'[c].nominal = init[c].nominal
          <5>1. init' = [init EXCEPT ![c].data = Stored(t)]
            BY <1>3, <2>3, <3>2
          <5>2. init \in [Channels -> HalInit]
            BY DEF IInv, TypeOK
          <5> QED BY <5>1, <5>2 DEF HalInit
        <4> QED BY <1>4, <2>1, <3>1, <3>2, <4>1
      <3>3. CASE ~can_check_bittiming_ok(dbtc, t)
        <4>1. init'[c] = init[c] /\ ~Advertised(dbtc, t)
          BY <1>1, <1>3, <3>3, AdvertisedPasses
        <4> QED BY <2>1, <3>1, <4>1
      <3> QED BY <3>2, <3>3
    <2> QED BY <2>2, <2>3
  <1>7. Checked' /\ Kept'
    BY <1>6 DEF Checked, Kept
  <1>8. RunsAsAsked'
    BY <1>3 DEF IInv, RunsAsAsked
  <1> QED BY <1>2, <1>5, <1>7, <1>8 DEF IInv

(* A step that takes channels off the bus, or touches LEDs, terminations   *)
(* and device flags only.                                                  *)
LEMMA QuietStep ==
  ASSUME IInv, UNCHANGED <<init, regs, sent, started>>,
         enabled' \in [Channels -> BOOLEAN], phy' \in [Channels -> BOOLEAN],
         led' \in [Channels -> {"OFF", "NORMAL", "SEQUENCE"}], term_state' \subseteq Channels,
         \A c \in Channels : enabled'[c] => enabled[c],
         UNCHANGED <<timestamps_enabled, pad_pkts_to_max_pkt_size>>,
         is_usb_suspend_cb' \in BOOLEAN, ep0_state' \in {"idle", "data_out"},
         last_setup_request' \in Request, transfer' \in Request, setups' \in Nat, Matched'
  PROVE  IInv'
  <1>1. TypeOK'
    BY DEF IInv, TypeOK
  <1> QED BY <1>1, Untouched

LEMMA OffType ==
  ASSUME IInv, NEW cs, Off(cs)
  PROVE  /\ enabled' \in [Channels -> BOOLEAN] /\ phy' \in [Channels -> BOOLEAN]
         /\ led' \in [Channels -> {"OFF", "NORMAL", "SEQUENCE"}]
         /\ \A c \in Channels : enabled'[c] => enabled[c]
  <1>1. /\ enabled \in [Channels -> BOOLEAN] /\ phy \in [Channels -> BOOLEAN]
        /\ led \in [Channels -> {"OFF", "NORMAL", "SEQUENCE"}]
    BY DEF IInv, TypeOK
  <1>2. enabled' \in [Channels -> BOOLEAN] /\ phy' \in [Channels -> BOOLEAN]
    BY <1>1 DEF Off
  <1>3. led' \in [Channels -> {"OFF", "NORMAL", "SEQUENCE"}]
    BY <1>1 DEF Off
  <1>4. \A c \in Channels : enabled'[c] => enabled[c]
    BY DEF Off
  <1> QED BY <1>2, <1>3, <1>4

LEMMA ModeResetStep ==
  ASSUME IInv, ModeReset \/ ModeOther
  PROVE  IInv'
  <1>1. RxReady("MODE") /\ Forget /\ UNCHANGED <<device, init, regs, term_state, sent, started>>
    BY DEF ModeReset, ModeOther, perchan
  <1>2. /\ ep0_state' = "idle" /\ setups' \in Nat /\ transfer' \in Request /\ Matched'
        /\ last_setup_request' \in Request
    BY <1>1, StageFacts, ForgetType DEF Requests, ToDevice
  <1>3. /\ enabled' \in [Channels -> BOOLEAN] /\ phy' \in [Channels -> BOOLEAN]
        /\ led' \in [Channels -> {"OFF", "NORMAL", "SEQUENCE"}]
        /\ \A c \in Channels : enabled'[c] => enabled[c]
    <2>1. CASE ModeReset
      BY <2>1, OffType DEF ModeReset
    <2>2. CASE ModeOther
      BY <2>2 DEF ModeOther, perchan, IInv, TypeOK
    <2> QED BY <2>1, <2>2
  <1>4. term_state' \subseteq Channels /\ is_usb_suspend_cb' \in BOOLEAN
    BY <1>1 DEF IInv, TypeOK, device
  <1> QED BY <1>1, <1>2, <1>3, <1>4, QuietStep DEF device

LEMMA IdentifyStep ==
  ASSUME IInv, NEW on \in BOOLEAN, Identify(on) \/ SetTermination(on)
  PROVE  IInv'
  <1>1. /\ RxReady("IDENTIFY") \/ RxReady("SET_TERMINATION")
        /\ Forget /\ UNCHANGED <<device, init, regs, enabled, phy, sent, started>>
    BY DEF Identify, SetTermination
  <1>2. /\ channel \in Channels
        /\ ep0_state' = "idle" /\ setups' \in Nat /\ transfer' \in Request /\ Matched'
        /\ last_setup_request' \in Request
    BY <1>1, StageFacts, ForgetType DEF Requests, ToDevice
  <1>3. /\ led \in [Channels -> {"OFF", "NORMAL", "SEQUENCE"}] /\ term_state \subseteq Channels
        /\ enabled \in [Channels -> BOOLEAN] /\ phy \in [Channels -> BOOLEAN]
        /\ is_usb_suspend_cb \in BOOLEAN
    BY DEF IInv, TypeOK
  <1>4. led' \in [Channels -> {"OFF", "NORMAL", "SEQUENCE"}]
    BY <1>3 DEF Identify, SetTermination
  <1>5. term_state' \subseteq Channels
    BY <1>2, <1>3 DEF Identify, SetTermination
  <1> QED BY <1>1, <1>2, <1>3, <1>4, <1>5, QuietStep DEF device

LEMMA BusStep ==
  ASSUME IInv, Suspend \/ Resume \/ BusReset
  PROVE  IInv'
  <1>1. /\ UNCHANGED <<init, regs, term_state, last_setup_request, setups, sent, started>>
        /\ UNCHANGED <<timestamps_enabled, pad_pkts_to_max_pkt_size>>
        /\ is_usb_suspend_cb' \in BOOLEAN
    BY DEF Suspend, Resume, BusReset, perchan, pipe
  <1>2. \/ UNCHANGED <<ep0_state, transfer>>
        \/ ep0_state' = "idle" /\ transfer' = [bRequest |-> NONE, wValue |-> 0]
    BY DEF Suspend, Resume, BusReset, pipe
  <1>3. ep0_state' \in {"idle", "data_out"} /\ Matched'
    BY <1>1, <1>2 DEF IInv, TypeOK, Matched
  <1>4. transfer' \in Request
    BY <1>2, ControlAssumption DEF IInv, TypeOK, Request
  <1>5. /\ enabled' \in [Channels -> BOOLEAN] /\ phy' \in [Channels -> BOOLEAN]
        /\ led' \in [Channels -> {"OFF", "NORMAL", "SEQUENCE"}]
        /\ \A c \in Channels : enabled'[c] => enabled[c]
    <2>1. CASE Suspend
      BY <2>1, OffType DEF Suspend
    <2>2. CASE Resume \/ BusReset
      BY <2>2 DEF Resume, BusReset, perchan, IInv, TypeOK
    <2> QED BY <2>1, <2>2
  <1>6. term_state' \subseteq Channels /\ last_setup_request' \in Request /\ setups' \in Nat
    BY <1>1 DEF IInv, TypeOK
  <1> QED BY <1>1, <1>3, <1>4, <1>5, <1>6, QuietStep

(* What can_enable makes of a channel's settings.                          *)
LEMMA ConfiguredFacts ==
  ASSUME NEW i \in HalInit, NEW flags
  PROVE  LET j == Configured(i, flags)
         IN  /\ j \in HalInit /\ j.nominal = i.nominal /\ j.data = i.data
             /\ j.AutoRetransmission = ("ONE_SHOT" \notin flags)
             /\ j.Mode = OperatingMode(flags)
             /\ j.FrameFormat = IF "FD" \in flags THEN "FD_BRS" ELSE "CLASSIC"
  <1> DEFINE a == "ONE_SHOT" \notin flags
             o == OperatingMode(flags)
             f == IF "FD" \in flags THEN "FD_BRS" ELSE "CLASSIC"
             j == Configured(i, flags)
  <1>1. a \in BOOLEAN /\ f \in {"CLASSIC", "FD_BRS"}
        /\ o \in {"NORMAL", "INTERNAL_LOOPBACK", "BUS_MONITORING", "EXTERNAL_LOOPBACK"}
    BY DEF OperatingMode
  <1>2. j = [i EXCEPT !.AutoRetransmission = a, !.Mode = o, !.FrameFormat = f]
    BY DEF Configured
  <1> HIDE DEF a, o, f, j
  <1>3. /\ j \in HalInit /\ j.nominal = i.nominal /\ j.data = i.data
        /\ j.AutoRetransmission = a /\ j.Mode = o /\ j.FrameFormat = f
    BY <1>1, <1>2 DEF HalInit
  <1> QED BY <1>3 DEF a, o, f, j

(* What the registers are for them.                                        *)
LEMMA ProgrammedFacts ==
  ASSUME NEW i \in HalInit, i.nominal \in NominalOK, i.data \in DataOK,
         NEW r \in Registers, NEW flags
  PROVE  LET q == Programmed(r, Configured(i, flags))
         IN  /\ q \in Registers
             /\ q.nbtp = Nbtp(i.nominal)
             /\ "FD" \in flags => q.dbtp = Dbtp(i.data)
             /\ q.MON = ("LISTEN_ONLY" \in flags) /\ q.LBCK = ("LOOP_BACK" \in flags)
             /\ q.DAR = ("ONE_SHOT" \in flags) /\ q.FDOE = ("FD" \in flags)
  <1> DEFINE j == Configured(i, flags)
             q == Programmed(r, j)
  <1>1. /\ j.nominal = i.nominal /\ j.data = i.data
        /\ j.AutoRetransmission = ("ONE_SHOT" \notin flags)
        /\ j.Mode = OperatingMode(flags)
        /\ j.FrameFormat = IF "FD" \in flags THEN "FD_BRS" ELSE "CLASSIC"
    BY ConfiguredFacts
  <1> HIDE DEF j
  <1>2. /\ Nbtp(i.nominal) \in Fields(256, 128, 512, 128)
        /\ Dbtp(i.data) \in Fields(32, 16, 32, 16) /\ Tdco(i.data) \in 0 .. 127
    BY RegistersFit
  <1>3. /\ q.nbtp = Nbtp(i.nominal) /\ q.tdco = Tdco(i.data)
        /\ q.dbtp = IF "FD" \in flags THEN Dbtp(i.data) ELSE r.dbtp
    BY <1>1 DEF Programmed
  <1>4. /\ q.MON = (j.Mode \in {"BUS_MONITORING", "INTERNAL_LOOPBACK"})
        /\ q.LBCK = (j.Mode \in {"INTERNAL_LOOPBACK", "EXTERNAL_LOOPBACK"})
        /\ q.DAR = ~j.AutoRetransmission /\ q.FDOE = (j.FrameFormat = "FD_BRS")
    BY DEF Programmed
  <1>5. q.MON = ("LISTEN_ONLY" \in flags) /\ q.LBCK = ("LOOP_BACK" \in flags)
    BY <1>1, <1>4 DEF OperatingMode
  <1>6. q.DAR = ("ONE_SHOT" \in flags) /\ q.FDOE = ("FD" \in flags)
    <2>1. q.DAR = ~("ONE_SHOT" \notin flags)
      BY <1>1, <1>4, Zenon
    <2>2. q.FDOE = ("FD" \in flags)
      BY <1>1, <1>4
    <2>3. (~("ONE_SHOT" \notin flags)) = ("ONE_SHOT" \in flags)
      OBVIOUS
    <2>4. q.DAR = ("ONE_SHOT" \in flags)
      BY <2>1, <2>3
    <2> QED BY <2>2, <2>4
  <1>7. q = [nbtp |-> q.nbtp, dbtp |-> q.dbtp, tdco |-> q.tdco, MON |-> q.MON,
             LBCK |-> q.LBCK, DAR |-> q.DAR, FDOE |-> q.FDOE]
    BY DEF Programmed
  <1>8. r.dbtp \in Fields(32, 16, 32, 16)
    BY DEF Registers
  <1> HIDE DEF q
  <1>9. q \in Registers
    <2>1. /\ q.nbtp \in Fields(256, 128, 512, 128) /\ q.dbtp \in Fields(32, 16, 32, 16)
          /\ q.tdco \in 0 .. 127
      BY <1>2, <1>3, <1>8
    <2>2. q.MON \in BOOLEAN /\ q.LBCK \in BOOLEAN /\ q.DAR \in BOOLEAN /\ q.FDOE \in BOOLEAN
      <3>1. /\ ("LISTEN_ONLY" \in flags) \in BOOLEAN /\ ("LOOP_BACK" \in flags) \in BOOLEAN
            /\ ("ONE_SHOT" \in flags) \in BOOLEAN /\ ("FD" \in flags) \in BOOLEAN
        OBVIOUS
      <3> QED BY <1>5, <1>6, <3>1
    <2> DEFINE a == q.nbtp  b == q.dbtp  n == q.tdco
               k == q.MON  l == q.LBCK  m == q.DAR  o == q.FDOE
    <2> HIDE DEF a, b, n, k, l, m, o
    <2>3. /\ a \in Fields(256, 128, 512, 128) /\ b \in Fields(32, 16, 32, 16) /\ n \in 0 .. 127
          /\ k \in BOOLEAN /\ l \in BOOLEAN /\ m \in BOOLEAN /\ o \in BOOLEAN
      BY <2>1, <2>2 DEF a, b, n, k, l, m, o
    <2>4. [nbtp |-> a, dbtp |-> b, tdco |-> n, MON |-> k, LBCK |-> l, DAR |-> m, FDOE |-> o]
            \in Registers
      BY <2>3 DEF Registers
    <2> QED BY <1>7, <2>4 DEF a, b, n, k, l, m, o
  <1> QED BY <1>3, <1>5, <1>6, <1>9 DEF q, j

LEMMA ModeStartStep ==
  ASSUME IInv, NEW flags \in Modes, ModeStart(flags)
  PROVE  IInv'
  <1> DEFINE i == init[channel]
             j == Configured(i, flags)
             q == Programmed(regs[channel], j)
             s == [nominal |-> sent[channel].nominal, data |-> sent[channel].data,
                   flags |-> flags]
  <1>1. /\ channel \in Channels /\ transfer.wValue = channel
        /\ ep0_state' = "idle" /\ setups' \in Nat /\ transfer' \in Request /\ Matched'
        /\ last_setup_request' \in Request
    BY StageFacts, ForgetType DEF ModeStart, Requests, ToDevice
  <1>2. /\ init \in [Channels -> HalInit] /\ regs \in [Channels -> Registers]
        /\ sent \in [Channels -> [nominal : Timing, data : Timing]]
        /\ started \in [Channels -> [nominal : Timing, data : Timing, flags : SUBSET Flags]]
        /\ enabled \in [Channels -> BOOLEAN] /\ phy \in [Channels -> BOOLEAN]
        /\ led \in [Channels -> {"OFF", "NORMAL", "SEQUENCE"}] /\ term_state \subseteq Channels
        /\ is_usb_suspend_cb \in BOOLEAN
    BY DEF IInv, TypeOK
  <1>3. i \in HalInit /\ i.nominal \in NominalOK /\ i.data \in DataOK /\ regs[channel] \in Registers
    BY <1>1, <1>2 DEF IInv, Checked
  <1>4. /\ q \in Registers /\ q.nbtp = Nbtp(i.nominal)
        /\ "FD" \in flags => q.dbtp = Dbtp(i.data)
        /\ q.MON = ("LISTEN_ONLY" \in flags) /\ q.LBCK = ("LOOP_BACK" \in flags)
        /\ q.DAR = ("ONE_SHOT" \in flags) /\ q.FDOE = ("FD" \in flags)
    BY <1>3, ProgrammedFacts
  <1>5. j \in HalInit /\ j.nominal = i.nominal /\ j.data = i.data
    BY <1>3, ConfiguredFacts
  <1>6. s \in [nominal : Timing, data : Timing, flags : SUBSET Flags]
    BY <1>1, <1>2, ControlAssumption
  <1>7. /\ init' = [init EXCEPT ![channel] = j] /\ regs' = [regs EXCEPT ![channel] = q]
        /\ started' = [started EXCEPT ![channel] = s]
        /\ enabled' = [enabled EXCEPT ![channel] = TRUE]
        /\ phy' = [phy EXCEPT ![channel] = TRUE] /\ led' = [led EXCEPT ![channel] = "NORMAL"]
        /\ UNCHANGED <<term_state, is_usb_suspend_cb, sent>>
        /\ timestamps_enabled' \in BOOLEAN /\ pad_pkts_to_max_pkt_size' \in BOOLEAN
    BY <1>1, <1>2 DEF ModeStart
  <1>8. s.nominal = sent[channel].nominal /\ s.data = sent[channel].data /\ s.flags = flags
    OBVIOUS
  <1>9. /\ sent[channel].nominal \in Timing /\ sent[channel].data \in Timing
        /\ Advertised(btc, sent[channel].nominal) => i.nominal = Stored(sent[channel].nominal)
        /\ Advertised(dbtc, sent[channel].data) => i.data = Stored(sent[channel].data)
    BY <1>1, <1>2 DEF IInv, Kept
  <1> HIDE DEF i, j, q, s
  <1>10. TypeOK'
    <2>1. /\ init' \in [Channels -> HalInit] /\ regs' \in [Channels -> Registers]
          /\ started' \in [Channels -> [nominal : Timing, data : Timing, flags : SUBSET Flags]]
      BY <1>2, <1>4, <1>5, <1>6, <1>7
    <2>2. /\ enabled' \in [Channels -> BOOLEAN] /\ phy' \in [Channels -> BOOLEAN]
          /\ led' \in [Channels -> {"OFF", "NORMAL", "SEQUENCE"}]
      BY <1>2, <1>7
    <2> QED BY <1>1, <1>2, <1>7, <2>1, <2>2 DEF TypeOK
  <1>11. Checked' /\ Kept'
    <2>1. \A c \in Channels : init'[c].nominal = init[c].nominal /\ init'[c].data = init[c].data
      BY <1>2, <1>5, <1>7 DEF i
    <2> QED BY <1>7, <2>1 DEF IInv, Checked, Kept
  <1>12. RunsAsAsked'
    <2>1. /\ Advertised(btc, s.nominal) /\ s.nominal.prop_seg + s.nominal.phase_seg1 < UINT8
               => q.nbtp = Exactly(s.nominal)
          /\ Advertised(dbtc, s.data) /\ "FD" \in s.flags => q.dbtp = Exactly(s.data)
      BY <1>4, <1>8, <1>9, AdvertisedExact
    <2>2. \A c \in Channels \ {channel} :
            enabled'[c] = enabled[c] /\ started'[c] = started[c] /\ regs'[c] = regs[c]
      BY <1>2, <1>7
    <2>3. started'[channel] = s /\ regs'[channel] = q
      BY <1>1, <1>2, <1>7
    <2> QED BY <1>4, <1>8, <2>1, <2>2, <2>3 DEF IInv, RunsAsAsked
  <1> QED BY <1>1, <1>10, <1>11, <1>12 DEF IInv

-----------------------------------------------------------------------------
(* The theorems                                                            *)

LEMMA NextIInv == IInv /\ [Next]_vars => IInv'
  <1> SUFFICES ASSUME IInv, [Next]_vars PROVE IInv'
    OBVIOUS
  <1>1. CASE UNCHANGED vars
    <2>1. UNCHANGED <<init, regs, sent, started, enabled>> /\ TypeOK' /\ Matched'
      BY <1>1 DEF vars, device, perchan, pipe, IInv, TypeOK, Matched
    <2> QED BY <2>1, Untouched
  <1>2. CASE Suspend \/ Resume \/ BusReset
    BY <1>2, BusStep
  <1>3. ASSUME NEW req \in Requests, NEW ch \in 0 .. NumChannels,
               NEW fit \in {"short", "fits", "long"}, Config_Request(req, ch, fit)
        PROVE  IInv'
    BY <1>3, SetupStep
  <1>4. CASE EP0_RxReady
    <2>1. CASE HostFormat
      BY <2>1, HostFormatStep
    <2>2. CASE ModeReset \/ ModeOther
      BY <2>2, ModeResetStep
    <2>3. ASSUME NEW t \in Timings, Bittiming(t) PROVE IInv'
      BY <2>3, BittimingStep
    <2>4. ASSUME NEW t \in DataTimings, DataBittiming(t) PROVE IInv'
      BY <2>4, DataBittimingStep
    <2>5. ASSUME NEW flags \in Modes, ModeStart(flags) PROVE IInv'
      BY <2>5, ModeStartStep
    <2>6. ASSUME NEW on \in BOOLEAN, Identify(on) \/ SetTermination(on) PROVE IInv'
      BY <2>6, IdentifyStep
    <2> QED BY <1>4, <2>1, <2>2, <2>3, <2>4, <2>5, <2>6 DEF EP0_RxReady
  <1> QED BY <1>1, <1>2, <1>3, <1>4 DEF Next

(* The inductive invariant holds in every reachable state.                 *)
THEOREM ControlInvariance == Spec => []IInv
  <1> QED BY InitIInv, NextIInv, PTL DEF Spec

(* Every variable has its type and the timing registers hold values of     *)
(* their fields, whatever timings the host sends.                          *)
THEOREM ControlTypeCorrect == Spec => []TypeOK
  <1>1. IInv => TypeOK
    BY DEF IInv
  <1> QED BY <1>1, ControlInvariance, PTL

(* A channel on the bus runs with the timings and in the mode that the     *)
(* host last asked for on that channel.                                    *)
THEOREM AsAsked == Spec => []RunsAsAsked
  <1>1. IInv => RunsAsAsked
    BY DEF IInv
  <1> QED BY <1>1, ControlInvariance, PTL

(* A step other than a data stage leaves settings, registers and           *)
(* terminations alone.                                                     *)
LEMMA SettingsStay ==
  ASSUME [Next]_vars, ~EP0_RxReady
  PROVE  UNCHANGED <<init, regs, term_state>>
  <1>1. CASE UNCHANGED vars
    BY <1>1 DEF vars, perchan
  <1>2. CASE Suspend \/ Resume \/ BusReset
    BY <1>2 DEF Suspend, Resume, BusReset, perchan
  <1>3. ASSUME NEW req, NEW ch, NEW fit, Config_Request(req, ch, fit)
        PROVE  UNCHANGED <<init, regs, term_state>>
    BY <1>3 DEF Config_Request, perchan
  <1> QED BY <1>1, <1>2, <1>3 DEF Next

(* A data stage touches only the channel that the saved request names.     *)
LEMMA OthersStay ==
  ASSUME IInv, EP0_RxReady, NEW c \in Channels, c # channel
  PROVE  init'[c] = init[c] /\ regs'[c] = regs[c] /\ ((c \in term_state') <=> (c \in term_state))
  <1>1. init \in [Channels -> HalInit] /\ regs \in [Channels -> Registers]
    BY DEF IInv, TypeOK
  <1>2. CASE HostFormat \/ ModeReset \/ ModeOther
    BY <1>2 DEF HostFormat, ModeReset, ModeOther, perchan
  <1>3. ASSUME NEW t, Bittiming(t) \/ DataBittiming(t)
        PROVE  init'[c] = init[c] /\ UNCHANGED <<regs, term_state>>
    BY <1>1, <1>3 DEF Bittiming, DataBittiming
  <1>4. ASSUME NEW flags, ModeStart(flags)
        PROVE  init'[c] = init[c] /\ regs'[c] = regs[c] /\ UNCHANGED term_state
    BY <1>1, <1>4 DEF ModeStart
  <1>5. ASSUME NEW on, Identify(on) \/ SetTermination(on)
        PROVE  UNCHANGED <<init, regs>> /\ ((c \in term_state') <=> (c \in term_state))
    BY <1>5 DEF Identify, SetTermination
  <1> QED BY <1>2, <1>3, <1>4, <1>5 DEF EP0_RxReady

(* The data stage of the host's own transfer, and of no other, changes a   *)
(* channel's settings, and only those of the channel the transfer names.   *)
THEOREM Named == Spec => OnlyNamed
  <1> DEFINE Only(c) ==
        init'[c] # init[c] \/ regs'[c] # regs[c] \/ (c \in term_state') # (c \in term_state)
          => ep0_state = "data_out" /\ transfer.wValue = c
  <1>1. ASSUME IInv, [Next]_vars, NEW c \in Channels PROVE Only(c)
    <2>1. CASE ~EP0_RxReady
      BY <1>1, <2>1, SettingsStay
    <2>2. CASE EP0_RxReady /\ c # channel
      BY <1>1, <2>2, OthersStay
    <2>3. CASE EP0_RxReady /\ c = channel
      <3>1. ep0_state = "data_out"
        BY <2>3 DEF EP0_RxReady, HostFormat, ModeReset, ModeOther, Bittiming, DataBittiming,
                    ModeStart, Identify, SetTermination, RxReady
      <3>2. transfer.wValue = c
        BY <1>1, <2>3, <3>1 DEF IInv, Matched, channel
      <3> QED BY <3>1, <3>2
    <2> QED BY <2>1, <2>2, <2>3
  <1>2. IInv /\ [Next]_vars => [\A c \in Channels : Only(c)]_vars
    BY <1>1
  <1> QED BY <1>2, ControlInvariance, PTL DEF Spec, OnlyNamed

(* A step that leaves the LEDs, the transceivers and the peripherals as    *)
(* they are leaves what they show as true as it was.                       *)
LEMMA ShownStays ==
  ASSUME Indicated, UNCHANGED <<enabled, phy, led>>
  PROVE  Indicated'
  BY DEF Indicated

(* can_disable and led_set_mode come together, for any channels.           *)
LEMMA OffShown ==
  ASSUME IInv, Indicated, NEW cs, Off(cs)
  PROVE  Indicated'
  <1> SUFFICES ASSUME NEW c \in Channels
               PROVE  /\ phy'[c] = enabled'[c]
                      /\ led'[c] # "SEQUENCE" => led'[c] = IF enabled'[c] THEN "NORMAL" ELSE "OFF"
    BY DEF Indicated
  <1>1. phy[c] = enabled[c] /\ (led[c] # "SEQUENCE" => led[c] = IF enabled[c] THEN "NORMAL" ELSE "OFF")
    BY DEF Indicated
  <1>2. phy[c] \in BOOLEAN /\ enabled[c] \in BOOLEAN
    BY DEF IInv, TypeOK
  <1>3. CASE c \in cs
    <2>1. phy'[c] = FALSE /\ enabled'[c] = FALSE /\ led'[c] = "OFF"
      BY <1>3 DEF Off
    <2> QED BY <2>1
  <1>4. CASE c \notin cs
    <2>1. phy'[c] = phy[c] /\ enabled'[c] = enabled[c] /\ led'[c] = led[c]
      BY <1>2, <1>4 DEF Off
    <2> QED BY <1>1, <2>1
  <1> QED BY <1>3, <1>4

(* START and IDENTIFY set the LEDs of one channel by what it does then.    *)
LEMMA OneShown ==
  ASSUME IInv, Indicated
  PROVE  /\ \A flags : ModeStart(flags) => Indicated'
         /\ \A on \in BOOLEAN : Identify(on) => Indicated'
  <1>1. enabled \in [Channels -> BOOLEAN] /\ phy \in [Channels -> BOOLEAN]
        /\ led \in [Channels -> {"OFF", "NORMAL", "SEQUENCE"}]
    BY DEF IInv, TypeOK
  <1>2. ASSUME NEW flags, ModeStart(flags), NEW c \in Channels
        PROVE  /\ phy'[c] = enabled'[c]
               /\ led'[c] # "SEQUENCE" => led'[c] = IF enabled'[c] THEN "NORMAL" ELSE "OFF"
    <2>1. CASE c = channel
      <3>1. phy'[c] = TRUE /\ enabled'[c] = TRUE /\ led'[c] = "NORMAL"
        BY <1>1, <1>2, <2>1 DEF ModeStart
      <3> QED BY <3>1
    <2>2. CASE c # channel
      <3>1. phy'[c] = phy[c] /\ enabled'[c] = enabled[c] /\ led'[c] = led[c]
        BY <1>1, <1>2, <2>2 DEF ModeStart
      <3> QED BY <3>1 DEF Indicated
    <2> QED BY <2>1, <2>2
  <1>3. ASSUME NEW on \in BOOLEAN, Identify(on), NEW c \in Channels
        PROVE  /\ phy'[c] = enabled'[c]
               /\ led'[c] # "SEQUENCE" => led'[c] = IF enabled'[c] THEN "NORMAL" ELSE "OFF"
    <2>1. phy' = phy /\ enabled' = enabled
      BY <1>3 DEF Identify
    <2>2. CASE c = channel
      <3>1. led'[c] = IF on THEN "SEQUENCE" ELSE IF enabled[c] THEN "NORMAL" ELSE "OFF"
        BY <1>1, <1>3, <2>2 DEF Identify
      <3> QED BY <2>1, <3>1 DEF Indicated
    <2>3. CASE c # channel
      <3>1. led'[c] = led[c]
        BY <1>1, <1>3, <2>3 DEF Identify
      <3> QED BY <2>1, <3>1 DEF Indicated
    <2> QED BY <2>2, <2>3
  <1> QED BY <1>2, <1>3 DEF Indicated

LEMMA NextShown ==
  ASSUME IInv, Indicated, [Next]_vars
  PROVE  Indicated'
  <1>1. CASE UNCHANGED vars
    BY <1>1, ShownStays DEF vars, perchan
  <1>2. CASE Suspend
    BY <1>2, OffShown DEF Suspend
  <1>3. CASE Resume \/ BusReset
    BY <1>3, ShownStays DEF Resume, BusReset, perchan
  <1>4. ASSUME NEW req, NEW ch, NEW fit, Config_Request(req, ch, fit) PROVE Indicated'
    BY <1>4, ShownStays DEF Config_Request, perchan
  <1>5. CASE EP0_RxReady
    <2>1. CASE HostFormat \/ ModeOther
      BY <2>1, ShownStays DEF HostFormat, ModeOther, perchan
    <2>2. CASE ModeReset
      BY <2>2, OffShown DEF ModeReset
    <2>3. ASSUME NEW t, Bittiming(t) \/ DataBittiming(t) PROVE Indicated'
      BY <2>3, ShownStays DEF Bittiming, DataBittiming
    <2>4. ASSUME NEW flags, ModeStart(flags) PROVE Indicated'
      BY <2>4, OneShown
    <2>5. ASSUME NEW on \in BOOLEAN, Identify(on) PROVE Indicated'
      BY <2>5, OneShown
    <2>6. ASSUME NEW on \in BOOLEAN, SetTermination(on) PROVE Indicated'
      BY <2>6, ShownStays DEF SetTermination
    <2> QED BY <1>5, <2>1, <2>2, <2>3, <2>4, <2>5, <2>6 DEF EP0_RxReady
  <1> QED BY <1>1, <1>2, <1>3, <1>4, <1>5 DEF Next

(* Transceivers and LEDs show which channels are on the bus, whatever the  *)
(* order of MODE, IDENTIFY and suspend.                                    *)
THEOREM Shown == Spec => []Indicated
  <1>1. Init => Indicated
    BY DEF Init, Indicated
  <1> QED BY <1>1, NextShown, ControlInvariance, PTL DEF Spec
============================================================================
