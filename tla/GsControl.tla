------------------------------ MODULE GsControl ------------------------------
(***************************************************************************)
(* The control endpoint of the USB-CAN converter: the requests with which  *)
(* the host's gs_usb driver sets the bit timing, the mode, the LEDs and    *)
(* the termination of a channel, and what the M_CAN peripheral then runs   *)
(* with.  A request is a SETUP packet and a data stage; a new SETUP packet *)
(* may come before the data stage of the last one.                         *)
(*                                                                         *)
(* Only the kind of a request, the channel it names and whether its length *)
(* fits are kept of a SETUP packet.  Timings are numbers; UINT32 and UINT8 *)
(* are the moduli of the types the code computes them in.                  *)
(***************************************************************************)
EXTENDS Integers

CONSTANTS
  NumChannels,     \* NUM_CAN_CHANNEL
  Termination,     \* TERM_Pin is defined for the board
  Timings,         \* the timings the host sends with GS_USB_BREQ_BITTIMING
  DataTimings,     \* the same for GS_USB_BREQ_DATA_BITTIMING
  Modes,           \* the sets of flags the host sends with GS_CAN_MODE_START
  UINT8, UINT32,   \* number of values of uint8_t and of uint32_t
  MaxSetups        \* bound: SETUP packets

Flags == {"LISTEN_ONLY", "LOOP_BACK", "ONE_SHOT", "FD", "HW_TIMESTAMP", "PAD_PKTS"}

(* struct gs_device_bittiming                                              *)
Timing == [prop_seg : Nat, phase_seg1 : Nat, phase_seg2 : Nat, sjw : Nat, brp : Nat]

ASSUME ControlAssumption ==
  /\ NumChannels \in Nat \ {0} /\ Termination \in BOOLEAN /\ MaxSetups \in Nat
  /\ Timings \subseteq Timing /\ DataTimings \subseteq Timing
  /\ Modes \subseteq SUBSET Flags
  /\ UINT8 = 256 /\ UINT32 \in Nat /\ UINT32 > 512

Channels == 0 .. NumChannels - 1

(* CAN_btconst.btc and CAN_btconst_ext.dbtc                                *)
btc  == [tseg1_min |-> 1, tseg1_max |-> 256, tseg2_min |-> 1, tseg2_max |-> 128,
         sjw_max |-> 128, brp_min |-> 1, brp_max |-> 512]
dbtc == [tseg1_min |-> 1, tseg1_max |-> 32, tseg2_min |-> 1, tseg2_max |-> 16,
         sjw_max |-> 16, brp_min |-> 1, brp_max |-> 32]

PerDevice == {"HOST_FORMAT", "DEVICE_CONFIG"}
ToDevice  == {"HOST_FORMAT", "BITTIMING", "MODE", "IDENTIFY", "DATA_BITTIMING",
              "SET_TERMINATION"}
FromDevice == {"BT_CONST", "DEVICE_CONFIG", "TIMESTAMP", "BT_CONST_EXT",
               "GET_TERMINATION"}
Other == {"BERR"}          \* any request that the firmware does not know
Requests == ToDevice \cup FromDevice \cup Other
NONE == "none"             \* bRequest = 0xFF

VARIABLES
  ep0_state,           \* "idle" or "data_out"
  last_setup_request,  \* the request and the channel that a data stage is for
  init,                \* channel.Init of the HAL, for each channel
  regs,                \* the registers that HAL_FDCAN_Init wrote from it
  enabled, phy,        \* the channel is on the bus; its transceiver has power
  led,                 \* mode of its LEDs
  term_state,          \* the channels with their termination on
  timestamps_enabled, pad_pkts_to_max_pkt_size,
  is_usb_suspend_cb,
  setups,              \* how much of the bound is used up
  transfer,            \* ghost: the request the host is in the middle of
  sent,                \* ghost: the timings the host sent last to each channel
  started              \* ghost: those, and the flags, at its last START

device == <<timestamps_enabled, pad_pkts_to_max_pkt_size, is_usb_suspend_cb>>
perchan == <<init, regs, enabled, phy, led, term_state>>
pipe == <<ep0_state, last_setup_request, setups, transfer>>
vars == <<device, perchan, pipe, sent, started>>

-----------------------------------------------------------------------------
(* Bit timing                                                              *)

(* uint32_t tseg1                                                          *)
Tseg1(t) == (t.prop_seg + t.phase_seg1) % UINT32

(* Mutant: the upper limit of the second segment is left out.              *)
can_check_bittiming_okLow(limits, t) ==
  /\ Tseg1(t) \in limits.tseg1_min .. limits.tseg1_max
  /\ t.phase_seg2 >= limits.tseg2_min
  /\ t.sjw <= limits.sjw_max
  /\ t.brp \in limits.brp_min .. limits.brp_max

can_check_bittiming_ok(limits, t) ==
  /\ Tseg1(t) \in limits.tseg1_min .. limits.tseg1_max
  /\ t.phase_seg2 \in limits.tseg2_min .. limits.tseg2_max
  /\ t.sjw <= limits.sjw_max
  /\ t.brp \in limits.brp_min .. limits.brp_max

(* What can_set_bittiming and can_set_data_bittiming store.                *)
Stored(t) ==
  [tseg1 |-> Tseg1(t) % UINT8, tseg2 |-> t.phase_seg2,
   sjw |-> t.sjw, brp |-> t.brp]

(* The registers take each value less one, shifted to its place: a zero    *)
(* sets all the bits of its field and of the fields above it.              *)
Nbtp(s) ==
  [tseg2 |-> s.tseg2,
   tseg1 |-> IF s.tseg1 = 0 THEN 256 ELSE s.tseg1,
   brp   |-> IF s.tseg1 = 0 THEN 512 ELSE s.brp,
   sjw   |-> IF s.tseg1 = 0 \/ s.sjw = 0 THEN 128 ELSE s.sjw]
Dbtp(s) ==
  IF s.sjw = 0 THEN [tseg1 |-> 32, tseg2 |-> 16, brp |-> 32, sjw |-> 16] ELSE s

(* The transmitter delay compensation offset, a field of seven bits.       *)
Tdco(s) == (s.tseg1 * s.brp) % 128

-----------------------------------------------------------------------------
(* can_init and what main makes of it: a stopped channel.                  *)
NominalDefault == [prop_seg |-> 0, phase_seg1 |-> 13, phase_seg2 |-> 2, sjw |-> 1, brp |-> 8]
DataDefault == [prop_seg |-> 0, phase_seg1 |-> 15, phase_seg2 |-> 4, sjw |-> 4, brp |-> 2]
InitDefault ==
  [nominal |-> Stored(NominalDefault), data |-> Stored(DataDefault),
   Mode |-> "NORMAL", AutoRetransmission |-> TRUE, FrameFormat |-> "FD_BRS"]

(* The registers after power-on.                                           *)
RegsReset ==
  [nbtp |-> [tseg1 |-> 11, tseg2 |-> 4, brp |-> 1, sjw |-> 4],
   dbtp |-> [tseg1 |-> 11, tseg2 |-> 4, brp |-> 1, sjw |-> 4],
   tdco |-> 0, MON |-> FALSE, LBCK |-> FALSE, DAR |-> FALSE, FDOE |-> FALSE]

Init ==
  /\ ep0_state = "idle"
  /\ last_setup_request = [bRequest |-> "HOST_FORMAT", wValue |-> 0]  \* all zero
  /\ init = [c \in Channels |-> InitDefault]
  /\ regs = [c \in Channels |-> RegsReset]
  /\ enabled = [c \in Channels |-> FALSE]
  /\ phy = [c \in Channels |-> FALSE]
  /\ led = [c \in Channels |-> "OFF"]
  /\ term_state = {}
  /\ timestamps_enabled = FALSE /\ pad_pkts_to_max_pkt_size = FALSE
  /\ is_usb_suspend_cb = FALSE
  /\ setups = 0
  /\ transfer = [bRequest |-> NONE, wValue |-> 0]
  /\ sent = [c \in Channels |-> [nominal |-> NominalDefault, data |-> DataDefault]]
  /\ started = [c \in Channels |->
                  [nominal |-> NominalDefault, data |-> DataDefault, flags |-> {}]]

-----------------------------------------------------------------------------
(* USBD_GS_CAN_Config_Request                                              *)

(* Mutant: of a repeated request, the first one is kept.                   *)
SavedFirst(req, ch) ==
  IF last_setup_request.bRequest = req THEN last_setup_request
  ELSE [bRequest |-> req, wValue |-> ch]

Saved(req, ch) == [bRequest |-> req, wValue |-> ch]

(* The checks that end in out_fail.  fit says how wLength compares with    *)
(* the request's structure and with ep0_buf.                               *)
Rejected(req, ch, fit) ==
  \/ req \notin PerDevice /\ ch \notin Channels
  \/ req \in Other
  \/ req \in {"SET_TERMINATION", "GET_TERMINATION"} /\ ~Termination
  \/ fit = "short"
  \/ fit = "long" /\ req \in ToDevice

(* A SETUP packet ends whatever transfer was under way.                    *)
Config_Request(req, ch, fit) ==
  /\ ~is_usb_suspend_cb /\ setups < MaxSetups
  /\ setups' = setups + 1
  /\ IF ~Rejected(req, ch, fit) /\ req \in ToDevice
     THEN /\ last_setup_request' = Saved(req, ch)
          /\ ep0_state' = "data_out"
          /\ transfer' = [bRequest |-> req, wValue |-> ch]
     ELSE /\ ep0_state' = "idle"
          /\ transfer' = [bRequest |-> NONE, wValue |-> 0]
          /\ UNCHANGED last_setup_request
  /\ UNCHANGED <<device, perchan, sent, started>>

-----------------------------------------------------------------------------
(* USBD_GS_CAN_EP0_RxReady                                                 *)

(* The data stage of request req is over: the library sends the status     *)
(* stage whatever EP0_RxReady returns.                                     *)
RxReady(req) ==
  /\ ep0_state = "data_out" /\ ep0_state' = "idle"
  /\ last_setup_request.bRequest = req
  /\ transfer' = [bRequest |-> NONE, wValue |-> 0]
  /\ UNCHANGED setups

Forget == last_setup_request' = [last_setup_request EXCEPT !.bRequest = NONE]

channel == last_setup_request.wValue

HostFormat ==
  /\ RxReady("HOST_FORMAT") /\ Forget
  /\ UNCHANGED <<device, perchan, sent, started>>

(* A timing outside the limits is not stored, and the request stays.       *)
Bittiming(t) ==
  /\ RxReady("BITTIMING")
  /\ IF can_check_bittiming_ok(btc, t)
     THEN init' = [init EXCEPT ![channel].nominal = Stored(t)] /\ Forget
     ELSE UNCHANGED <<init, last_setup_request>>
  /\ sent' = [sent EXCEPT ![transfer.wValue].nominal = t]
  /\ UNCHANGED <<device, regs, enabled, phy, led, term_state, started>>

DataBittiming(t) ==
  /\ RxReady("DATA_BITTIMING")
  /\ IF can_check_bittiming_ok(dbtc, t)
     THEN init' = [init EXCEPT ![channel].data = Stored(t)] /\ Forget
     ELSE UNCHANGED <<init, last_setup_request>>
  /\ sent' = [sent EXCEPT ![transfer.wValue].data = t]
  /\ UNCHANGED <<device, regs, enabled, phy, led, term_state, started>>

(* The mode of the peripheral; both flags together loop back internally.   *)
OperatingMode(flags) ==
  IF {"LISTEN_ONLY", "LOOP_BACK"} \subseteq flags THEN "INTERNAL_LOOPBACK"
  ELSE IF "LISTEN_ONLY" \in flags THEN "BUS_MONITORING"
  ELSE IF "LOOP_BACK" \in flags THEN "EXTERNAL_LOOPBACK"
  ELSE "NORMAL"

(* Mutant: nothing turns automatic retransmission back on.                 *)
ConfiguredSticky(i, flags) ==
  [i EXCEPT !.AutoRetransmission = @ /\ "ONE_SHOT" \notin flags,
            !.Mode = OperatingMode(flags),
            !.FrameFormat = IF "FD" \in flags THEN "FD_BRS" ELSE "CLASSIC"]

(* can_enable, up to HAL_FDCAN_Init.                                       *)
Configured(i, flags) ==
  [i EXCEPT !.AutoRetransmission = "ONE_SHOT" \notin flags,
            !.Mode = OperatingMode(flags),
            !.FrameFormat = IF "FD" \in flags THEN "FD_BRS" ELSE "CLASSIC"]

(* HAL_FDCAN_Init and the delay compensation: the data bit timing register *)
(* keeps what it had unless the channel is to do CAN-FD.                   *)
Programmed(r, i) ==
  [nbtp |-> Nbtp(i.nominal),
   dbtp |-> IF i.FrameFormat = "FD_BRS" THEN Dbtp(i.data) ELSE r.dbtp,
   tdco |-> Tdco(i.data),
   MON  |-> i.Mode \in {"BUS_MONITORING", "INTERNAL_LOOPBACK"},
   LBCK |-> i.Mode \in {"INTERNAL_LOOPBACK", "EXTERNAL_LOOPBACK"},
   DAR  |-> ~i.AutoRetransmission,
   FDOE |-> i.FrameFormat = "FD_BRS"]

(* MODE with GS_CAN_MODE_START; the flags for the frames are the device's. *)
ModeStart(flags) ==
  /\ RxReady("MODE") /\ Forget
  /\ timestamps_enabled' = ("HW_TIMESTAMP" \in flags)
  /\ pad_pkts_to_max_pkt_size' = ("PAD_PKTS" \in flags)
  /\ init' = [init EXCEPT ![channel] = Configured(@, flags)]
  /\ regs' = [regs EXCEPT ![channel] = Programmed(@, Configured(init[channel], flags))]
  /\ enabled' = [enabled EXCEPT ![channel] = TRUE]
  /\ phy' = [phy EXCEPT ![channel] = TRUE]
  /\ led' = [led EXCEPT ![channel] = "NORMAL"]
  /\ started' = [started EXCEPT ![transfer.wValue] =
                   [nominal |-> sent[transfer.wValue].nominal,
                    data |-> sent[transfer.wValue].data, flags |-> flags]]
  /\ UNCHANGED <<term_state, is_usb_suspend_cb, sent>>

(* can_disable and led_set_mode for the channels cs.                       *)
Off(cs) ==
  /\ enabled' = [c \in Channels |-> enabled[c] /\ c \notin cs]
  /\ phy' = [c \in Channels |-> phy[c] /\ c \notin cs]
  /\ led' = [c \in Channels |-> IF c \in cs THEN "OFF" ELSE led[c]]

ModeReset ==
  /\ RxReady("MODE") /\ Forget /\ Off({channel})
  /\ UNCHANGED <<device, init, regs, term_state, sent, started>>

(* MODE with a mode that is neither.                                       *)
ModeOther ==
  /\ RxReady("MODE") /\ Forget
  /\ UNCHANGED <<device, perchan, sent, started>>

(* Mutant: the LEDs go back to normal whether the channel runs or not.     *)
IdentifyNormal(on) ==
  /\ RxReady("IDENTIFY") /\ Forget
  /\ led' = [led EXCEPT ![channel] = IF on THEN "SEQUENCE" ELSE "NORMAL"]
  /\ UNCHANGED <<device, init, regs, enabled, phy, term_state, sent, started>>

Identify(on) ==
  /\ RxReady("IDENTIFY") /\ Forget
  /\ led' = [led EXCEPT ![channel] = IF on THEN "SEQUENCE"
                                     ELSE IF enabled[channel] THEN "NORMAL" ELSE "OFF"]
  /\ UNCHANGED <<device, init, regs, enabled, phy, term_state, sent, started>>

SetTermination(on) ==
  /\ RxReady("SET_TERMINATION") /\ Forget
  /\ term_state' = IF on THEN term_state \cup {channel} ELSE term_state \ {channel}
  /\ UNCHANGED <<device, init, regs, enabled, phy, led, sent, started>>

-----------------------------------------------------------------------------
(* USBD_GS_CAN_SuspendCallback, USBD_GS_CAN_ResumeCallback, and a bus      *)
(* reset, which stops no channel.                                          *)
Suspend ==
  /\ ~is_usb_suspend_cb /\ is_usb_suspend_cb' = TRUE
  /\ Off(Channels)
  /\ UNCHANGED <<timestamps_enabled, pad_pkts_to_max_pkt_size, init, regs, term_state,
                 pipe, sent, started>>

Resume ==
  /\ is_usb_suspend_cb /\ is_usb_suspend_cb' = FALSE
  /\ UNCHANGED <<timestamps_enabled, pad_pkts_to_max_pkt_size, perchan, pipe, sent, started>>

BusReset ==
  /\ ep0_state' = "idle" /\ is_usb_suspend_cb' = FALSE
  /\ transfer' = [bRequest |-> NONE, wValue |-> 0]
  /\ UNCHANGED <<timestamps_enabled, pad_pkts_to_max_pkt_size, perchan,
                 last_setup_request, setups, sent, started>>

EP0_RxReady ==
  /\ ~is_usb_suspend_cb
  /\ \/ HostFormat \/ ModeReset \/ ModeOther
     \/ \E t \in Timings : Bittiming(t)
     \/ \E t \in DataTimings : DataBittiming(t)
     \/ \E flags \in Modes : ModeStart(flags)
     \/ \E on \in BOOLEAN : Identify(on) \/ SetTermination(on)

Next ==
  \/ \E req \in Requests, ch \in 0 .. NumChannels, fit \in {"short", "fits", "long"} :
       Config_Request(req, ch, fit)
  \/ EP0_RxReady \/ Suspend \/ Resume \/ BusReset

Spec == Init /\ [][Next]_vars

-----------------------------------------------------------------------------
(* Properties                                                              *)

Fields(t1, t2, b, s) == [tseg1 : 1 .. t1, tseg2 : 1 .. t2, brp : 1 .. b, sjw : 1 .. s]
HalTiming == [tseg1 : Nat, tseg2 : Nat, brp : Nat, sjw : Nat]
HalInit ==
  [nominal : HalTiming, data : HalTiming, AutoRetransmission : BOOLEAN,
   Mode : {"NORMAL", "INTERNAL_LOOPBACK", "BUS_MONITORING", "EXTERNAL_LOOPBACK"},
   FrameFormat : {"CLASSIC", "FD_BRS"}]
Registers ==
  [nbtp : Fields(256, 128, 512, 128), dbtp : Fields(32, 16, 32, 16), tdco : 0 .. 127,
   MON : BOOLEAN, LBCK : BOOLEAN, DAR : BOOLEAN, FDOE : BOOLEAN]
Request == [bRequest : Requests \cup {NONE}, wValue : 0 .. NumChannels]

(* Every variable has its type, and the registers of a channel hold bit    *)
(* timings that their fields can hold: what the check lets through and the *)
(* conversions make of it fits.                                            *)
TypeOK ==
  /\ ep0_state \in {"idle", "data_out"}
  /\ last_setup_request \in Request /\ transfer \in Request
  /\ init \in [Channels -> HalInit] /\ regs \in [Channels -> Registers]
  /\ enabled \in [Channels -> BOOLEAN] /\ phy \in [Channels -> BOOLEAN]
  /\ led \in [Channels -> {"OFF", "NORMAL", "SEQUENCE"}]
  /\ term_state \subseteq Channels
  /\ timestamps_enabled \in BOOLEAN /\ pad_pkts_to_max_pkt_size \in BOOLEAN
  /\ is_usb_suspend_cb \in BOOLEAN /\ setups \in Nat
  /\ sent \in [Channels -> [nominal : Timing, data : Timing]]
  /\ started \in [Channels -> [nominal : Timing, data : Timing, flags : SUBSET Flags]]

(* Timing t is one that the device tells the host it can do, with a        *)
(* synchronisation jump width of at least one.                             *)
Advertised(limits, t) ==
  /\ t.prop_seg + t.phase_seg1 \in limits.tseg1_min .. limits.tseg1_max
  /\ t.phase_seg2 \in limits.tseg2_min .. limits.tseg2_max
  /\ t.sjw \in 1 .. limits.sjw_max
  /\ t.brp \in limits.brp_min .. limits.brp_max

(* The register contents that mean timing t.                               *)
Exactly(t) ==
  [tseg1 |-> t.prop_seg + t.phase_seg1, tseg2 |-> t.phase_seg2, sjw |-> t.sjw, brp |-> t.brp]

(* A channel that is on the bus runs with the bit timings that the host    *)
(* sent last to this channel before its START, and in the mode it asked    *)
(* for: it drives no bits if it is only to listen, and so on.  Requests to *)
(* other channels, transfers broken off by another SETUP packet, timings   *)
(* changed while it runs and a suspend do not get in between.  Timings     *)
(* with a first segment of UINT8 or more are left to AdvertisedTiming.     *)
RunsAsAsked ==
  \A c \in Channels : enabled[c] =>
    LET s == started[c]
        r == regs[c]
    IN  /\ r.MON = ("LISTEN_ONLY" \in s.flags) /\ r.LBCK = ("LOOP_BACK" \in s.flags)
        /\ r.DAR = ("ONE_SHOT" \in s.flags) /\ r.FDOE = ("FD" \in s.flags)
        /\ Advertised(btc, s.nominal) /\ s.nominal.prop_seg + s.nominal.phase_seg1 < UINT8
             => r.nbtp = Exactly(s.nominal)
        /\ Advertised(dbtc, s.data) /\ "FD" \in s.flags => r.dbtp = Exactly(s.data)

(* What the outside shows of a channel is true: its transceiver has power  *)
(* exactly while it is on the bus, and unless the mode of its LEDs is the  *)
(* identify sequence it is off exactly while the channel is not.           *)
Indicated ==
  \A c \in Channels : /\ phy[c] = enabled[c]
                      /\ led[c] # "SEQUENCE" => led[c] = IF enabled[c] THEN "NORMAL" ELSE "OFF"

(* USBD_GS_CAN_EP0_RxReady trusts that the channel "has been checked in    *)
(* USBD_GS_CAN_Config_Request() already": a channel is reconfigured only   *)
(* by the data stage of the transfer that the host is in, and only if that *)
(* transfer names it, whatever was broken off before.                      *)
OnlyNamed ==
  [][\A c \in Channels :
       init'[c] # init[c] \/ regs'[c] # regs[c] \/ (c \in term_state') # (c \in term_state)
         => ep0_state = "data_out" /\ transfer.wValue = c]_vars

(* m_can.c, CAN_btconst: ".tseg1_max = 256".  A timing that the device     *)
(* tells the host it can do is the one that the channel runs with.         *)
AdvertisedTiming ==
  \A c \in Channels : enabled[c] /\ Advertised(btc, started[c].nominal)
    => regs[c].nbtp = Exactly(started[c].nominal)
=============================================================================
