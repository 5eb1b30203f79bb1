------------------------------- MODULE GsCan -------------------------------
(***************************************************************************)
(* The frame path of the USB-CAN converter firmware.  A fixed array of     *)
(* frame objects circulates between a free pool, a queue towards the host, *)
(* one queue per CAN channel towards the bus, the two buffers lent to the  *)
(* USB endpoints, and the one object the main loop is working on.  The     *)
(* main loop runs with interrupts enabled except inside the                *)
(* disable_irq/restore_irq sections; every USB callback runs to completion *)
(* between two steps of the main loop.                                     *)
(*                                                                         *)
(* A main-loop step here is one maximal run of code with at most one       *)
(* access to what the callbacks share (a list under disable_irq, a call    *)
(* into the USB library, a call into the CAN peripheral).                  *)
(***************************************************************************)
EXTENDS Integers, Sequences

CONSTANTS
  CAN_QUEUE_SIZE,  \* number of frame objects in hcan->msgbuf
  NumChannels,     \* NUM_CAN_CHANNEL
  FifoDepth,       \* elements of the Tx FIFO and of Rx FIFO 0 of one channel
  MaxSubmit,       \* bound: frames the host submits on a channel
  MaxArrive,       \* bound: frames that arrive from the bus on a channel
  Events           \* which of the occasional events the environment produces

ASSUME QueueSizeAssumption == CAN_QUEUE_SIZE \in Nat \ {0}
ASSUME ChannelsAssumption  == NumChannels \in Nat \ {0}
ASSUME FifoAssumption      == FifoDepth \in Nat \ {0}
ASSUME BoundsAssumption    == MaxSubmit \in Nat /\ MaxArrive \in Nat

Objects  == 1 .. CAN_QUEUE_SIZE   \* a frame object is its index in msgbuf
NULL     == 0
Channels == 0 .. NumChannels - 1

(* Contents of a frame object.  "host": received from the host, or the     *)
(* echo of such a frame; "bus": received from the bus; "err": an error     *)
(* frame; "none": never written, or a packet the host got wrong.  The      *)
(* number tells the frames of one kind on one channel apart.               *)
Contents == [kind : {"none", "host", "bus", "err"}, channel : Channels, nr : Nat]
Blank    == [kind |-> "none", channel |-> 0, nr |-> 0]

(* Where the main loop stands: one label for each stretch of code between  *)
(* two points at which an interrupt can be taken.                          *)
Labels == {"send", "load", "requeue", "echo",          \* CAN_SendFrame
           "refill", "arm",                            \* ReceiveFromHost
           "pick", "check", "transmit", "drop",        \* SendToHost
           "rxPoll", "rxTake", "rxRead", "rxQueue", "rxReturn",
           "errPoll", "errTake", "errQueue",           \* CAN_HandleError
           "dfu",                                      \* end of the loop body
           "bootloader"}                               \* the loop is over

VARIABLES
  list_frame_pool, list_to_host,
  list_from_host,  \* of each channel
  from_host_buf,   \* object lent to the OUT endpoint, or NULL
  to_host_buf,     \* object lent to the IN endpoint, or NULL
  frame,           \* contents of each object
  pc, i,           \* main loop: label and loop variable over the channels
  frame_object,    \* main loop: the local variable of that name, or NULL
  can_err,         \* main loop: the local variable of that name
  out_ep,          \* OUT endpoint: is it armed, and with which buffer
  in_busy,         \* IN endpoint: a transfer has been started
  usb,             \* enumeration state of the device, or "fault"
  is_usb_suspend_cb,
  dfu_detach_requested,
  enabled, tx_fifo, rx_fifo,  \* CAN peripheral of each channel
  psr, reg_esr_old,           \* its status register; status last reported
  submitted, sent,            \* ghost: number of host frames taken, loaded
  echoed,                     \* ghost: the echoes the host has got
  arrived, delivered          \* ghost: bus frames arrived, delivered

lists == <<list_frame_pool, list_to_host, list_from_host>>
bufs  == <<from_host_buf, to_host_buf>>
main  == <<pc, i, frame_object, can_err>>
eps   == <<out_ep, in_busy>>
dev   == <<usb, is_usb_suspend_cb, dfu_detach_requested>>
can   == <<enabled, tx_fifo, rx_fifo>>
err   == <<psr, reg_esr_old>>
ghost == <<submitted, sent, echoed, arrived, delivered>>
vars  == <<lists, bufs, frame, main, eps, dev, can, err, ghost>>

NoError == [lec |-> FALSE, passive |-> FALSE]

(* main(), up to the first turn of the loop: all objects in the pool, all  *)
(* channels disabled, USB started but not yet enumerated.                  *)
Init ==
  /\ list_frame_pool = [k \in Objects |-> k]
  /\ list_to_host = << >>
  /\ list_from_host = [c \in Channels |-> << >>]
  /\ from_host_buf = NULL
  /\ to_host_buf = NULL
  /\ frame = [o \in Objects |-> Blank]
  /\ pc = "send" /\ i = 0
  /\ frame_object = NULL
  /\ can_err = NoError
  /\ out_ep = [armed |-> FALSE, buf |-> NULL]
  /\ in_busy = FALSE
  /\ usb = "attached"
  /\ is_usb_suspend_cb = FALSE
  /\ dfu_detach_requested = FALSE
  /\ enabled = [c \in Channels |-> FALSE]
  /\ tx_fifo = [c \in Channels |-> 0]
  /\ rx_fifo = [c \in Channels |-> << >>]
  /\ psr = [c \in Channels |-> NoError]
  /\ reg_esr_old = [c \in Channels |-> NoError]
  /\ submitted = [c \in Channels |-> 0]
  /\ sent      = [c \in Channels |-> 0]
  /\ echoed    = [c \in Channels |-> << >>]
  /\ arrived   = [c \in Channels |-> 0]
  /\ delivered = [c \in Channels |-> 0]

-----------------------------------------------------------------------------
(* list_add and list_add_tail                                              *)
AddHead(list, obj) == <<obj>> \o list
AddTail(list, obj) == Append(list, obj)

(* The step of the main loop at label l, which goes on to label m.         *)
At(l) == pc = l /\ usb # "fault"
Goto(m) == pc' = m /\ UNCHANGED i

(* Fault: the loop over the channels runs one too far.                     *)
NextChannelPast(l, m) ==
  /\ i' = IF i + 1 <= NumChannels THEN i + 1 ELSE 0
  /\ pc' = IF i + 1 <= NumChannels THEN l ELSE m

(* The end of the body of a loop over the channels: back to its label l    *)
(* for the next channel, or out of the loop to label m.                    *)
NextChannel(l, m) ==
  /\ i' = IF i + 1 < NumChannels THEN i + 1 ELSE 0
  /\ pc' = IF i + 1 < NumChannels THEN l ELSE m

-----------------------------------------------------------------------------
(* CAN_SendFrame                                                           *)

(* Take the oldest frame the host queued for the channel, if there is one. *)
SendTake ==
  /\ At("send")
  /\ \/ /\ list_from_host[i] = << >>
        /\ NextChannel("send", "refill")
        /\ UNCHANGED <<lists, frame_object>>
     \/ /\ list_from_host[i] # << >>
        /\ frame_object' = Head(list_from_host[i])
        /\ list_from_host' = [list_from_host EXCEPT ![i] = Tail(@)]
        /\ Goto("load")
        /\ UNCHANGED <<list_frame_pool, list_to_host>>
  /\ UNCHANGED <<bufs, frame, can_err, eps, dev, can, err, ghost>>

(* can_send: refused when the channel is stopped or its Tx FIFO is full.   *)
CanSend ==
  /\ At("load")
  /\ \/ /\ enabled[i] /\ tx_fifo[i] < FifoDepth
        /\ tx_fifo' = [tx_fifo EXCEPT ![i] = @ + 1]
        /\ sent' = [sent EXCEPT ![i] = @ + 1]
        /\ Goto("echo")
     \/ /\ ~(enabled[i] /\ tx_fifo[i] < FifoDepth)
        /\ Goto("requeue")
        /\ UNCHANGED <<tx_fifo, sent>>
  /\ UNCHANGED <<lists, bufs, frame, frame_object, can_err, eps, dev, enabled,
                 rx_fifo, err, submitted, echoed, arrived, delivered>>

(* Faults: a refused frame is put behind the newer ones, or freed.         *)
SendRequeueTail ==
  /\ At("requeue")
  /\ list_from_host' = [list_from_host EXCEPT ![i] = AddTail(@, frame_object)]
  /\ frame_object' = NULL
  /\ NextChannel("send", "refill")
  /\ UNCHANGED <<list_frame_pool, list_to_host, bufs, frame, can_err, eps, dev,
                 can, err, ghost>>
SendRequeueFree ==
  /\ At("requeue")
  /\ list_frame_pool' = AddTail(list_frame_pool, frame_object)
  /\ frame_object' = NULL
  /\ NextChannel("send", "refill")
  /\ UNCHANGED <<list_from_host, list_to_host, bufs, frame, can_err, eps, dev,
                 can, err, ghost>>

(* Refused: the frame goes back to the front of the channel's queue.       *)
SendRequeue ==
  /\ At("requeue")
  /\ list_from_host' = [list_from_host EXCEPT ![i] = AddHead(@, frame_object)]
  /\ frame_object' = NULL
  /\ NextChannel("send", "refill")
  /\ UNCHANGED <<list_frame_pool, list_to_host, bufs, frame, can_err, eps, dev,
                 can, err, ghost>>

(* Faults: the echo overtakes what already waits for the host, or is left  *)
(* out while the host is busy.                                             *)
SendEchoHead ==
  /\ At("echo")
  /\ list_to_host' = AddHead(list_to_host, frame_object)
  /\ frame_object' = NULL
  /\ NextChannel("send", "refill")
  /\ UNCHANGED <<list_frame_pool, list_from_host, bufs, frame, can_err, eps,
                 dev, can, err, ghost>>
SendEchoUnlessBusy ==
  /\ At("echo")
  /\ IF to_host_buf = NULL
     THEN /\ list_to_host' = AddTail(list_to_host, frame_object)
          /\ UNCHANGED list_frame_pool
     ELSE /\ list_frame_pool' = AddTail(list_frame_pool, frame_object)
          /\ UNCHANGED list_to_host
  /\ frame_object' = NULL
  /\ NextChannel("send", "refill")
  /\ UNCHANGED <<list_from_host, bufs, frame, can_err, eps, dev, can, err, ghost>>

(* Loaded: the same object becomes the echo towards the host.              *)
SendEcho ==
  /\ At("echo")
  /\ list_to_host' = AddTail(list_to_host, frame_object)
  /\ frame_object' = NULL
  /\ NextChannel("send", "refill")
  /\ UNCHANGED <<list_frame_pool, list_from_host, bufs, frame, can_err, eps,
                 dev, can, err, ghost>>

-----------------------------------------------------------------------------
(* USBD_GS_CAN_ReceiveFromHost and USBD_GS_CAN_SendToHost                  *)

(* Fault: the endpoint is not armed with the buffer found for it.          *)
RefillOnly ==
  /\ At("refill")
  /\ \/ /\ from_host_buf # NULL \/ list_frame_pool = << >>
        /\ UNCHANGED <<lists, from_host_buf>>
     \/ /\ from_host_buf = NULL /\ list_frame_pool # << >>
        /\ from_host_buf' = Head(list_frame_pool)
        /\ list_frame_pool' = Tail(list_frame_pool)
        /\ UNCHANGED <<list_to_host, list_from_host>>
  /\ Goto("pick")
  /\ UNCHANGED <<to_host_buf, frame, frame_object, can_err, eps, dev, can, err,
                 ghost>>

(* Find a buffer for the OUT endpoint when a callback found none.          *)
Refill ==
  /\ At("refill")
  /\ \/ /\ from_host_buf # NULL \/ list_frame_pool = << >>
        /\ Goto("pick")
        /\ UNCHANGED <<lists, from_host_buf>>
     \/ /\ from_host_buf = NULL /\ list_frame_pool # << >>
        /\ from_host_buf' = Head(list_frame_pool)
        /\ list_frame_pool' = Tail(list_frame_pool)
        /\ Goto("arm")
        /\ UNCHANGED <<list_to_host, list_from_host>>
  /\ UNCHANGED <<to_host_buf, frame, frame_object, can_err, eps, dev, can, err,
                 ghost>>

(* USBD_GS_CAN_PrepareReceive: arm the endpoint with from_host_buf.        *)
PrepareReceive(buf) == out_ep' = [armed |-> TRUE, buf |-> buf]

Arm ==
  /\ At("arm")
  /\ PrepareReceive(from_host_buf)
  /\ Goto("pick")
  /\ UNCHANGED <<lists, bufs, frame, frame_object, can_err, in_busy, dev, can,
                 err, ghost>>

(* Take the oldest frame for the host unless one is still being sent.      *)
Pick ==
  /\ At("pick")
  /\ \/ /\ to_host_buf # NULL \/ list_to_host = << >>
        /\ Goto("rxPoll")
        /\ UNCHANGED <<lists, to_host_buf>>
     \/ /\ to_host_buf = NULL /\ list_to_host # << >>
        /\ to_host_buf' = Head(list_to_host)
        /\ list_to_host' = Tail(list_to_host)
        /\ Goto("check")
        /\ UNCHANGED <<list_frame_pool, list_from_host>>
  /\ UNCHANGED <<from_host_buf, frame, frame_object, can_err, eps, dev, can,
                 err, ghost>>

(* USBD_GS_CAN_Transmit reads the suspend flag before the transfer.        *)
Check ==
  /\ At("check")
  /\ Goto(IF is_usb_suspend_cb THEN "drop" ELSE "transmit")
  /\ UNCHANGED <<lists, bufs, frame, frame_object, can_err, eps, dev, can, err,
                 ghost>>

Transmit ==
  /\ At("transmit")
  /\ in_busy' = TRUE
  /\ Goto("rxPoll")
  /\ UNCHANGED <<lists, bufs, frame, frame_object, can_err, out_ep, dev, can,
                 err, ghost>>

(* USBD_BUSY: the object goes back to the front of the pool, its frame is  *)
(* gone.                                                                   *)
Drop ==
  /\ At("drop")
  /\ list_frame_pool' = AddHead(list_frame_pool, to_host_buf)
  /\ to_host_buf' = NULL
  /\ Goto("rxPoll")
  /\ UNCHANGED <<list_to_host, list_from_host, from_host_buf, frame,
                 frame_object, can_err, eps, dev, can, err, ghost>>

-----------------------------------------------------------------------------
(* CAN_ReceiveFrame                                                        *)

RxPoll ==
  /\ At("rxPoll")
  /\ Goto(IF rx_fifo[i] = << >> THEN "errPoll" ELSE "rxTake")
  /\ UNCHANGED <<lists, bufs, frame, frame_object, can_err, eps, dev, can, err,
                 ghost>>

(* Fault: the object is taken without list_del.                            *)
TakeFromPoolLinked ==
  /\ list_frame_pool # << >>
  /\ frame_object' = Head(list_frame_pool)
  /\ UNCHANGED lists

(* Take the first object of the pool into frame_object, or find it empty.  *)
TakeFromPool ==
  /\ list_frame_pool # << >>
  /\ frame_object' = Head(list_frame_pool)
  /\ list_frame_pool' = Tail(list_frame_pool)
  /\ UNCHANGED <<list_to_host, list_from_host>>
PoolEmpty == list_frame_pool = << >> /\ UNCHANGED <<lists, frame_object>>

RxTake ==
  /\ At("rxTake")
  /\ \/ TakeFromPool /\ Goto("rxRead")
     \/ PoolEmpty /\ Goto("errPoll")
  /\ UNCHANGED <<bufs, frame, can_err, eps, dev, can, err, ghost>>

(* can_receive: fails when a callback stopped the channel since the poll.  *)
RxRead ==
  /\ At("rxRead")
  /\ \/ /\ enabled[i] /\ rx_fifo[i] # << >>
        /\ frame' = [frame EXCEPT ![frame_object] =
                       [kind |-> "bus", channel |-> i, nr |-> Head(rx_fifo[i])]]
        /\ rx_fifo' = [rx_fifo EXCEPT ![i] = Tail(@)]
        /\ Goto("rxQueue")
     \/ /\ ~(enabled[i] /\ rx_fifo[i] # << >>)
        /\ Goto("rxReturn")
        /\ UNCHANGED <<frame, rx_fifo>>
  /\ UNCHANGED <<lists, bufs, frame_object, can_err, eps, dev, enabled, tx_fifo,
                 err, ghost>>

RxQueue ==
  /\ At("rxQueue")
  /\ list_to_host' = AddTail(list_to_host, frame_object)
  /\ frame_object' = NULL
  /\ Goto("errPoll")
  /\ UNCHANGED <<list_frame_pool, list_from_host, bufs, frame, can_err, eps,
                 dev, can, err, ghost>>

(* Fault: the object is forgotten when can_receive fails.                  *)
RxReturnNot ==
  /\ At("rxReturn")
  /\ frame_object' = NULL
  /\ Goto("errPoll")
  /\ UNCHANGED <<lists, bufs, frame, can_err, eps, dev, can, err, ghost>>

RxReturn ==
  /\ At("rxReturn")
  /\ list_frame_pool' = AddTail(list_frame_pool, frame_object)
  /\ frame_object' = NULL
  /\ Goto("errPoll")
  /\ UNCHANGED <<list_to_host, list_from_host, bufs, frame, can_err, eps, dev,
                 can, err, ghost>>

-----------------------------------------------------------------------------
(* CAN_HandleError                                                         *)

(* Unless frames wait to be received, read the status register; reading it *)
(* clears the last error code.                                             *)
ErrPoll ==
  /\ At("errPoll")
  /\ \/ /\ rx_fifo[i] # << >>
        /\ NextChannel("rxPoll", "dfu")
        /\ UNCHANGED <<can_err, psr>>
     \/ /\ rx_fifo[i] = << >>
        /\ can_err' = psr[i]
        /\ psr' = [psr EXCEPT ![i].lec = FALSE]
        /\ Goto("errTake")
  /\ UNCHANGED <<lists, bufs, frame, frame_object, eps, dev, can, reg_esr_old,
                 ghost>>

(* Fault: the status counts as reported although there is no object.       *)
ErrTakeForgets ==
  /\ At("errTake")
  /\ \/ TakeFromPool /\ Goto("errQueue") /\ UNCHANGED reg_esr_old
     \/ /\ PoolEmpty /\ NextChannel("rxPoll", "dfu")
        /\ reg_esr_old' = [reg_esr_old EXCEPT ![i] = can_err]
  /\ UNCHANGED <<bufs, frame, can_err, eps, dev, can, psr, ghost>>

ErrTake ==
  /\ At("errTake")
  /\ \/ TakeFromPool /\ Goto("errQueue")
     \/ PoolEmpty /\ NextChannel("rxPoll", "dfu")
  /\ UNCHANGED <<bufs, frame, can_err, eps, dev, can, err, ghost>>

(* can_parse_error_status: an error frame is due when a protocol error was *)
(* latched or the error state changed.  The three error states that the    *)
(* register tells apart are one bit here.                                  *)
ShouldSend(now, last) == now.lec \/ now.passive # last.passive

ErrQueue ==
  /\ At("errQueue")
  /\ frame' = [frame EXCEPT ![frame_object] =
                 [kind |-> "err", channel |-> i, nr |-> 0]]
  /\ reg_esr_old' = [reg_esr_old EXCEPT ![i] = can_err]
  /\ \/ /\ ShouldSend(can_err, reg_esr_old[i])
        /\ list_to_host' = AddTail(list_to_host, frame_object)
        /\ UNCHANGED list_frame_pool
     \/ /\ ~ShouldSend(can_err, reg_esr_old[i])
        /\ list_frame_pool' = AddTail(list_frame_pool, frame_object)
        /\ UNCHANGED list_to_host
  /\ frame_object' = NULL
  /\ NextChannel("rxPoll", "dfu")
  /\ UNCHANGED <<list_from_host, bufs, can_err, eps, dev, can, psr, ghost>>

(* End of the loop body: restart into the boot loader when asked to.       *)
DfuPoll ==
  /\ At("dfu")
  /\ Goto(IF dfu_detach_requested THEN "bootloader" ELSE "send")
  /\ UNCHANGED <<lists, bufs, frame, frame_object, can_err, eps, dev, can, err,
                 ghost>>

MainLoop ==
  \/ SendTake \/ CanSend \/ SendRequeue \/ SendEcho
  \/ Refill \/ Arm
  \/ Pick \/ Check \/ Transmit \/ Drop
  \/ RxPoll \/ RxTake \/ RxRead \/ RxQueue \/ RxReturn
  \/ ErrPoll \/ ErrTake \/ ErrQueue
  \/ DfuPoll

-----------------------------------------------------------------------------
(* USB callbacks                                                           *)

Running  == pc # "bootloader" /\ usb # "fault"
UsbReady == Running /\ usb = "configured" /\ ~is_usb_suspend_cb

(* Fault: the transferred object goes back into the queue.                 *)
DataInAgain ==
  /\ UsbReady /\ in_busy
  /\ in_busy' = FALSE
  /\ list_to_host' = AddHead(list_to_host, to_host_buf)
  /\ to_host_buf' = NULL
  /\ LET f == frame[to_host_buf]
     IN  /\ echoed' = IF f.kind = "host"
                      THEN [echoed EXCEPT ![f.channel] = Append(@, f.nr)]
                      ELSE echoed
         /\ delivered' = IF f.kind = "bus"
                         THEN [delivered EXCEPT ![f.channel] = f.nr]
                         ELSE delivered
  /\ UNCHANGED <<list_frame_pool, list_from_host, from_host_buf, frame, main,
                 out_ep, dev, can, err, submitted, sent, arrived>>

(* USBD_GS_CAN_DataIn: the host has read the IN packet.  What it has seen  *)
(* of each channel is recorded in the ghost counters.                      *)
DataIn ==
  /\ UsbReady /\ in_busy
  /\ in_busy' = FALSE
  /\ list_frame_pool' = AddTail(list_frame_pool, to_host_buf)
  /\ to_host_buf' = NULL
  /\ LET f == frame[to_host_buf]
     IN  /\ echoed' = IF f.kind = "host"
                      THEN [echoed EXCEPT ![f.channel] = Append(@, f.nr)]
                      ELSE echoed
         /\ delivered' = IF f.kind = "bus"
                         THEN [delivered EXCEPT ![f.channel] = f.nr]
                         ELSE delivered
  /\ UNCHANGED <<list_to_host, list_from_host, from_host_buf, frame, main,
                 out_ep, dev, can, err, submitted, sent, arrived>>

(* Fault: the endpoint is armed before from_host_buf is replaced.          *)
DataOutEarly(c) ==
  /\ UsbReady /\ out_ep.armed /\ out_ep.buf # NULL
  /\ submitted[c] < MaxSubmit
  /\ submitted' = [submitted EXCEPT ![c] = @ + 1]
  /\ frame' = [frame EXCEPT ![out_ep.buf] =
                 [kind |-> "host", channel |-> c, nr |-> submitted[c] + 1]]
  /\ list_from_host' = [list_from_host EXCEPT ![c] = AddTail(@, from_host_buf)]
  /\ list_frame_pool # << >>
  /\ from_host_buf' = Head(list_frame_pool)
  /\ list_frame_pool' = Tail(list_frame_pool)
  /\ PrepareReceive(from_host_buf)
  /\ UNCHANGED <<list_to_host, to_host_buf, main, in_busy, dev, can, err, sent,
                 echoed, arrived, delivered>>

(* USBD_GS_CAN_DataOut, for a well-formed packet for channel c: queue it   *)
(* for the channel and arm the endpoint with the next free object.         *)
DataOut(c) ==
  /\ UsbReady /\ out_ep.armed /\ out_ep.buf # NULL
  /\ submitted[c] < MaxSubmit
  /\ submitted' = [submitted EXCEPT ![c] = @ + 1]
  /\ frame' = [frame EXCEPT ![out_ep.buf] =
                 [kind |-> "host", channel |-> c, nr |-> submitted[c] + 1]]
  /\ list_from_host' = [list_from_host EXCEPT ![c] = AddTail(@, from_host_buf)]
  /\ \/ /\ list_frame_pool # << >>
        /\ from_host_buf' = Head(list_frame_pool)
        /\ list_frame_pool' = Tail(list_frame_pool)
        /\ PrepareReceive(Head(list_frame_pool))
     \/ /\ list_frame_pool = << >>
        /\ from_host_buf' = NULL
        /\ out_ep' = [out_ep EXCEPT !.armed = FALSE]
        /\ UNCHANGED list_frame_pool
  /\ UNCHANGED <<list_to_host, to_host_buf, main, in_busy, dev, can, err, sent,
                 echoed, arrived, delivered>>

(* The same for a packet that is too short or names no channel: receive    *)
(* the next one into the same buffer.                                      *)
DataOutBad ==
  /\ "bad_packet" \in Events
  /\ UsbReady /\ out_ep.armed /\ out_ep.buf # NULL
  /\ frame' = [frame EXCEPT ![out_ep.buf] = Blank]
  /\ PrepareReceive(from_host_buf)
  /\ UNCHANGED <<lists, bufs, main, in_busy, dev, can, err, ghost>>

(* A packet for an endpoint armed with the NULL buffer: its bytes are      *)
(* written over the vector table in flash, a hard fault; an empty packet   *)
(* is rejected like any other short one.                                   *)
DataOutNull ==
  /\ UsbReady /\ out_ep.armed /\ out_ep.buf = NULL
  /\ \/ usb' = "fault" /\ UNCHANGED out_ep
     \/ PrepareReceive(from_host_buf) /\ UNCHANGED usb
  /\ UNCHANGED <<lists, bufs, frame, main, in_busy, is_usb_suspend_cb,
                 dfu_detach_requested, can, err, ghost>>

(* can_disable and can_enable.  Stopping the peripheral empties its FIFOs. *)
CanDisable(cs) ==
  /\ enabled' = [c \in Channels |-> IF c \in cs THEN FALSE ELSE enabled[c]]
  /\ tx_fifo' = [c \in Channels |-> IF c \in cs THEN 0 ELSE tx_fifo[c]]
  /\ rx_fifo' = [c \in Channels |-> IF c \in cs THEN << >> ELSE rx_fifo[c]]

(* USBD_GS_CAN_EP0_RxReady, GS_USB_BREQ_MODE with GS_CAN_MODE_START.       *)
ModeStart(c) ==
  /\ UsbReady
  /\ ~enabled[c] \/ "restart" \in Events
  /\ enabled' = [enabled EXCEPT ![c] = TRUE]
  /\ tx_fifo' = [tx_fifo EXCEPT ![c] = 0]
  /\ rx_fifo' = [rx_fifo EXCEPT ![c] = << >>]
  /\ UNCHANGED <<lists, bufs, frame, main, eps, dev, err, ghost>>

(* The same with GS_CAN_MODE_RESET.                                        *)
ModeReset(c) ==
  /\ "restart" \in Events
  /\ UsbReady
  /\ CanDisable({c})
  /\ UNCHANGED <<lists, bufs, frame, main, eps, dev, err, ghost>>

(* USBD_GS_CAN_SuspendCallback and USBD_GS_CAN_ResumeCallback.             *)
Suspend ==
  /\ "suspend" \in Events
  /\ Running /\ ~is_usb_suspend_cb
  /\ CanDisable(Channels)
  /\ is_usb_suspend_cb' = TRUE
  /\ UNCHANGED <<lists, bufs, frame, main, eps, usb, dfu_detach_requested, err,
                 ghost>>

Resume ==
  /\ Running /\ is_usb_suspend_cb
  /\ is_usb_suspend_cb' = FALSE
  /\ UNCHANGED <<lists, bufs, frame, main, eps, usb, dfu_detach_requested, can,
                 err, ghost>>

(* HAL_PCD_ResetCallback: a bus reset by the host closes both endpoints    *)
(* (USBD_GS_CAN_DeInit).  The first one follows the attach debounce of at  *)
(* least 100 ms, in which the main loop has turned; reset signalling also  *)
(* ends a suspend.                                                         *)
BusReset ==
  /\ Running
  /\ IF usb = "attached" THEN from_host_buf # NULL ELSE "reset" \in Events
  /\ usb' = "default"
  /\ is_usb_suspend_cb' = FALSE
  /\ out_ep' = [out_ep EXCEPT !.armed = FALSE]
  /\ in_busy' = FALSE
  /\ UNCHANGED <<lists, bufs, frame, main, dfu_detach_requested, can, err,
                 ghost>>

(* SET_CONFIGURATION: USBD_GS_CAN_Start opens both endpoints and arms the  *)
(* OUT endpoint with from_host_buf, whatever that is.  Reset signalling    *)
(* lasts 10 ms, so the main loop is not still about to arm it itself.      *)
SetConfiguration ==
  /\ Running /\ usb = "default" /\ ~is_usb_suspend_cb /\ pc # "arm"
  /\ usb' = "configured"
  /\ in_busy' = FALSE
  /\ PrepareReceive(from_host_buf)
  /\ UNCHANGED <<lists, bufs, frame, main, is_usb_suspend_cb,
                 dfu_detach_requested, can, err, ghost>>

(* USBD_GS_CAN_DFU_Request, DETACH.                                        *)
DfuDetach ==
  /\ "dfu" \in Events
  /\ UsbReady
  /\ dfu_detach_requested' = TRUE
  /\ UNCHANGED <<lists, bufs, frame, main, eps, usb, is_usb_suspend_cb, can,
                 err, ghost>>

UsbInterrupt ==
  \/ DataIn \/ (\E c \in Channels : DataOut(c)) \/ DataOutBad \/ DataOutNull
  \/ (\E c \in Channels : ModeStart(c)) \/ (\E c \in Channels : ModeReset(c))
  \/ Suspend \/ Resume \/ BusReset \/ SetConfiguration \/ DfuDetach

-----------------------------------------------------------------------------
(* The CAN peripheral and its bus                                          *)

BusTxDone(c) ==
  /\ Running /\ enabled[c] /\ tx_fifo[c] > 0
  /\ tx_fifo' = [tx_fifo EXCEPT ![c] = @ - 1]
  /\ UNCHANGED <<lists, bufs, frame, main, eps, dev, enabled, rx_fifo, err,
                 ghost>>

BusArrive(c) ==
  /\ Running /\ enabled[c] /\ Len(rx_fifo[c]) < FifoDepth
  /\ arrived[c] < MaxArrive
  /\ arrived' = [arrived EXCEPT ![c] = @ + 1]
  /\ rx_fifo' = [rx_fifo EXCEPT ![c] = Append(@, arrived[c] + 1)]
  /\ UNCHANGED <<lists, bufs, frame, main, eps, dev, enabled, tx_fifo, err,
                 submitted, sent, echoed, delivered>>

BusError(c) ==
  /\ "error" \in Events
  /\ Running /\ enabled[c]
  /\ psr' \in {[psr EXCEPT ![c].lec = TRUE],
               [psr EXCEPT ![c].passive = ~@]}
  /\ UNCHANGED <<lists, bufs, frame, main, eps, dev, can, reg_esr_old, ghost>>

Bus == \E c \in Channels : BusTxDone(c) \/ BusArrive(c) \/ BusError(c)

(* The firmware has left the loop for good.                                *)
Stopped == ~Running /\ UNCHANGED vars

Next == MainLoop \/ UsbInterrupt \/ Bus \/ Stopped

Spec == Init /\ [][Next]_vars

(* The main loop keeps turning, the host keeps reading the IN endpoint and *)
(* an enabled channel with an undisturbed bus gets its frames out.         *)
Fairness ==
  /\ WF_vars(MainLoop)
  /\ WF_vars(DataIn)
  /\ \A c \in Channels : WF_vars(BusTxDone(c))

FairSpec == Spec /\ Fairness

-----------------------------------------------------------------------------
(* Properties                                                              *)

Status   == [lec : BOOLEAN, passive : BOOLEAN]
Endpoint == [armed : BOOLEAN, buf : Objects \cup {NULL}]

TypeLists ==
  /\ list_frame_pool \in Seq(Objects)
  /\ list_to_host \in Seq(Objects)
  /\ list_from_host \in [Channels -> Seq(Objects)]
  /\ from_host_buf \in Objects \cup {NULL}
  /\ to_host_buf \in Objects \cup {NULL}
  /\ frame_object \in Objects \cup {NULL}
TypeRest ==
  /\ frame \in [Objects -> Contents]
  /\ pc \in Labels /\ i \in Channels
  /\ can_err \in Status
  /\ out_ep \in Endpoint
  /\ in_busy \in BOOLEAN
  /\ usb \in {"attached", "default", "configured", "fault"}
  /\ is_usb_suspend_cb \in BOOLEAN
  /\ dfu_detach_requested \in BOOLEAN
TypeCan ==
  /\ enabled \in [Channels -> BOOLEAN]
  /\ tx_fifo \in [Channels -> Nat]
  /\ rx_fifo \in [Channels -> Seq(Nat)]
  /\ psr \in [Channels -> Status]
  /\ reg_esr_old \in [Channels -> Status]
  /\ submitted \in [Channels -> Nat]
  /\ sent \in [Channels -> Nat]
  /\ echoed \in [Channels -> Seq(Nat)]
  /\ arrived \in [Channels -> Nat]
  /\ delivered \in [Channels -> Nat]

(* Every variable has the type its declaration in the code gives it, with  *)
(* pointers either NULL or into msgbuf.                                    *)
TypeOK == TypeLists /\ TypeRest /\ TypeCan

(* Where the main loop has an object in hand, taken off every list.        *)
Holding == {"load", "requeue", "echo", "rxRead", "rxQueue", "rxReturn",
            "errQueue"}

Elems(list) == {list[k] : k \in DOMAIN list}
NoDup(list) == \A j, k \in DOMAIN list : list[j] = list[k] => j = k

Lent == {from_host_buf, to_host_buf, frame_object} \ {NULL}

(* No list holds an object twice and no two owners hold the same object:   *)
(* linking an object into a second list would corrupt both.                *)
OneOwner ==
  /\ NoDup(list_frame_pool) /\ NoDup(list_to_host)
  /\ Elems(list_frame_pool) \cap Elems(list_to_host) = {}
  /\ Lent \cap (Elems(list_frame_pool) \cup Elems(list_to_host)) = {}
  /\ \A c \in Channels :
       /\ NoDup(list_from_host[c])
       /\ Elems(list_from_host[c]) \cap
            (Elems(list_frame_pool) \cup Elems(list_to_host) \cup Lent) = {}
       /\ \A d \in Channels \ {c} :
            Elems(list_from_host[c]) \cap Elems(list_from_host[d]) = {}
  /\ from_host_buf # NULL => from_host_buf \notin {to_host_buf, frame_object}
  /\ to_host_buf # NULL => to_host_buf # frame_object

(* No object is ever lost: whatever the interleaving of callbacks and main *)
(* loop, each of them is in some list, lent to an endpoint or in hand.     *)
NoLeak ==
  \A o \in Objects :
    \/ o \in Elems(list_frame_pool) \cup Elems(list_to_host) \cup Lent
    \/ \E c \in Channels : o \in Elems(list_from_host[c])

(* The USB peripheral only ever works on the object lent to it: a started  *)
(* IN transfer has its object and nobody is about to hand in another, and  *)
(* an armed OUT endpoint does not write into an object in some list.       *)
EndpointBuffers ==
  /\ in_busy => /\ to_host_buf # NULL
                /\ pc \notin {"check", "transmit", "drop"}
  /\ out_ep.armed /\ out_ep.buf # NULL => out_ep.buf = from_host_buf

(* Host frames waiting for channel c, oldest first, with the one the main  *)
(* loop has taken off the list and not yet loaded.                         *)
Waiting(c) ==
  (IF pc \in {"load", "requeue"} /\ i = c THEN <<frame_object>> ELSE << >>)
    \o list_from_host[c]

(* The host's frames for a channel reach it complete, once and in order,   *)
(* although a refused frame is put back while callbacks append.            *)
HostFramesInOrder ==
  \A c \in Channels :
    /\ Len(Waiting(c)) = submitted[c] - sent[c]
    /\ \A k \in DOMAIN Waiting(c) :
         frame[Waiting(c)[k]] = [kind |-> "host", channel |-> c, nr |-> sent[c] + k]

(* Local invariant of the main loop: an object is in hand exactly where    *)
(* the code has taken one, and to_host_buf is set while it is handed over. *)
InHand ==
  /\ frame_object # NULL <=> pc \in Holding
  /\ pc \in {"check", "transmit", "drop"} => to_host_buf # NULL

(* What is on its way to the host, oldest first.                           *)
ToHost ==
  (IF to_host_buf # NULL THEN <<to_host_buf>> ELSE << >>) \o list_to_host \o
  (IF pc \in {"echo", "rxQueue"} THEN <<frame_object>> ELSE << >>)

(* Echoes and received frames of one channel go to the host in the order   *)
(* in which they were sent and received, each newer than what the host has *)
(* already seen and none before it happened.                               *)
ToHostInOrder ==
  \A j, k \in DOMAIN ToHost :
    LET f == frame[ToHost[j]]
        g == frame[ToHost[k]]
    IN  /\ f.kind # "none"
        /\ f.kind = "host" => /\ f.nr <= sent[f.channel]
                              /\ \A n \in DOMAIN echoed[f.channel] :
                                   echoed[f.channel][n] < f.nr
        /\ f.kind = "bus" => f.nr \in delivered[f.channel] + 1 .. arrived[f.channel]
        /\ j < k /\ f.kind = g.kind /\ f.kind # "err" /\ f.channel = g.channel
             => f.nr < g.nr

(* What the host can rely on, see EchoProtocol; echoes may only be lost    *)
(* when the host suspends the bus.                                         *)
Echo == INSTANCE EchoProtocol WITH Lossy <- "suspend" \in Events
EchoSpec == Echo!Spec

(* usbd_gs_can.c, DataOut: "wait to call PrepareReceive until we have a    *)
(* frame to receive into".                                                 *)
ArmedWithFrame == out_ep.armed => out_ep.buf # NULL

(* Every frame accepted from the host is echoed if its channel stays on.   *)
EchoLive ==
  \A c \in Channels : <>[]enabled[c] =>
    \A n \in 1 .. MaxSubmit : submitted[c] >= n ~> n \in Elems(echoed[c])

(* A host held off because the pool ran dry can go on sending, if the      *)
(* channels stay on and the bus does not bring frames or errors for ever.  *)
OutRearmed ==
  (<>[](\A c \in Channels : enabled[c] /\ psr[c] = NoError)) =>
    (usb = "configured" /\ ~out_ep.armed ~> out_ep.armed)

(* A change of the error state is not lost with a report for which the     *)
(* pool has no object: it is reported later on, unless it is undone.       *)
StateReported ==
  \A c \in Channels, b \in BOOLEAN :
    psr[c].passive = b /\ reg_esr_old[c].passive # b ~>
      \/ psr[c].passive # b
      \/ \E k \in DOMAIN list_to_host :
           frame[list_to_host[k]].kind = "err" /\ frame[list_to_host[k]].channel = c

=============================================================================
