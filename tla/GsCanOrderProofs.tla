-------------------------- MODULE GsCanOrderProofs --------------------------
(***************************************************************************)
(* Proofs about GsCan: the order of the frames, from the host to the bus   *)
(* and from the bus and back to the host, and that the frame path          *)
(* implements the echo protocol.                                           *)
(***************************************************************************)
EXTENDS GsCanProofs, SequenceTheorems

-----------------------------------------------------------------------------
(* The order of the frames.  HostFramesInOrder and ToHostInOrder speak of  *)
(* sequences put together from a list and what is in hand next to it.      *)

HostFrame(c, n) == [kind |-> "host", channel |-> c, nr |-> n]

(* Is the frame in hand the next one to be loaded on channel c?            *)
Ahead(c) == IF pc \in {"load", "requeue"} /\ i = c THEN 1 ELSE 0

(* HostFramesInOrder for channel c, the list and the frame in hand apart.  *)
FromHost(c) ==
  /\ Len(list_from_host[c]) + Ahead(c) = submitted[c] - sent[c]
  /\ Ahead(c) = 1 => frame[frame_object] = HostFrame(c, sent[c] + 1)
  /\ \A k \in 1 .. Len(list_from_host[c]) :
       frame[list_from_host[c][k]] = HostFrame(c, sent[c] + Ahead(c) + k)

-----------------------------------------------------------------------------
(* Where the main loop has a frame in hand that is on its way.             *)
Moving == {"load", "requeue", "echo", "rxQueue"}

(* A step that leaves the traffic alone: it may empty the Rx FIFO of a     *)
(* channel, suspend the bus, and take an object in hand or put it back.    *)
Elsewhere ==
  /\ UNCHANGED <<frame, list_to_host, list_from_host, to_host_buf, ghost>>
  /\ \/ UNCHANGED <<pc, i, frame_object>>
     \/ pc \notin Moving /\ pc' \notin Moving
  /\ \A c \in Channels : rx_fifo'[c] \in {rx_fifo[c], << >>}

(* The steps that move a frame.                                            *)
Carry ==
  \/ SendTake \/ CanSend \/ SendRequeue \/ SendEcho
  \/ Pick \/ Drop \/ RxRead \/ RxQueue \/ ErrQueue
  \/ DataIn \/ (\E c \in Channels : DataOut(c)) \/ DataOutBad
  \/ \E c \in Channels : BusArrive(c)

(* All other steps leave the traffic alone.                                *)
LEMMA CarryOrElsewhere ==
  ASSUME IInv, [Next]_vars
  PROVE  Carry \/ Elsewhere
  <1> SUFFICES ASSUME ~Carry PROVE Elsewhere
    OBVIOUS
  <1> USE DEF Elsewhere, Moving, lists, bufs, main, can, ghost, At, Goto
  <1>1. rx_fifo \in [Channels -> Seq(Nat)]
    BY DEF IInv, TypeCan
  <1>2. CASE Refill
    BY <1>2 DEF Refill
  <1>3. CASE Arm
    BY <1>3 DEF Arm
  <1>4. CASE Check
    BY <1>4 DEF Check
  <1>5. CASE Transmit
    BY <1>5 DEF Transmit
  <1>6. CASE RxPoll
    BY <1>6 DEF RxPoll
  <1>7. CASE RxTake
    BY <1>7 DEF RxTake, TakeFromPool, PoolEmpty
  <1>8. CASE RxReturn
    BY <1>8 DEF RxReturn
  <1>9. CASE ErrPoll
    BY <1>9 DEF ErrPoll, NextChannel
  <1>10. CASE ErrTake
    BY <1>10 DEF ErrTake, TakeFromPool, PoolEmpty, NextChannel
  <1>11. CASE DfuPoll
    BY <1>11 DEF DfuPoll
  <1>12. CASE DataOutNull
    BY <1>12 DEF DataOutNull
  <1>13. ASSUME NEW c \in Channels, ModeStart(c) PROVE Elsewhere
    BY <1>1, <1>13 DEF ModeStart
  <1>14. ASSUME NEW c \in Channels, ModeReset(c) PROVE Elsewhere
    BY <1>1, <1>14 DEF ModeReset, CanDisable
  <1>15. CASE Suspend
    BY <1>1, <1>15 DEF Suspend, CanDisable
  <1>16. CASE Resume
    BY <1>16 DEF Resume
  <1>17. CASE BusReset
    BY <1>17 DEF BusReset
  <1>18. CASE SetConfiguration
    BY <1>18 DEF SetConfiguration
  <1>19. CASE DfuDetach
    BY <1>19 DEF DfuDetach
  <1>20. ASSUME NEW c \in Channels, BusTxDone(c) PROVE Elsewhere
    BY <1>20 DEF BusTxDone
  <1>21. ASSUME NEW c \in Channels, BusError(c) PROVE Elsewhere
    BY <1>21 DEF BusError
  <1>22. CASE UNCHANGED vars
    BY <1>22 DEF vars
  <1> HIDE DEF Elsewhere
  <1> QED BY <1>2, <1>3, <1>4, <1>5, <1>6, <1>7, <1>8, <1>9, <1>10, <1>11,
            <1>12, <1>13, <1>14, <1>15, <1>16, <1>17, <1>18, <1>19, <1>20,
            <1>21, <1>22
    DEF Carry, Next, MainLoop, UsbInterrupt, Bus, Stopped

-----------------------------------------------------------------------------
(* From the host to the bus.                                               *)

(* The invariant says what HostFramesInOrder says.                         *)
LEMMA FromHostOrder ==
  ASSUME IInv, \A c \in Channels : FromHost(c)
  PROVE  HostFramesInOrder
  <1> SUFFICES ASSUME NEW c \in Channels
               PROVE  /\ Len(Waiting(c)) = submitted[c] - sent[c]
                      /\ \A k \in DOMAIN Waiting(c) :
                           frame[Waiting(c)[k]] =
                             [kind |-> "host", channel |-> c, nr |-> sent[c] + k]
    BY DEF HostFramesInOrder
  <1> DEFINE q == list_from_host[c]
  <1>1. q \in Seq(Objects) /\ sent[c] \in Nat
    BY DEF IInv, Own, TypeLists, TypeCan
  <1>2. FromHost(c)
    OBVIOUS
  <1>3. CASE Ahead(c) = 1
    <2>0. pc \in {"load", "requeue"} /\ i = c
      BY <1>3 DEF Ahead
    <2>1. Waiting(c) = <<frame_object>> \o q /\ pc \in Holding
      BY <2>0 DEF Waiting, Holding
    <2>2. frame_object \in Objects
      BY <2>1 DEF IInv, InHand, Own, TypeLists, NULL
    <2> DEFINE w == AddHead(q, frame_object)
    <2>3. /\ w \in Seq(Objects) /\ Len(w) = Len(q) + 1 /\ DOMAIN w = 1 .. Len(q) + 1
          /\ \A k \in 1 .. Len(q) + 1 : w[k] = IF k = 1 THEN frame_object ELSE q[k - 1]
      BY <1>1, <2>2 DEF AddHead
    <2>4. Waiting(c) = w
      BY <2>1 DEF AddHead
    <2> HIDE DEF w
    <2>5. \A k \in 1 .. Len(q) : frame[q[k]] = HostFrame(c, sent[c] + 1 + k)
      BY <1>2, <1>3 DEF FromHost
    <2>6. ASSUME NEW k \in 1 .. Len(q) + 1 PROVE frame[w[k]] = HostFrame(c, sent[c] + k)
      <3>1. CASE k = 1
        BY <1>2, <1>3, <2>3, <3>1 DEF FromHost
      <3>2. CASE k # 1
        <4>1. k - 1 \in 1 .. Len(q) /\ sent[c] + 1 + (k - 1) = sent[c] + k
          BY <1>1, <3>2
        <4> QED BY <2>3, <2>5, <3>2, <4>1
      <3> QED BY <3>1, <3>2
    <2> QED BY <1>2, <1>3, <2>3, <2>4, <2>6 DEF FromHost, HostFrame
  <1>4. CASE Ahead(c) # 1
    <2>1. Waiting(c) = << >> \o q /\ Ahead(c) = 0
      BY <1>4 DEF Ahead, Waiting
    <2>2. Waiting(c) = q
      BY <1>1, <2>1, ConcatEmptySeq
    <2>3. DOMAIN q = 1 .. Len(q) /\ Len(q) \in Nat
      BY <1>1
    <2>4. \A k \in 1 .. Len(q) : frame[q[k]] = HostFrame(c, sent[c] + 0 + k)
      BY <1>2, <2>1 DEF FromHost
    <2> QED BY <1>1, <1>2, <2>1, <2>2, <2>3, <2>4 DEF FromHost, HostFrame
  <1> QED BY <1>3, <1>4

(* What writes neither the frames of a channel nor its list keeps it.      *)
LEMMA FromHostStays ==
  ASSUME NEW c \in Channels, IInv, FromHost(c),
         submitted'[c] = submitted[c], sent'[c] = sent[c],
         list_from_host'[c] = list_from_host[c],
         Ahead(c)' = Ahead(c),
         Ahead(c) = 1 => frame'[frame_object'] = frame[frame_object],
         \A o \in Elems(list_from_host[c]) : frame'[o] = frame[o]
  PROVE  FromHost(c)'
  <1>1. \A k \in 1 .. Len(list_from_host[c]) :
          list_from_host[c][k] \in Elems(list_from_host[c])
    BY DEF IInv, Own, TypeLists, Elems
  <1> QED BY <1>1 DEF FromHost

(* Every step keeps what waits for a channel complete and in order.        *)
LEMMA FromHostStep ==
  ASSUME IInv, [Next]_vars, \A c \in Channels : FromHost(c)
  PROVE  \A c \in Channels : FromHost(c)'
  <1> SUFFICES ASSUME NEW c \in Channels PROVE FromHost(c)'
    OBVIOUS
  <1> DEFINE q == list_from_host[c]
  <1>0. /\ FromHost(c) /\ i \in Channels
        /\ q \in Seq(Objects) /\ list_from_host \in [Channels -> Seq(Objects)]
        /\ frame \in [Objects -> Contents]
        /\ sent \in [Channels -> Nat] /\ submitted \in [Channels -> Nat]
    BY DEF IInv, Own, TypeLists, TypeRest, TypeCan
  <1>q. DOMAIN q = 1 .. Len(q) /\ Len(q) \in Nat
    BY <1>0
  <1>n. Len(q) \in Nat /\ sent[c] \in Nat /\ submitted[c] \in Nat
    BY <1>0
  <1>1. CASE SendTake
    <2>1. CASE list_from_host[i] = << >>
      <3>1. /\ Ahead(c) = 0 /\ Ahead(c)' = 0
            /\ UNCHANGED <<submitted, sent, list_from_host, frame>>
        BY <1>1, <2>1 DEF SendTake, Ahead, At, NextChannel, lists, ghost
      <3> QED BY <1>0, <3>1, FromHostStays
    <2>2. CASE list_from_host[i] # << >> /\ c # i
      <3>1. /\ Ahead(c) = 0 /\ Ahead(c)' = 0 /\ list_from_host'[c] = list_from_host[c]
            /\ UNCHANGED <<submitted, sent, frame>>
        BY <1>0, <1>1, <2>2 DEF SendTake, Ahead, At, Goto, ghost
      <3> QED BY <1>0, <3>1, FromHostStays
    <2>3. CASE list_from_host[i] # << >> /\ c = i
      <3>1. /\ Ahead(c) = 0 /\ Ahead(c)' = 1
            /\ list_from_host'[c] = Tail(q) /\ frame_object' = Head(q)
            /\ UNCHANGED <<submitted, sent, frame>>
        BY <1>0, <1>1, <2>3 DEF SendTake, Ahead, At, Goto, ghost
      <3>2. /\ Len(q) \in Nat \ {0} /\ Len(Tail(q)) = Len(q) - 1 /\ Head(q) = q[1]
            /\ \A k \in 1 .. Len(q) - 1 : Tail(q)[k] = q[k + 1]
        BY <1>0, <2>3
      <3>3. \A k \in 1 .. Len(q) : frame[q[k]] = HostFrame(c, sent[c] + 0 + k)
        BY <1>0, <3>1 DEF FromHost
      <3>4. \A k \in 1 .. Len(q) - 1 : /\ k + 1 \in 1 .. Len(q)
                                       /\ sent[c] + 0 + (k + 1) = sent[c] + 1 + k
        BY <1>n, <3>2
      <3>5. frame[Head(q)] = HostFrame(c, sent[c] + 1)
        <4>1. 1 \in 1 .. Len(q) /\ sent[c] + 0 + 1 = sent[c] + 1
          BY <1>0, <3>2
        <4> QED BY <3>2, <3>3, <4>1
      <3>6. \A k \in 1 .. Len(q) - 1 : frame[Tail(q)[k]] = HostFrame(c, sent[c] + 1 + k)
        BY <3>2, <3>3, <3>4
      <3>7. Len(q) - 1 + 1 = submitted[c] - sent[c]
        BY <1>0, <3>1, <3>2 DEF FromHost
      <3> QED BY <3>1, <3>2, <3>5, <3>6, <3>7 DEF FromHost, HostFrame
    <2> QED BY <1>1, <2>1, <2>2, <2>3
  <1>2. CASE CanSend
    <2>1. CASE c # i
      <3>1. /\ Ahead(c) = 0 /\ Ahead(c)' = 0 /\ sent'[c] = sent[c]
            /\ UNCHANGED <<submitted, frame, list_from_host>>
        BY <1>0, <1>2, <2>1 DEF CanSend, Ahead, At, Goto, lists
      <3> QED BY <1>0, <3>1, FromHostStays
    <2>2. CASE c = i /\ pc' = "requeue"
      <3>1. /\ Ahead(c) = 1 /\ Ahead(c)' = 1
            /\ UNCHANGED <<submitted, sent, frame, list_from_host, frame_object>>
        BY <1>0, <1>2, <2>2 DEF CanSend, Ahead, At, Goto, lists
      <3> QED BY <1>0, <3>1, FromHostStays
    <2>3. CASE c = i /\ pc' = "echo"
      <3>1. /\ Ahead(c) = 1 /\ Ahead(c)' = 0 /\ sent'[c] = sent[c] + 1
            /\ UNCHANGED <<submitted, frame, list_from_host>>
        BY <1>0, <1>2, <2>3 DEF CanSend, Ahead, At, Goto, lists
      <3>2. \A k \in 1 .. Len(q) : sent[c] + 1 + k = (sent[c] + 1) + 0 + k
        BY <1>0
      <3>3. \A k \in 1 .. Len(q) : frame[q[k]] = HostFrame(c, (sent[c] + 1) + 0 + k)
        BY <1>0, <3>1, <3>2 DEF FromHost
      <3>4. Len(q) + 0 = submitted[c] - (sent[c] + 1)
        <4>1. Len(q) + 1 = submitted[c] - sent[c]
          BY <1>0, <3>1 DEF FromHost
        <4> QED BY <1>n, <4>1
      <3> QED BY <3>1, <3>3, <3>4 DEF FromHost, HostFrame
    <2> QED BY <1>2, <2>1, <2>2, <2>3 DEF CanSend, Goto
  <1>3. CASE SendRequeue
    <2>1. CASE c # i
      <3>1. /\ Ahead(c) = 0 /\ Ahead(c)' = 0 /\ list_from_host'[c] = list_from_host[c]
            /\ UNCHANGED <<submitted, sent, frame>>
        BY <1>0, <1>3, <2>1 DEF SendRequeue, Ahead, At, NextChannel, ghost
      <3> QED BY <1>0, <3>1, FromHostStays
    <2>2. CASE c = i
      <3> DEFINE w == AddHead(q, frame_object)
      <3>1. /\ Ahead(c) = 1 /\ Ahead(c)' = 0 /\ list_from_host'[c] = w
            /\ UNCHANGED <<submitted, sent, frame>>
        BY <1>0, <1>3, <2>2 DEF SendRequeue, Ahead, At, NextChannel, ghost
      <3>2. frame_object \in Objects
        BY <1>3 DEF SendRequeue, At, IInv, InHand, Holding, Own, TypeLists, NULL
      <3>3. /\ w \in Seq(Objects) /\ Len(w) = Len(q) + 1
            /\ \A k \in 1 .. Len(q) + 1 : w[k] = IF k = 1 THEN frame_object ELSE q[k - 1]
        BY <1>0, <3>2 DEF AddHead
      <3> HIDE DEF w
      <3>4. ASSUME NEW k \in 1 .. Len(q) + 1
            PROVE  frame[w[k]] = HostFrame(c, sent[c] + 0 + k)
        <4>1. CASE k = 1
          <5>1. frame[w[k]] = HostFrame(c, sent[c] + 1) /\ sent[c] + 1 = sent[c] + 0 + k
            BY <1>0, <3>1, <3>3, <4>1 DEF FromHost
          <5> QED BY <5>1
        <4>2. CASE k # 1
          <5>1. k - 1 \in 1 .. Len(q) /\ sent[c] + 1 + (k - 1) = sent[c] + 0 + k
            BY <1>0, <1>q, <4>2
          <5>2. frame[q[k - 1]] = HostFrame(c, sent[c] + 1 + (k - 1))
            BY <1>0, <3>1, <5>1 DEF FromHost
          <5> QED BY <3>3, <4>2, <5>1, <5>2
        <4> QED BY <4>1, <4>2
      <3>5. Len(w) + 0 = submitted[c] - sent[c]
        BY <1>0, <3>1, <3>3 DEF FromHost
      <3> QED BY <3>1, <3>3, <3>4, <3>5 DEF FromHost, HostFrame
    <2> QED BY <2>1, <2>2
  <1>4. CASE SendEcho \/ Pick \/ Drop \/ RxQueue
    <2>1. /\ Ahead(c) = 0 /\ Ahead(c)' = 0
          /\ UNCHANGED <<submitted, sent, frame, list_from_host>>
      BY <1>4 DEF SendEcho, Pick, Drop, RxQueue, At, Goto, NextChannel, Ahead,
         lists, ghost
    <2> QED BY <1>0, <2>1, FromHostStays
  <1>5. CASE RxRead \/ ErrQueue
    <2>1. /\ Ahead(c) = 0 /\ Ahead(c)' = 0 /\ pc \in Holding
          /\ UNCHANGED <<submitted, sent, list_from_host>>
      BY <1>5 DEF RxRead, ErrQueue, At, Goto, NextChannel, Ahead, Holding,
         lists, ghost
    <2>2. frame_object \notin Elems(q)
      BY <2>1 DEF IInv, InHand, Own, OneOwner, Lent
    <2>3. \A o \in Objects \ {frame_object} : frame'[o] = frame[o]
      BY <1>0, <1>5 DEF RxRead, ErrQueue
    <2>4. \A o \in Elems(q) : frame'[o] = frame[o]
      <3>1. Elems(q) \subseteq Objects
        BY <1>0 DEF Elems
      <3> HIDE DEF q
      <3> QED BY <2>2, <2>3, <3>1
    <2> QED BY <1>0, <2>1, <2>4, FromHostStays
  <1>6. CASE DataIn
    <2>1. Ahead(c)' = Ahead(c)
          /\ UNCHANGED <<submitted, sent, list_from_host, frame, frame_object>>
      BY <1>6 DEF DataIn, Ahead, main
    <2> QED BY <1>0, <2>1, FromHostStays
  <1>7. ASSUME NEW d \in Channels, DataOut(d) PROVE FromHost(c)'
    <2> DEFINE b == from_host_buf
    <2>1. /\ b \in Objects /\ out_ep.buf = b /\ b \notin Elems(q)
          /\ b # frame_object
      BY <1>7 DEF DataOut, IInv, EndpointBuffers, Own, TypeLists, OneOwner, Lent
    <2>2. /\ frame' = [frame EXCEPT ![b] = HostFrame(d, submitted[d] + 1)]
          /\ list_from_host' = [list_from_host EXCEPT ![d] = AddTail(@, b)]
          /\ submitted' = [submitted EXCEPT ![d] = @ + 1]
          /\ UNCHANGED <<sent, frame_object>> /\ Ahead(c)' = Ahead(c)
      BY <1>7, <2>1 DEF DataOut, HostFrame, Ahead, main
    <2>3. Elems(q) \subseteq Objects
      BY <1>0 DEF Elems
    <2>4. Ahead(c) = 1 => frame_object \in Objects \ {b}
      BY <2>1 DEF Ahead, IInv, InHand, Holding, Own, TypeLists, NULL
    <2>5. \A o \in Objects \ {b} : frame'[o] = frame[o]
      BY <1>0, <2>2
    <2>6. CASE c # d
      <3>1. submitted'[c] = submitted[c] /\ list_from_host'[c] = list_from_host[c]
        BY <1>0, <2>2, <2>6
      <3> QED BY <1>0, <2>1, <2>2, <2>3, <2>4, <2>5, <3>1, FromHostStays
    <2>7. CASE c = d
      <3> DEFINE w == AddTail(q, b)
      <3>1. submitted'[c] = submitted[c] + 1 /\ list_from_host'[c] = w
            /\ frame'[b] = HostFrame(c, submitted[c] + 1)
        BY <1>0, <2>1, <2>2, <2>7
      <3>2. /\ Len(w) = Len(q) + 1
            /\ \A k \in 1 .. Len(q) + 1 : w[k] = IF k <= Len(q) THEN q[k] ELSE b
        BY <1>0, <2>1 DEF AddTail
      <3> HIDE DEF w
      <3>3. Ahead(c) \in {0, 1} /\ Len(q) + Ahead(c) = submitted[c] - sent[c]
        BY <1>0 DEF FromHost, Ahead
      <3>4. ASSUME NEW k \in 1 .. Len(q) + 1
            PROVE  frame'[w[k]] = HostFrame(c, sent[c] + Ahead(c) + k)
        <4>1. CASE k <= Len(q)
          <5>1. k \in 1 .. Len(q) /\ q[k] \in Elems(q)
            BY <1>q, <4>1 DEF Elems
          <5>2. frame'[q[k]] = frame[q[k]]
            BY <2>1, <2>3, <2>5, <5>1
          <5> QED BY <1>0, <3>2, <4>1, <5>1, <5>2 DEF FromHost
        <4>2. CASE ~(k <= Len(q))
          <5> DEFINE l == Len(q)
                     h == Ahead(c)
                     u == submitted[c]
                     v == sent[c]
          <5>0. l \in Nat /\ h \in {0, 1} /\ u \in Nat /\ v \in Nat /\ l + h = u - v
            BY <1>0, <1>q, <3>3
          <5>2. k \in 1 .. l + 1 /\ ~(k <= l)
            BY <4>2
          <5> HIDE DEF l, h, u, v
          <5>3. k = l + 1 /\ v + h + k = u + 1
            BY <5>0, <5>2
          <5>1. k = Len(q) + 1 /\ sent[c] + Ahead(c) + k = submitted[c] + 1
            BY <5>3 DEF l, h, u, v
          <5> QED BY <3>1, <3>2, <4>2, <5>1
        <4> QED BY <4>1, <4>2
      <3>5. Len(w) + Ahead(c) = (submitted[c] + 1) - sent[c]
        BY <1>0, <1>q, <3>2, <3>3
      <3>6. Ahead(c) = 1 => frame'[frame_object] = HostFrame(c, sent[c] + 1)
        BY <1>0, <2>4, <2>5 DEF FromHost
      <3> QED BY <2>2, <3>1, <3>2, <3>4, <3>5, <3>6 DEF FromHost, HostFrame
    <2> QED BY <2>6, <2>7
  <1>8. CASE DataOutBad
    <2> DEFINE b == from_host_buf
    <2>1. /\ b \in Objects /\ out_ep.buf = b /\ b \notin Elems(q)
          /\ b # frame_object
      BY <1>8 DEF DataOutBad, IInv, EndpointBuffers, Own, TypeLists, OneOwner, Lent
    <2>2. /\ frame' = [frame EXCEPT ![b] = Blank]
          /\ UNCHANGED <<submitted, sent, list_from_host, frame_object>>
          /\ Ahead(c)' = Ahead(c)
      BY <1>8, <2>1 DEF DataOutBad, Ahead, main, lists, ghost
    <2>3. Elems(q) \subseteq Objects
      BY <1>0 DEF Elems
    <2>4. Ahead(c) = 1 => frame_object \in Objects \ {b}
      BY <2>1 DEF Ahead, IInv, InHand, Holding, Own, TypeLists, NULL
    <2>5. \A o \in Objects \ {b} : frame'[o] = frame[o]
      BY <1>0, <2>2
    <2> QED BY <1>0, <2>1, <2>2, <2>3, <2>4, <2>5, FromHostStays
  <1>9. ASSUME NEW d \in Channels, BusArrive(d) PROVE FromHost(c)'
    <2>1. Ahead(c)' = Ahead(c)
          /\ UNCHANGED <<submitted, sent, list_from_host, frame, frame_object>>
      BY <1>9 DEF BusArrive, Ahead, main, lists
    <2> QED BY <1>0, <2>1, FromHostStays
  <1>10. CASE Elsewhere
    <2>1. /\ UNCHANGED <<submitted, sent, list_from_host, frame>>
          /\ Ahead(c)' = Ahead(c)
          /\ Ahead(c) = 1 => UNCHANGED frame_object
      BY <1>10 DEF Elsewhere, Moving, Ahead, ghost
    <2> QED BY <1>0, <2>1, FromHostStays
  <1> HIDE DEF q
  <1> QED BY <1>1, <1>2, <1>3, <1>4, <1>5, <1>6, <1>7, <1>8, <1>9, <1>10,
            CarryOrElsewhere DEF Carry

(* main() starts with nothing submitted.                                   *)
LEMMA FromHostInit == Init => \A c \in Channels : FromHost(c)
  BY DEF Init, FromHost, Ahead

(* The host's frames for a channel reach it complete, once and in order.   *)
THEOREM HostOrder == Spec => []HostFramesInOrder
  <1> DEFINE Ordered == \A c \in Channels : FromHost(c)
  <1>1. IInv /\ Ordered /\ [Next]_vars => Ordered'
    BY FromHostStep
  <1>2. IInv /\ Ordered => HostFramesInOrder
    BY FromHostOrder
  <1> QED BY <1>1, <1>2, FromHostInit, Invariance, PTL DEF Spec

-----------------------------------------------------------------------------
(* From the bus and back to the host.  What is on its way to the host is   *)
(* described as a sequence S of frames, next to what the counters and the  *)
(* Rx FIFOs say: s, e, d, a and r stand for sent, echoed, delivered,       *)
(* arrived and rx_fifo.                                                    *)

(* A frame in S has been loaded or has arrived, and the host has seen only *)
(* older ones.                                                             *)
Timely(f, s, e, d, a) ==
  /\ f.kind # "none"
  /\ f.kind = "host" => /\ f.nr \in 1 .. s[f.channel]
                        /\ \A n \in 1 .. Len(e[f.channel]) : e[f.channel][n] < f.nr
  /\ f.kind = "bus" => f.nr \in d[f.channel] + 1 .. a[f.channel]

(* The frame f is not behind a newer one.                                  *)
Before(f, g) ==
  f.kind = g.kind /\ f.kind # "err" /\ f.channel = g.channel => f.nr < g.nr

(* What waits in the Rx FIFO q of channel c is in order, and newer than    *)
(* what is in S or has been delivered.                                     *)
Arriving(c, S, q, last, newest) ==
  /\ \A n \in 1 .. Len(q) : q[n] \in last + 1 .. newest
  /\ \A n \in 1 .. Len(q) : \A k \in 1 .. Len(S) :
       S[k].kind = "bus" /\ S[k].channel = c => S[k].nr < q[n]
  /\ \A m, n \in 1 .. Len(q) : m < n => q[m] < q[n]

InOrder(S, s, e, d, a, r) ==
  /\ \A k \in 1 .. Len(S) : Timely(S[k], s, e, d, a)
  /\ \A j, k \in 1 .. Len(S) : j < k => Before(S[j], S[k])
  /\ \A c \in Channels : Arriving(c, S, r[c], d[c], a[c])
  /\ \A c \in Channels : d[c] <= a[c]
  /\ \A c \in Channels : \A n \in 1 .. Len(e[c]) : e[c][n] <= s[c]

Counters(S, s, e, d, a, r) ==
  /\ S \in Seq(Contents)
  /\ s \in [Channels -> Nat] /\ d \in [Channels -> Nat] /\ a \in [Channels -> Nat]
  /\ e \in [Channels -> Seq(Nat)] /\ r \in [Channels -> Seq(Nat)]

(* Emptying Rx FIFOs disturbs nothing.                                     *)
LEMMA ClearKeepsOrder ==
  ASSUME NEW S, NEW s, NEW e, NEW d, NEW a, NEW r, NEW r2,
         InOrder(S, s, e, d, a, r),
         \A c \in Channels : r2[c] \in {r[c], << >>}
  PROVE  InOrder(S, s, e, d, a, r2)
  <1>1. ASSUME NEW c \in Channels PROVE Arriving(c, S, r2[c], d[c], a[c])
    <2>1. Arriving(c, S, r[c], d[c], a[c])
      BY DEF InOrder
    <2>2. Arriving(c, S, << >>, d[c], a[c])
      BY DEF Arriving
    <2> QED BY <2>1, <2>2
  <1> QED BY <1>1 DEF InOrder

(* What a new last frame has to satisfy, and what holds with it.           *)
Queueable(S, g, s, e, d, a) ==
  /\ S \in Seq(Contents) /\ g \in Contents /\ Timely(g, s, e, d, a)
  /\ \A k \in 1 .. Len(S) : Timely(S[k], s, e, d, a) /\ Before(S[k], g)
  /\ \A j, k \in 1 .. Len(S) : j < k => Before(S[j], S[k])

Grown(T, S, g, s, e, d, a) ==
  /\ T \in Seq(Contents) /\ Len(T) = Len(S) + 1
  /\ \A k \in 1 .. Len(T) : T[k] = IF k <= Len(S) THEN S[k] ELSE g
  /\ \A k \in 1 .. Len(T) : Timely(T[k], s, e, d, a)
  /\ \A j, k \in 1 .. Len(T) : j < k => Before(T[j], T[k])

LEMMA GrowKeepsOrder ==
  ASSUME NEW S, NEW g, NEW s, NEW e, NEW d, NEW a, Queueable(S, g, s, e, d, a)
  PROVE  Grown(Append(S, g), S, g, s, e, d, a)
  <1> DEFINE T == Append(S, g)
  <1>0. S \in Seq(Contents) /\ g \in Contents
    BY DEF Queueable
  <1>1. /\ T \in Seq(Contents) /\ Len(T) = Len(S) + 1 /\ Len(S) \in Nat
        /\ \A k \in 1 .. Len(T) : T[k] = IF k <= Len(S) THEN S[k] ELSE g
    BY <1>0
  <1> HIDE DEF T
  <1>2. ASSUME NEW k \in 1 .. Len(T) PROVE Timely(T[k], s, e, d, a)
    <2>1. CASE k <= Len(S)
      BY <1>1, <1>2, <2>1 DEF Queueable
    <2>2. CASE ~(k <= Len(S))
      BY <1>1, <1>2, <2>2 DEF Queueable
    <2> QED BY <2>1, <2>2
  <1>3. ASSUME NEW j \in 1 .. Len(T), NEW k \in 1 .. Len(T), j < k
        PROVE  Before(T[j], T[k])
    <2>1. j \in 1 .. Len(S) /\ T[j] = S[j]
      BY <1>1, <1>3
    <2>2. CASE k <= Len(S)
      <3>1. k \in 1 .. Len(S) /\ T[k] = S[k]
        BY <1>1, <1>3, <2>2
      <3> QED BY <1>3, <2>1, <3>1 DEF Queueable
    <2>3. CASE ~(k <= Len(S))
      <3>1. T[k] = g
        BY <1>1, <1>3, <2>3
      <3> QED BY <2>1, <3>1 DEF Queueable
    <2> QED BY <2>2, <2>3
  <1>4. Grown(T, S, g, s, e, d, a)
    BY <1>1, <1>2, <1>3 DEF Grown
  <1> QED BY <1>4 DEF T

(* A frame for channel c is loaded, and becomes its own echo.              *)
LEMMA LoadKeepsOrder ==
  ASSUME NEW S, NEW s, NEW e, NEW d, NEW a, NEW r,
         Counters(S, s, e, d, a, r), InOrder(S, s, e, d, a, r),
         NEW c \in Channels, NEW s2, s2 = [s EXCEPT ![c] = @ + 1]
  PROVE  InOrder(Append(S, HostFrame(c, s[c] + 1)), s2, e, d, a, r)
  <1> DEFINE g == HostFrame(c, s[c] + 1)
             T == Append(S, g)
  <1>1. s[c] \in Nat /\ s2[c] = s[c] + 1 /\ \A x \in Channels : s[x] \in Nat /\ s[x] <= s2[x]
    BY DEF Counters
  <1>2. g \in Contents
    BY <1>1 DEF HostFrame, Contents
  <1>3. S \in Seq(Contents) /\ \A k \in 1 .. Len(S) : S[k] \in Contents
    BY DEF Counters
  <1>4. ASSUME NEW k \in 1 .. Len(S) PROVE Timely(S[k], s2, e, d, a) /\ Before(S[k], g)
    <2> DEFINE f == S[k]
    <2>1. /\ f.channel \in Channels /\ f.nr \in Nat /\ Timely(f, s, e, d, a)
      BY <1>3 DEF InOrder, Contents
    <2> HIDE DEF f
    <2>2. f.kind = "host" => f.nr \in 1 .. s[f.channel]
      BY <2>1 DEF Timely
    <2>3. f.kind = "host" => f.nr \in 1 .. s2[f.channel]
      BY <1>1, <2>1, <2>2
    <2>4. Timely(f, s2, e, d, a)
      BY <2>1, <2>3 DEF Timely
    <2>5. Before(f, g)
      BY <1>1, <2>1, <2>2 DEF Before, HostFrame
    <2> QED BY <2>4, <2>5 DEF f
  <1>5. Timely(g, s2, e, d, a)
    <2>1. \A n \in 1 .. Len(e[c]) : e[c][n] \in Nat /\ e[c][n] <= s[c]
      BY DEF Counters, InOrder
    <2>2. \A n \in 1 .. Len(e[c]) : e[c][n] < s[c] + 1
      BY <1>1, <2>1
    <2>3. s[c] + 1 \in 1 .. s2[c]
      BY <1>1
    <2> QED BY <2>2, <2>3 DEF Timely, HostFrame
  <1>6. \A j, k \in 1 .. Len(S) : j < k => Before(S[j], S[k])
    BY DEF InOrder
  <1> HIDE DEF g
  <1>7. /\ T \in Seq(Contents)
        /\ \A k \in 1 .. Len(T) : Timely(T[k], s2, e, d, a)
        /\ \A j, k \in 1 .. Len(T) : j < k => Before(T[j], T[k])
        /\ Len(T) = Len(S) + 1
        /\ \A k \in 1 .. Len(T) : T[k] = IF k <= Len(S) THEN S[k] ELSE g
    <2>1. Queueable(S, g, s2, e, d, a)
      BY <1>2, <1>3, <1>4, <1>5, <1>6 DEF Queueable
    <2>2. Grown(T, S, g, s2, e, d, a)
      BY <2>1, GrowKeepsOrder
    <2> QED BY <2>2 DEF Grown
  <1> HIDE DEF T
  <1>8. ASSUME NEW x \in Channels PROVE Arriving(x, T, r[x], d[x], a[x])
    <2>1. Arriving(x, S, r[x], d[x], a[x])
      BY DEF InOrder
    <2>2. \A k \in 1 .. Len(T) : T[k].kind = "bus" => k \in 1 .. Len(S) /\ T[k] = S[k]
      BY <1>3, <1>7 DEF g, HostFrame
    <2> QED BY <2>1, <2>2 DEF Arriving
  <1>9. ASSUME NEW x \in Channels, NEW n \in 1 .. Len(e[x]) PROVE e[x][n] <= s2[x]
    <2>1. e[x] \in Seq(Nat)
      BY DEF Counters
    <2>2. e[x][n] \in Nat
      BY <1>9, <2>1
    <2>3. e[x][n] <= s[x]
      BY <1>9 DEF InOrder
    <2> QED BY <1>1, <2>2, <2>3
  <1>10. \A x \in Channels : d[x] <= a[x]
    BY DEF InOrder
  <1>11. InOrder(T, s2, e, d, a, r)
    BY <1>7, <1>8, <1>9, <1>10 DEF InOrder
  <1> QED BY <1>11 DEF T, g

(* The oldest frame in the Rx FIFO of channel c is read and queued.        *)
LEMMA ReadKeepsOrder ==
  ASSUME NEW S, NEW s, NEW e, NEW d, NEW a, NEW r,
         Counters(S, s, e, d, a, r), InOrder(S, s, e, d, a, r),
         NEW c \in Channels, r[c] # << >>, NEW r2, r2 = [r EXCEPT ![c] = Tail(@)],
         NEW g, g = [kind |-> "bus", channel |-> c, nr |-> Head(r[c])]
  PROVE  InOrder(Append(S, g), s, e, d, a, r2)
  <1> DEFINE T == Append(S, g)
             q == r[c]
  <1>1. /\ q \in Seq(Nat) /\ Len(q) \in Nat \ {0} /\ Head(q) = q[1] /\ Head(q) \in Nat
        /\ Len(Tail(q)) = Len(q) - 1
        /\ \A n \in 1 .. Len(q) - 1 : Tail(q)[n] = q[n + 1]
    BY DEF Counters
  <1>2. g \in Contents /\ g.kind = "bus" /\ g.channel = c /\ g.nr = q[1]
    BY <1>1 DEF Contents
  <1>3. S \in Seq(Contents) /\ \A k \in 1 .. Len(S) : S[k] \in Contents
    BY DEF Counters
  <1>4. Arriving(c, S, q, d[c], a[c])
    BY DEF InOrder
  <1>5. ASSUME NEW k \in 1 .. Len(S) PROVE Timely(S[k], s, e, d, a) /\ Before(S[k], g)
    <2>1. Timely(S[k], s, e, d, a)
      BY DEF InOrder
    <2>2. 1 \in 1 .. Len(q)
      BY <1>1
    <2>3. S[k].kind = "bus" /\ S[k].channel = c => S[k].nr < q[1]
      BY <1>4, <2>2 DEF Arriving
    <2> QED BY <1>2, <2>1, <2>3 DEF Before
  <1>6. Timely(g, s, e, d, a)
    <2>1. 1 \in 1 .. Len(q)
      BY <1>1
    <2>2. q[1] \in d[c] + 1 .. a[c]
      BY <1>4, <2>1 DEF Arriving
    <2> QED BY <1>2, <2>2 DEF Timely
  <1>7. \A j, k \in 1 .. Len(S) : j < k => Before(S[j], S[k])
    BY DEF InOrder
  <1>8. /\ T \in Seq(Contents)
        /\ \A k \in 1 .. Len(T) : Timely(T[k], s, e, d, a)
        /\ \A j, k \in 1 .. Len(T) : j < k => Before(T[j], T[k])
        /\ Len(T) = Len(S) + 1
        /\ \A k \in 1 .. Len(T) : T[k] = IF k <= Len(S) THEN S[k] ELSE g
    <2>1. Queueable(S, g, s, e, d, a)
      BY <1>2, <1>3, <1>5, <1>6, <1>7 DEF Queueable
    <2>2. Grown(T, S, g, s, e, d, a)
      BY <2>1, GrowKeepsOrder
    <2> QED BY <2>2 DEF Grown
  <1> HIDE DEF T
  <1>9. ASSUME NEW x \in Channels PROVE Arriving(x, T, r2[x], d[x], a[x])
    <2>1. CASE x # c
      <3>1. r2[x] = r[x] /\ Arriving(x, S, r[x], d[x], a[x])
        BY <2>1 DEF InOrder, Counters
      <3>2. \A k \in 1 .. Len(T) : T[k].channel = x => k \in 1 .. Len(S) /\ T[k] = S[k]
        BY <1>2, <1>3, <1>8, <2>1
      <3> QED BY <3>1, <3>2 DEF Arriving
    <2>2. CASE x = c
      <3>1. r2[x] = Tail(q)
        BY <2>2 DEF Counters
      <3>2. \A n \in 1 .. Len(q) - 1 : n + 1 \in 1 .. Len(q) /\ 1 < n + 1
        BY <1>1
      <3>3. 1 \in 1 .. Len(q)
        BY <1>1
      <3> DEFINE t == Tail(q)
      <3>4. Len(t) = Len(q) - 1 /\ \A n \in 1 .. Len(q) - 1 : t[n] = q[n + 1]
        BY <1>1
      <3> HIDE DEF t, q
      <3>5. \A n \in 1 .. Len(t) : t[n] \in d[c] + 1 .. a[c]
        BY <1>4, <3>2, <3>4 DEF Arriving
      <3>6. ASSUME NEW n \in 1 .. Len(t), NEW k \in 1 .. Len(T),
                   T[k].kind = "bus", T[k].channel = c
            PROVE  T[k].nr < t[n]
        <4>1. CASE k <= Len(S)
          BY <1>3, <1>4, <1>8, <3>2, <3>4, <3>6, <4>1 DEF Arriving
        <4>2. CASE ~(k <= Len(S))
          BY <1>2, <1>4, <1>8, <3>2, <3>3, <3>4, <4>2 DEF Arriving
        <4> QED BY <4>1, <4>2
      <3>7. ASSUME NEW m \in 1 .. Len(t), NEW n \in 1 .. Len(t), m < n
            PROVE  t[m] < t[n]
        <4>1. m + 1 \in 1 .. Len(q) /\ n + 1 \in 1 .. Len(q) /\ m + 1 < n + 1
          BY <3>2, <3>4, <3>7
        <4> QED BY <1>4, <3>4, <4>1 DEF Arriving
      <3> QED BY <2>2, <3>1, <3>5, <3>6, <3>7 DEF Arriving, t
    <2> QED BY <2>1, <2>2
  <1>10. /\ \A x \in Channels : d[x] <= a[x]
         /\ \A x \in Channels : \A n \in 1 .. Len(e[x]) : e[x][n] <= s[x]
    BY DEF InOrder
  <1>11. InOrder(T, s, e, d, a, r2)
    BY <1>8, <1>9, <1>10 DEF InOrder
  <1> QED BY <1>11 DEF T

(* An error frame is queued.                                               *)
LEMMA ErrorKeepsOrder ==
  ASSUME NEW S, NEW s, NEW e, NEW d, NEW a, NEW r,
         Counters(S, s, e, d, a, r), InOrder(S, s, e, d, a, r),
         NEW g \in Contents, g.kind = "err"
  PROVE  InOrder(Append(S, g), s, e, d, a, r)
  <1> DEFINE T == Append(S, g)
  <1>1. S \in Seq(Contents) /\ \A k \in 1 .. Len(S) : S[k] \in Contents
    BY DEF Counters
  <1>2. \A k \in 1 .. Len(S) : Timely(S[k], s, e, d, a) /\ Before(S[k], g)
    BY DEF InOrder, Before
  <1>3. Timely(g, s, e, d, a)
    BY DEF Timely
  <1>4. \A j, k \in 1 .. Len(S) : j < k => Before(S[j], S[k])
    BY DEF InOrder
  <1>5. /\ T \in Seq(Contents)
        /\ \A k \in 1 .. Len(T) : Timely(T[k], s, e, d, a)
        /\ \A j, k \in 1 .. Len(T) : j < k => Before(T[j], T[k])
        /\ Len(T) = Len(S) + 1
        /\ \A k \in 1 .. Len(T) : T[k] = IF k <= Len(S) THEN S[k] ELSE g
    <2>1. Queueable(S, g, s, e, d, a)
      BY <1>1, <1>2, <1>3, <1>4 DEF Queueable
    <2>2. Grown(T, S, g, s, e, d, a)
      BY <2>1, GrowKeepsOrder
    <2> QED BY <2>2 DEF Grown
  <1> HIDE DEF T
  <1>6. ASSUME NEW x \in Channels PROVE Arriving(x, T, r[x], d[x], a[x])
    <2>1. Arriving(x, S, r[x], d[x], a[x])
      BY DEF InOrder
    <2>2. \A k \in 1 .. Len(T) : T[k].kind = "bus" => k \in 1 .. Len(S) /\ T[k] = S[k]
      BY <1>1, <1>5
    <2> QED BY <2>1, <2>2 DEF Arriving
  <1>7. /\ \A x \in Channels : d[x] <= a[x]
        /\ \A x \in Channels : \A n \in 1 .. Len(e[x]) : e[x][n] <= s[x]
    BY DEF InOrder
  <1>8. InOrder(T, s, e, d, a, r)
    BY <1>5, <1>6, <1>7 DEF InOrder
  <1> QED BY <1>8 DEF T

(* A frame arrives from the bus.                                           *)
LEMMA ArriveKeepsOrder ==
  ASSUME NEW S, NEW s, NEW e, NEW d, NEW a, NEW r,
         Counters(S, s, e, d, a, r), InOrder(S, s, e, d, a, r),
         NEW c \in Channels, NEW a2, NEW r2,
         a2 = [a EXCEPT ![c] = @ + 1],
         r2 = [r EXCEPT ![c] = Append(@, a[c] + 1)]
  PROVE  InOrder(S, s, e, d, a2, r2)
  <1> DEFINE q == r[c]
             t == Append(q, a[c] + 1)
  <1>1. /\ q \in Seq(Nat) /\ Len(q) \in Nat /\ a[c] \in Nat /\ d[c] \in Nat
        /\ a2[c] = a[c] + 1 /\ r2[c] = t
        /\ \A x \in Channels : a[x] \in Nat /\ d[x] \in Nat /\ a[x] <= a2[x] /\ a2[x] \in Nat
        /\ \A x \in Channels \ {c} : a2[x] = a[x] /\ r2[x] = r[x]
    BY DEF Counters
  <1>2. /\ Len(t) = Len(q) + 1
        /\ \A n \in 1 .. Len(t) : t[n] = IF n <= Len(q) THEN q[n] ELSE a[c] + 1
    BY <1>1
  <1> HIDE DEF t
  <1>3. S \in Seq(Contents) /\ \A k \in 1 .. Len(S) : S[k] \in Contents
    BY DEF Counters
  <1>4. ASSUME NEW k \in 1 .. Len(S) PROVE Timely(S[k], s, e, d, a2)
    <2> DEFINE f == S[k]
    <2>1. /\ f.channel \in Channels /\ f.nr \in Nat /\ Timely(f, s, e, d, a)
      BY <1>3 DEF InOrder, Contents
    <2> HIDE DEF f
    <2>2. f.kind = "bus" => f.nr \in d[f.channel] + 1 .. a2[f.channel]
      BY <1>1, <2>1 DEF Timely
    <2>3. Timely(f, s, e, d, a2)
      BY <2>1, <2>2 DEF Timely
    <2> QED BY <2>3 DEF f
  <1>5. Arriving(c, S, q, d[c], a[c]) /\ d[c] <= a[c]
    BY DEF InOrder
  <1>6. \A n \in 1 .. Len(q) : q[n] \in Nat /\ q[n] \in d[c] + 1 .. a[c]
    BY <1>1, <1>5 DEF Arriving
  <1> HIDE DEF q
  <1>7. \A n \in 1 .. Len(t) : t[n] \in d[c] + 1 .. a2[c]
    BY <1>1, <1>2, <1>5, <1>6
  <1>8. ASSUME NEW n \in 1 .. Len(t), NEW k \in 1 .. Len(S),
               S[k].kind = "bus", S[k].channel = c
        PROVE  S[k].nr < t[n]
    <2>1. CASE n <= Len(q)
      <3>1. n \in 1 .. Len(q) /\ t[n] = q[n]
        BY <1>1, <1>2, <2>1
      <3> QED BY <1>5, <1>8, <3>1 DEF Arriving
    <2>2. CASE ~(n <= Len(q))
      <3>1. t[n] = a[c] + 1
        BY <1>2, <2>2
      <3>2. Timely(S[k], s, e, d, a)
        BY DEF InOrder
      <3>3. S[k].nr \in d[c] + 1 .. a[c]
        BY <1>8, <3>2 DEF Timely
      <3> QED BY <1>1, <3>1, <3>3
    <2> QED BY <2>1, <2>2
  <1>9. ASSUME NEW m \in 1 .. Len(t), NEW n \in 1 .. Len(t), m < n
        PROVE  t[m] < t[n]
    <2>1. m \in 1 .. Len(q) /\ t[m] = q[m]
      BY <1>1, <1>2, <1>9
    <2>2. CASE n <= Len(q)
      <3>1. n \in 1 .. Len(q) /\ t[n] = q[n]
        BY <1>1, <1>2, <2>2
      <3> QED BY <1>5, <1>9, <2>1, <3>1 DEF Arriving
    <2>3. CASE ~(n <= Len(q))
      <3>1. t[n] = a[c] + 1
        BY <1>2, <2>3
      <3> QED BY <1>1, <1>6, <2>1, <3>1
    <2> QED BY <2>2, <2>3
  <1>10. ASSUME NEW x \in Channels PROVE Arriving(x, S, r2[x], d[x], a2[x])
    <2>1. CASE x = c
      BY <1>1, <1>7, <1>8, <1>9, <2>1 DEF Arriving
    <2>2. CASE x # c
      <3>1. Arriving(x, S, r[x], d[x], a[x])
        BY DEF InOrder
      <3> QED BY <1>1, <2>2, <3>1
    <2> QED BY <2>1, <2>2
  <1>11. \A x \in Channels : d[x] <= a2[x]
    <2>1. \A x \in Channels : d[x] <= a[x]
      BY DEF InOrder
    <2> QED BY <1>1, <2>1
  <1>12. /\ \A j, k \in 1 .. Len(S) : j < k => Before(S[j], S[k])
         /\ \A x \in Channels : \A n \in 1 .. Len(e[x]) : e[x][n] <= s[x]
    BY DEF InOrder
  <1> QED BY <1>4, <1>10, <1>11, <1>12 DEF InOrder

(* The first frame leaves: the host has read it, or it was dropped.        *)
LEMMA LeaveKeepsOrder ==
  ASSUME NEW S, NEW s, NEW e, NEW d, NEW a, NEW r,
         Counters(S, s, e, d, a, r), InOrder(S, s, e, d, a, r), S # << >>,
         NEW e2, NEW d2,
         \/ e2 = e
         \/ S[1].kind = "host" /\ e2 = [e EXCEPT ![S[1].channel] = Append(@, S[1].nr)],
         \/ d2 = d
         \/ S[1].kind = "bus" /\ d2 = [d EXCEPT ![S[1].channel] = S[1].nr]
  PROVE  InOrder(Tail(S), s, e2, d2, a, r)
  <1> DEFINE T == Tail(S)
             g == S[1]
  <1>1. /\ S \in Seq(Contents) /\ \A k \in 1 .. Len(S) : S[k] \in Contents
        /\ Len(S) \in Nat \ {0} /\ Len(T) = Len(S) - 1
        /\ \A k \in 1 .. Len(T) : T[k] = S[k + 1]
    BY DEF Counters
  <1>2. \A k \in 1 .. Len(T) : k + 1 \in 1 .. Len(S) /\ 1 < k + 1
    BY <1>1
  <1>3. 1 \in 1 .. Len(S)
    BY <1>1
  <1> HIDE DEF T
  <1>4. g \in Contents /\ Timely(g, s, e, d, a)
    BY <1>1, <1>3 DEF InOrder
  <1>5. \A k \in 1 .. Len(T) : /\ T[k] \in Contents
                               /\ Timely(T[k], s, e, d, a)
                               /\ Before(g, T[k])
    BY <1>1, <1>2, <1>3 DEF InOrder
  <1> HIDE DEF g
  <1>6. /\ g.channel \in Channels /\ g.nr \in Nat
        /\ \A x \in Channels : d[x] \in Nat /\ s[x] \in Nat /\ a[x] \in Nat /\ e[x] \in Seq(Nat)
        /\ \A x \in Channels : Len(e[x]) \in Nat
    <2>1. g.channel \in Channels /\ g.nr \in Nat
      BY <1>4 DEF Contents
    <2>2. \A x \in Channels : d[x] \in Nat /\ s[x] \in Nat /\ a[x] \in Nat /\ e[x] \in Seq(Nat)
      BY DEF Counters
    <2>3. \A x \in Channels : Len(e[x]) \in Nat
      BY <2>2
    <2> QED BY <2>1, <2>2, <2>3
  <1>7. ASSUME NEW x \in Channels
        PROVE  /\ \/ e2[x] = e[x]
                  \/ g.kind = "host" /\ g.channel = x /\ e2[x] = Append(e[x], g.nr)
               /\ \/ d2[x] = d[x]
                  \/ g.kind = "bus" /\ g.channel = x /\ d2[x] = g.nr
    BY DEF Counters, g
  <1>8. ASSUME NEW x \in Channels, NEW n \in 1 .. Len(e2[x])
        PROVE  \/ n \in 1 .. Len(e[x]) /\ e2[x][n] = e[x][n]
               \/ g.kind = "host" /\ g.channel = x /\ e2[x][n] = g.nr
    <2>1. CASE e2[x] = e[x]
      BY <1>8, <2>1
    <2>2. CASE g.kind = "host" /\ g.channel = x /\ e2[x] = Append(e[x], g.nr)
      <3>1. n \in 1 .. Len(e[x]) + 1 /\ e2[x][n] = IF n <= Len(e[x]) THEN e[x][n] ELSE g.nr
        BY <1>6, <1>8, <2>2
      <3> QED BY <1>6, <2>2, <3>1
    <2> QED BY <1>7, <2>1, <2>2
  <1>9. ASSUME NEW k \in 1 .. Len(T) PROVE Timely(T[k], s, e2, d2, a)
    <2> DEFINE f == T[k]
    <2>1. /\ f.channel \in Channels /\ f.nr \in Nat
          /\ Timely(f, s, e, d, a) /\ Before(g, f)
      BY <1>5 DEF Contents
    <2> HIDE DEF f
    <2>2. f.kind = "host" => \A n \in 1 .. Len(e2[f.channel]) : e2[f.channel][n] < f.nr
      BY <1>8, <2>1 DEF Timely, Before
    <2>3. f.kind = "bus" => f.nr \in d2[f.channel] + 1 .. a[f.channel]
      BY <1>6, <1>7, <2>1 DEF Timely, Before
    <2>4. Timely(f, s, e2, d2, a)
      BY <2>1, <2>2, <2>3 DEF Timely
    <2> QED BY <2>4 DEF f
  <1>10. ASSUME NEW j \in 1 .. Len(T), NEW k \in 1 .. Len(T), j < k
         PROVE  Before(T[j], T[k])
    <2>1. j + 1 \in 1 .. Len(S) /\ k + 1 \in 1 .. Len(S) /\ j + 1 < k + 1
      BY <1>1, <1>10
    <2> QED BY <1>1, <2>1 DEF InOrder
  <1>11. ASSUME NEW x \in Channels PROVE Arriving(x, T, r[x], d2[x], a[x])
    <2> DEFINE q == r[x]
    <2>1. Arriving(x, S, q, d[x], a[x]) /\ \A n \in 1 .. Len(q) : q[n] \in Nat
      BY DEF InOrder, Counters
    <2> HIDE DEF q
    <2>2. ASSUME NEW n \in 1 .. Len(q) PROVE q[n] \in d2[x] + 1 .. a[x]
      <3>1. q[n] \in d[x] + 1 .. a[x]
        BY <2>1 DEF Arriving
      <3>2. g.kind = "bus" /\ g.channel = x => g.nr < q[n]
        BY <1>3, <2>1 DEF Arriving, g
      <3> QED BY <1>6, <1>7, <2>1, <3>1, <3>2
    <2>3. ASSUME NEW n \in 1 .. Len(q), NEW k \in 1 .. Len(T),
                 T[k].kind = "bus", T[k].channel = x
          PROVE  T[k].nr < q[n]
      BY <1>1, <1>2, <2>1, <2>3 DEF Arriving
    <2>4. Arriving(x, T, q, d2[x], a[x])
      BY <2>1, <2>2, <2>3 DEF Arriving
    <2> QED BY <2>4 DEF q
  <1>12. ASSUME NEW x \in Channels PROVE d2[x] <= a[x]
    <2>1. d[x] <= a[x]
      BY DEF InOrder
    <2>2. g.kind = "bus" /\ g.channel = x => g.nr <= a[x]
      BY <1>4, <1>6 DEF Timely
    <2> QED BY <1>7, <2>1, <2>2
  <1>13. ASSUME NEW x \in Channels, NEW n \in 1 .. Len(e2[x]) PROVE e2[x][n] <= s[x]
    <2>1. \A m \in 1 .. Len(e[x]) : e[x][m] <= s[x]
      BY DEF InOrder
    <2>2. g.kind = "host" /\ g.channel = x => g.nr <= s[x]
      BY <1>4, <1>6 DEF Timely
    <2> QED BY <1>8, <1>13, <2>1, <2>2
  <1>14. InOrder(T, s, e2, d2, a, r)
    BY <1>9, <1>10, <1>11, <1>12, <1>13 DEF InOrder
  <1> QED BY <1>14 DEF T

-----------------------------------------------------------------------------
(* Without a suspend no echo is lost: every loaded frame that the host has *)
(* not seen again is in S.                                                 *)

Newest(q) == IF q = << >> THEN 0 ELSE q[Len(q)]

Complete(S, s, e) ==
  \A c \in Channels : \A n \in Newest(e[c]) + 1 .. s[c] :
    \E k \in 1 .. Len(S) : S[k] = HostFrame(c, n)

LEMMA NewestType ==
  ASSUME NEW q \in Seq(Nat)
  PROVE  /\ Newest(q) \in Nat
         /\ \A n \in Nat : Newest(Append(q, n)) = n
         /\ q # << >> => Len(q) \in 1 .. Len(q) /\ Newest(q) = q[Len(q)]
  <1>1. q # << >> => Len(q) \in 1 .. Len(q) /\ q[Len(q)] \in Nat
    OBVIOUS
  <1>2. ASSUME NEW n \in Nat
        PROVE Append(q, n) # << >> /\ Append(q, n)[Len(Append(q, n))] = n
    OBVIOUS
  <1> QED BY <1>1, <1>2 DEF Newest

(* A frame that is queued does not make others go missing.                 *)
LEMMA GrowKeepsComplete ==
  ASSUME NEW S \in Seq(Contents), NEW g \in Contents, NEW s, NEW e, Complete(S, s, e)
  PROVE  Complete(Append(S, g), s, e)
  <1> DEFINE T == Append(S, g)
  <1>1. Len(T) = Len(S) + 1 /\ \A k \in 1 .. Len(S) : k \in 1 .. Len(T) /\ T[k] = S[k]
    OBVIOUS
  <1> HIDE DEF T
  <1>2. Complete(T, s, e)
    BY <1>1 DEF Complete
  <1> QED BY <1>2 DEF T

(* A frame that is loaded is queued.                                       *)
LEMMA LoadKeepsComplete ==
  ASSUME NEW S \in Seq(Contents), NEW s \in [Channels -> Nat],
         NEW e \in [Channels -> Seq(Nat)], Complete(S, s, e),
         NEW c \in Channels, NEW s2, s2 = [s EXCEPT ![c] = @ + 1]
  PROVE  Complete(Append(S, HostFrame(c, s[c] + 1)), s2, e)
  <1> DEFINE g == HostFrame(c, s[c] + 1)
             T == Append(S, g)
  <1>1. s[c] \in Nat /\ s2[c] = s[c] + 1 /\ \A x \in Channels \ {c} : s2[x] = s[x]
    OBVIOUS
  <1>2. g \in Contents
    BY <1>1 DEF HostFrame, Contents
  <1>3. /\ Len(T) = Len(S) + 1 /\ Len(S) \in Nat
        /\ \A k \in 1 .. Len(S) : k \in 1 .. Len(T) /\ T[k] = S[k]
        /\ Len(T) \in 1 .. Len(T) /\ T[Len(T)] = g
    BY <1>2
  <1> HIDE DEF T
  <1>4. ASSUME NEW x \in Channels, NEW n \in Newest(e[x]) + 1 .. s2[x]
        PROVE  \E k \in 1 .. Len(T) : T[k] = HostFrame(x, n)
    <2>1. CASE x = c /\ n = s[c] + 1
      BY <1>3, <2>1
    <2>2. CASE ~(x = c /\ n = s[c] + 1)
      <3>1. Newest(e[x]) \in Nat /\ s[x] \in Nat
        BY NewestType
      <3>2. n \in Newest(e[x]) + 1 .. s[x]
        BY <1>1, <1>4, <2>2, <3>1
      <3> QED BY <1>3, <3>2 DEF Complete
    <2> QED BY <2>1, <2>2
  <1>5. Complete(T, s2, e)
    BY <1>4 DEF Complete
  <1> QED BY <1>5 DEF T

(* The frame the host reads is the one after the last it has read, if it   *)
(* is an echo, and none goes missing behind it.                            *)
LEMMA LeaveKeepsComplete ==
  ASSUME NEW S, NEW s, NEW e, NEW d, NEW a, NEW r,
         Counters(S, s, e, d, a, r), InOrder(S, s, e, d, a, r), S # << >>,
         Complete(S, s, e), NEW e2,
         e2 = IF S[1].kind = "host"
              THEN [e EXCEPT ![S[1].channel] = Append(@, S[1].nr)] ELSE e
  PROVE  /\ Complete(Tail(S), s, e2)
         /\ S[1].kind = "host" => S[1].nr = Newest(e[S[1].channel]) + 1
  <1> DEFINE T == Tail(S)
             g == S[1]
             h == g.channel
  <1>1. /\ S \in Seq(Contents) /\ \A k \in 1 .. Len(S) : S[k] \in Contents
        /\ Len(S) \in Nat \ {0} /\ Len(T) = Len(S) - 1
        /\ \A k \in 1 .. Len(T) : T[k] = S[k + 1]
    BY DEF Counters
  <1>2. 1 \in 1 .. Len(S) /\ \A k \in 1 .. Len(S) \ {1} :
                               1 < k /\ k - 1 \in 1 .. Len(T) /\ T[k - 1] = S[k]
    BY <1>1
  <1> HIDE DEF T
  <1>3. g \in Contents /\ Timely(g, s, e, d, a) /\ \A k \in 1 .. Len(S) \ {1} : Before(g, S[k])
    BY <1>1, <1>2 DEF InOrder
  <1> HIDE DEF g
  <1>4. /\ h \in Channels /\ g.nr \in Nat
        /\ \A x \in Channels : s[x] \in Nat /\ e[x] \in Seq(Nat) /\ Newest(e[x]) \in Nat
    BY <1>3, NewestType DEF Counters, Contents
  <1>5. ASSUME g.kind = "host" PROVE g.nr = Newest(e[h]) + 1
    <2>1. g.nr \in 1 .. s[h] /\ \A n \in 1 .. Len(e[h]) : e[h][n] < g.nr
      BY <1>3, <1>5 DEF Timely
    <2>2. Newest(e[h]) < g.nr
      <3>1. CASE e[h] = << >>
        BY <2>1, <3>1 DEF Newest
      <3>2. CASE e[h] # << >>
        BY <1>4, <2>1, <3>2, NewestType
      <3> QED BY <3>1, <3>2
    <2>3. ASSUME g.nr # Newest(e[h]) + 1 PROVE FALSE
      <3> DEFINE n == Newest(e[h]) + 1
      <3>1. n \in Newest(e[h]) + 1 .. s[h] /\ n < g.nr /\ n \in Nat
        BY <1>4, <2>1, <2>2, <2>3
      <3>2. PICK k \in 1 .. Len(S) : S[k] = HostFrame(h, n)
        BY <1>4, <3>1 DEF Complete
      <3>3. k # 1
        BY <3>1, <3>2 DEF g, HostFrame
      <3>4. Before(g, S[k])
        BY <1>3, <3>3
      <3>5. g.nr < n
        BY <1>5, <3>2, <3>4 DEF Before, HostFrame
      <3> QED BY <1>4, <3>1, <3>5
    <2> QED BY <2>3
  <1>6. ASSUME NEW x \in Channels, NEW n \in Newest(e2[x]) + 1 .. s[x]
        PROVE  \E k \in 1 .. Len(T) : T[k] = HostFrame(x, n)
    <2>1. g # HostFrame(x, n) /\ n \in Newest(e[x]) + 1 .. s[x]
      <3>1. CASE g.kind = "host" /\ h = x
        <4>1. e2[x] = Append(e[x], g.nr)
          BY <1>4, <3>1 DEF g, Counters
        <4>2. Newest(e2[x]) = g.nr
          BY <1>4, <4>1, NewestType
        <4> QED BY <1>4, <1>5, <1>6, <3>1, <4>2 DEF HostFrame
      <3>2. CASE ~(g.kind = "host" /\ h = x)
        <4>1. e2[x] = e[x]
          BY <1>4, <3>2 DEF g, Counters
        <4> QED BY <1>6, <3>2, <4>1 DEF HostFrame
      <3> QED BY <3>1, <3>2
    <2>2. PICK k \in 1 .. Len(S) : S[k] = HostFrame(x, n)
      BY <2>1 DEF Complete
    <2>3. k # 1
      BY <2>1, <2>2 DEF g
    <2> QED BY <1>2, <2>2, <2>3
  <1>7. Complete(T, s, e2)
    BY <1>6 DEF Complete
  <1> QED BY <1>5, <1>7 DEF T, g

-----------------------------------------------------------------------------
(* The frames on their way to the host, and how each step changes them.    *)
Contained(f, list) == [k \in 1 .. Len(list) |-> f[list[k]]]
Stream == Contained(frame, ToHost)

(* ToHost is put together from three parts.                                *)
Handed == IF to_host_buf # NULL THEN <<to_host_buf>> ELSE << >>
Taken  == IF pc \in {"echo", "rxQueue"} THEN <<frame_object>> ELSE << >>

LEMMA ToHostParts ==
  ASSUME IInv
  PROVE  /\ Handed \in Seq(Objects) /\ list_to_host \in Seq(Objects)
         /\ Taken \in Seq(Objects) /\ ToHost \in Seq(Objects)
         /\ ToHost = (Handed \o list_to_host) \o Taken
         /\ Elems(ToHost) = Elems(Handed) \cup Elems(list_to_host) \cup Elems(Taken)
         /\ DOMAIN ToHost = 1 .. Len(ToHost)
  <1>1. /\ list_to_host \in Seq(Objects)
        /\ to_host_buf # NULL => to_host_buf \in Objects
        /\ pc \in {"echo", "rxQueue"} => frame_object \in Objects
    BY DEF IInv, Own, TypeLists, InHand, Holding, NULL
  <1>2. Handed \in Seq(Objects) /\ Taken \in Seq(Objects)
    BY <1>1 DEF Handed, Taken
  <1>3. ToHost = (Handed \o list_to_host) \o Taken
    BY DEF ToHost, Handed, Taken
  <1>4. ASSUME NEW s \in Seq(Objects), NEW t \in Seq(Objects)
        PROVE  s \o t \in Seq(Objects) /\ Elems(s \o t) = Elems(s) \cup Elems(t)
    <2> DEFINE u == s \o t
    <2>1. /\ u \in Seq(Objects) /\ DOMAIN u = 1 .. Len(s) + Len(t)
          /\ DOMAIN s = 1 .. Len(s) /\ DOMAIN t = 1 .. Len(t)
          /\ Len(s) \in Nat /\ Len(t) \in Nat
          /\ \A k \in 1 .. Len(s) : u[k] = s[k]
          /\ \A k \in 1 .. Len(t) : u[Len(s) + k] = t[k]
      OBVIOUS
    <2> HIDE DEF u
    <2>2. \A k \in DOMAIN u : \/ k \in 1 .. Len(s)
                              \/ k - Len(s) \in 1 .. Len(t) /\ u[k] = t[k - Len(s)]
      <3> TAKE k \in DOMAIN u
      <3>1. k \in 1 .. Len(s) \/ k - Len(s) \in 1 .. Len(t)
        BY <2>1
      <3>2. k - Len(s) \in 1 .. Len(t) => u[Len(s) + (k - Len(s))] = t[k - Len(s)]
        BY <2>1
      <3>3. Len(s) + (k - Len(s)) = k
        BY <2>1
      <3> QED BY <3>1, <3>2, <3>3
    <2>3. \A k \in 1 .. Len(s) : k \in DOMAIN u
      BY <2>1
    <2>4. \A k \in 1 .. Len(t) : Len(s) + k \in DOMAIN u
      BY <2>1
    <2>5. Elems(u) \subseteq Elems(s) \cup Elems(t)
      BY <2>1, <2>2 DEF Elems
    <2>6. Elems(s) \subseteq Elems(u) /\ Elems(t) \subseteq Elems(u)
      BY <2>1, <2>3, <2>4 DEF Elems
    <2> QED BY <2>1, <2>5, <2>6 DEF u
  <1>5. /\ Handed \o list_to_host \in Seq(Objects) /\ ToHost \in Seq(Objects)
        /\ Elems(ToHost) = (Elems(Handed) \cup Elems(list_to_host)) \cup Elems(Taken)
    <2> DEFINE u == Handed \o list_to_host
    <2>1. u \in Seq(Objects) /\ Elems(u) = Elems(Handed) \cup Elems(list_to_host)
      BY <1>1, <1>2, <1>4
    <2> HIDE DEF u
    <2>2. u \o Taken \in Seq(Objects) /\ Elems(u \o Taken) = Elems(u) \cup Elems(Taken)
      BY <1>2, <1>4, <2>1
    <2> QED BY <1>3, <2>1, <2>2 DEF u
  <1>6. DOMAIN ToHost = 1 .. Len(ToHost)
    BY <1>5
  <1> QED BY <1>1, <1>2, <1>3, <1>5, <1>6

(* No object outside these three parts is on its way to the host.          *)
LEMMA NotToHost ==
  ASSUME IInv, NEW o \in Objects, o \notin Elems(list_to_host), o # to_host_buf,
         pc \in {"echo", "rxQueue"} => o # frame_object
  PROVE  o \notin Elems(ToHost)
  <1>1. \A x : Elems(<<x>>) = {x}
    BY DEF Elems
  <1>2. Elems(<< >>) = {}
    BY DEF Elems
  <1>3. o \notin Elems(Handed) /\ o \notin Elems(Taken)
    BY <1>1, <1>2 DEF Handed, Taken
  <1> QED BY <1>3, ToHostParts

(* The same objects with the same contents are the same frames.            *)
LEMMA StreamStays ==
  ASSUME IInv, ToHost' = ToHost, \A o \in Elems(ToHost) : frame'[o] = frame[o]
  PROVE  Stream' = Stream
  <1>1. \A k \in 1 .. Len(ToHost) : ToHost[k] \in Elems(ToHost)
    BY ToHostParts DEF Elems
  <1> QED BY <1>1 DEF Stream, Contained

(* The frames in a list of objects.                                        *)
LEMMA ContainedType ==
  ASSUME NEW f \in [Objects -> Contents], NEW s \in Seq(Objects)
  PROVE  /\ Contained(f, s) \in Seq(Contents) /\ Len(Contained(f, s)) = Len(s)
         /\ \A k \in 1 .. Len(s) : Contained(f, s)[k] = f[s[k]]
  <1>1. Len(s) \in Nat /\ \A k \in 1 .. Len(s) : f[s[k]] \in Contents
    OBVIOUS
  <1> QED BY <1>1 DEF Contained

LEMMA StreamType ==
  ASSUME IInv
  PROVE  Counters(Stream, sent, echoed, delivered, arrived, rx_fifo)
  BY ContainedType, ToHostParts DEF Stream, Counters, IInv, TypeRest, TypeCan

(* Another object behind them is another frame.                            *)
LEMMA StreamGrows ==
  ASSUME IInv, NEW x \in Objects, ToHost' = Append(ToHost, x),
         frame' \in [Objects -> Contents],
         \A o \in Elems(ToHost) : frame'[o] = frame[o]
  PROVE  Stream' = Append(Stream, frame'[x])
  <1> DEFINE s == ToHost
             t == Append(s, x)
             u == Append(Stream, frame'[x])
  <1>1. /\ s \in Seq(Objects) /\ t \in Seq(Objects) /\ Len(t) = Len(s) + 1
        /\ Len(s) \in Nat
        /\ \A k \in 1 .. Len(s) : t[k] = s[k] /\ s[k] \in Elems(s)
        /\ t[Len(s) + 1] = x
    <2>1. s \in Seq(Objects) /\ DOMAIN s = 1 .. Len(s)
      BY ToHostParts
    <2>2. \A k \in 1 .. Len(s) : s[k] \in Elems(s)
      BY <2>1 DEF Elems
    <2> HIDE DEF s
    <2> QED BY <2>1, <2>2, AppendProperties
  <1>2. /\ Stream \in Seq(Contents) /\ Len(Stream) = Len(s)
        /\ \A k \in 1 .. Len(s) : Stream[k] = frame[s[k]]
    BY <1>1, ContainedType DEF Stream, IInv, TypeRest
  <1>3. /\ u \in Seq(Contents) /\ Len(u) = Len(s) + 1
        /\ \A k \in 1 .. Len(s) : u[k] = Stream[k]
        /\ u[Len(s) + 1] = frame'[x]
    BY <1>1, <1>2
  <1> HIDE DEF t, u
  <1> DEFINE v == Contained(frame', t)
  <1>4. /\ v \in Seq(Contents) /\ Len(v) = Len(t)
        /\ \A k \in 1 .. Len(t) : v[k] = frame'[t[k]]
    BY <1>1, ContainedType
  <1>5. Stream' = v
    BY DEF Stream, t
  <1> HIDE DEF v, s
  <1>6. \A k \in 1 .. Len(v) : v[k] = u[k]
    <2> TAKE k \in 1 .. Len(v)
    <2>1. CASE k \in 1 .. Len(s)
      <3>1. v[k] = frame'[s[k]]
        BY <1>1, <1>4, <2>1
      <3>2. u[k] = frame[s[k]]
        BY <1>2, <1>3, <2>1
      <3> QED BY <1>1, <2>1, <3>1, <3>2 DEF s
    <2>2. CASE k \notin 1 .. Len(s)
      <3>1. k = Len(s) + 1
        BY <1>1, <1>4, <2>2
      <3> QED BY <1>1, <1>3, <1>4, <3>1
    <2> QED BY <2>1, <2>2
  <1>7. v = u
    BY <1>1, <1>3, <1>4, <1>6, SeqEqual
  <1> QED BY <1>5, <1>7 DEF u

(* The object at the endpoint is the first frame.                          *)
LEMMA StreamShrinks ==
  ASSUME IInv, to_host_buf # NULL, ToHost' = Tail(ToHost), UNCHANGED frame
  PROVE  Stream # << >> /\ Stream' = Tail(Stream) /\ Stream[1] = frame[to_host_buf]
  <1> DEFINE s == ToHost
             t == Tail(s)
             u == Tail(Stream)
  <1>1. /\ s \in Seq(Objects) /\ s = (<<to_host_buf>> \o list_to_host) \o Taken
        /\ list_to_host \in Seq(Objects) /\ Taken \in Seq(Objects)
        /\ to_host_buf \in Objects
    BY ToHostParts DEF Handed, IInv, Own, TypeLists
  <1>2. s # << >> /\ s[1] = to_host_buf /\ Len(s) \in Nat \ {0}
    BY <1>1
  <1>3. /\ t \in Seq(Objects) /\ Len(t) = Len(s) - 1
        /\ \A k \in 1 .. Len(s) - 1 : t[k] = s[k + 1]
    BY <1>1, <1>2
  <1>4. frame \in [Objects -> Contents]
    BY DEF IInv, TypeRest
  <1>5. /\ Stream \in Seq(Contents) /\ Len(Stream) = Len(s)
        /\ \A k \in 1 .. Len(s) : Stream[k] = frame[s[k]]
    BY <1>1, <1>4, ContainedType DEF Stream
  <1> HIDE DEF s
  <1>6. Stream # << >> /\ Stream[1] = frame[to_host_buf]
    <2>1. 1 \in 1 .. Len(s)
      BY <1>2
    <2> QED BY <1>2, <1>5, <2>1
  <1>7. /\ u \in Seq(Contents) /\ Len(u) = Len(s) - 1
        /\ \A k \in 1 .. Len(s) - 1 : u[k] = Stream[k + 1]
    BY <1>2, <1>5, <1>6
  <1> HIDE DEF t, u
  <1> DEFINE v == Contained(frame, t)
  <1>8. /\ v \in Seq(Contents) /\ Len(v) = Len(t)
        /\ \A k \in 1 .. Len(t) : v[k] = frame[t[k]]
    BY <1>3, <1>4, ContainedType
  <1>9. Stream' = v
    BY DEF Stream, t, s
  <1> HIDE DEF v
  <1>10. \A k \in 1 .. Len(v) : v[k] = u[k]
    <2> TAKE k \in 1 .. Len(v)
    <2>1. k \in 1 .. Len(s) - 1 /\ k + 1 \in 1 .. Len(s)
      BY <1>2, <1>3, <1>8
    <2> QED BY <1>3, <1>5, <1>7, <1>8, <2>1
  <1>11. v = u
    BY <1>3, <1>7, <1>8, <1>10, SeqEqual
  <1> QED BY <1>6, <1>9, <1>11 DEF u

(* What the steps do to the parts is one of five things to the whole.      *)
LEMMA PartsStay ==
  ASSUME Handed' = Handed, Taken' = Taken, UNCHANGED list_to_host
  PROVE  ToHost' = ToHost
  BY DEF ToHost, Handed, Taken

LEMMA TakenToList ==
  ASSUME IInv, pc \in {"echo", "rxQueue"}, Handed' = Handed, Taken' = << >>,
         list_to_host' = AddTail(list_to_host, frame_object)
  PROVE  ToHost' = ToHost
  <1> DEFINE h == Handed
             q == list_to_host
  <1>1. /\ h \in Seq(Objects) /\ q \in Seq(Objects) /\ frame_object \in Objects
        /\ ToHost = (h \o q) \o <<frame_object>>
    BY ToHostParts DEF Taken, IInv, Own, TypeLists, InHand, Holding, NULL
  <1>2. ToHost' = (h \o Append(q, frame_object)) \o << >>
    BY DEF ToHost, Handed, Taken, AddTail
  <1> HIDE DEF h, q
  <1>3. Append(q, frame_object) = q \o <<frame_object>> /\ <<frame_object>> \in Seq(Objects)
    BY <1>1, AppendIsConcat
  <1>4. h \o (q \o <<frame_object>>) = (h \o q) \o <<frame_object>>
    BY <1>1, <1>3, ConcatAssociative
  <1>5. ToHost \in Seq(Objects)
    BY ToHostParts
  <1> QED BY <1>1, <1>2, <1>3, <1>4, <1>5, ConcatEmptySeq

LEMMA ListToHanded ==
  ASSUME IInv, to_host_buf = NULL, list_to_host # << >>, Taken' = Taken,
         to_host_buf' = Head(list_to_host), list_to_host' = Tail(list_to_host)
  PROVE  ToHost' = ToHost
  <1> DEFINE q == list_to_host
  <1>1. q \in Seq(Objects) /\ Taken \in Seq(Objects) /\ ToHost = (<< >> \o q) \o Taken
    BY ToHostParts DEF Handed
  <1>2. Head(q) \in Objects /\ Head(q) # NULL
    BY <1>1, HeadNotNull
  <1>3. ToHost' = (<<Head(q)>> \o Tail(q)) \o Taken
    BY <1>2 DEF ToHost, Taken
  <1> HIDE DEF q
  <1>4. << >> \o q = q
    BY <1>1, ConcatEmptySeq
  <1>5. <<Head(q)>> \o Tail(q) = q
    <2> DEFINE t == Tail(q)
               u == <<Head(q)>> \o t
    <2>1. q # << >>
      BY DEF q
    <2>2. /\ t \in Seq(Objects) /\ Len(t) = Len(q) - 1 /\ Len(q) \in Nat \ {0}
          /\ \A k \in 1 .. Len(q) - 1 : t[k] = q[k + 1]
      BY <1>1, <2>1
    <2> HIDE DEF t
    <2>3. /\ u \in Seq(Objects) /\ Len(u) = 1 + Len(t)
          /\ \A k \in 1 .. 1 + Len(t) : u[k] = IF k = 1 THEN Head(q) ELSE t[k - 1]
      BY <1>2, <2>2
    <2> HIDE DEF u
    <2>4. \A k \in 1 .. Len(u) : u[k] = q[k]
      <3> TAKE k \in 1 .. Len(u)
      <3>1. CASE k = 1
        BY <1>1, <2>1, <2>3, <3>1
      <3>2. CASE k # 1
        <4>1. k - 1 \in 1 .. Len(q) - 1 /\ (k - 1) + 1 = k
          BY <2>2, <2>3, <3>2
        <4>2. t[k - 1] = q[(k - 1) + 1]
          BY <2>2, <4>1
        <4> QED BY <2>3, <3>2, <4>1, <4>2
      <3> QED BY <3>1, <3>2
    <2>5. Len(u) = Len(q)
      BY <2>2, <2>3
    <2> QED BY <1>1, <2>3, <2>4, <2>5, SeqEqual DEF u, t
  <1> QED BY <1>1, <1>3, <1>4, <1>5 DEF q

LEMMA TakenIsNew ==
  ASSUME IInv, NEW x \in Objects, Handed' = Handed, UNCHANGED list_to_host,
         Taken = << >>, Taken' = <<x>>
  PROVE  ToHost' = Append(ToHost, x)
  <1> DEFINE p == Handed \o list_to_host
  <1>1. p \in Seq(Objects) /\ ToHost = p \o << >> /\ ToHost' = p \o <<x>>
    BY ToHostParts, ConcatProperties DEF ToHost, Handed, Taken
  <1> HIDE DEF p
  <1> QED BY <1>1, ConcatEmptySeq, AppendIsConcat

LEMMA ListGrows ==
  ASSUME IInv, NEW x \in Objects, Handed' = Handed, Taken = << >>, Taken' = << >>,
         list_to_host' = AddTail(list_to_host, x)
  PROVE  ToHost' = Append(ToHost, x)
  <1> DEFINE h == Handed
             q == list_to_host
  <1>1. /\ h \in Seq(Objects) /\ q \in Seq(Objects) /\ <<x>> \in Seq(Objects)
        /\ ToHost = (h \o q) \o << >>
        /\ ToHost' = (h \o Append(q, x)) \o << >>
    <2>1. /\ h \in Seq(Objects) /\ q \in Seq(Objects) /\ <<x>> \in Seq(Objects)
          /\ ToHost = (h \o q) \o << >>
      BY ToHostParts
    <2>2. ToHost' = (h \o Append(q, x)) \o << >>
      BY DEF ToHost, Handed, Taken, AddTail
    <2> QED BY <2>1, <2>2
  <1> HIDE DEF h, q
  <1>2. h \o q \in Seq(Objects) /\ h \o Append(q, x) \in Seq(Objects)
    BY <1>1, ConcatProperties, AppendProperties
  <1>3. ToHost = h \o q /\ ToHost' = h \o Append(q, x)
    BY <1>1, <1>2, ConcatEmptySeq
  <1>4. Append(q, x) = q \o <<x>> /\ Append(h \o q, x) = (h \o q) \o <<x>>
    BY <1>1, <1>2, AppendIsConcat
  <1>5. h \o (q \o <<x>>) = (h \o q) \o <<x>>
    BY <1>1, ConcatAssociative
  <1> QED BY <1>3, <1>4, <1>5

LEMMA HandedLeaves ==
  ASSUME IInv, to_host_buf # NULL, to_host_buf' = NULL, Taken' = Taken,
         UNCHANGED list_to_host
  PROVE  ToHost' = Tail(ToHost)
  <1> DEFINE b == to_host_buf
             q == list_to_host
             p == <<b>> \o q
  <1>1. /\ b \in Objects /\ q \in Seq(Objects) /\ Taken \in Seq(Objects)
        /\ ToHost = p \o Taken
    BY ToHostParts DEF Handed, IInv, Own, TypeLists
  <1>2. ToHost' = (<< >> \o q) \o Taken
    BY DEF ToHost, Taken
  <1> HIDE DEF b, q
  <1>3. << >> \o q = q /\ <<b>> \in Seq(Objects)
    BY <1>1, ConcatEmptySeq
  <1>4. (<<b>> \o q) \o Taken = <<b>> \o (q \o Taken)
    BY <1>1, <1>3, ConcatAssociative
  <1> DEFINE r == q \o Taken
             u == <<b>> \o r
  <1>5. r \in Seq(Objects)
    BY <1>1, ConcatProperties
  <1> HIDE DEF r
  <1>6. /\ u \in Seq(Objects) /\ Len(u) = 1 + Len(r) /\ Len(r) \in Nat
        /\ \A k \in 1 .. 1 + Len(r) : u[k] = IF k = 1 THEN b ELSE r[k - 1]
    BY <1>1, <1>5
  <1> HIDE DEF u
  <1>7. /\ Tail(u) \in Seq(Objects) /\ Len(Tail(u)) = Len(r)
        /\ \A k \in 1 .. Len(r) : Tail(u)[k] = u[k + 1]
    BY <1>6
  <1>8. \A k \in 1 .. Len(r) : Tail(u)[k] = r[k]
    <2> TAKE k \in 1 .. Len(r)
    <2>1. k + 1 \in 1 .. 1 + Len(r) /\ k + 1 # 1 /\ (k + 1) - 1 = k
      BY <1>6
    <2> QED BY <1>6, <1>7, <2>1
  <1>9. Tail(u) = r
    BY <1>5, <1>7, <1>8, SeqEqual
  <1> QED BY <1>1, <1>2, <1>3, <1>4, <1>9 DEF u, r

(* Without a suspend no step comes to drop a frame.                        *)
LEMMA QuietStep ==
  ASSUME [Next]_vars, "suspend" \notin Events, ~is_usb_suspend_cb, pc # "drop"
  PROVE  ~is_usb_suspend_cb' /\ pc' # "drop"
  <1>1. UNCHANGED is_usb_suspend_cb \/ ~is_usb_suspend_cb'
    BY Zenon DEF Next, MainLoop, UsbInterrupt, Bus, Stopped, vars, dev, SendTake,
       CanSend, SendRequeue, SendEcho, Refill, Arm, Pick, Check, Transmit, Drop, RxPoll,
       RxTake, RxRead, RxQueue, RxReturn, ErrPoll, ErrTake, ErrQueue, DfuPoll, DataIn,
       DataOut, DataOutBad, DataOutNull, ModeStart, ModeReset, Suspend, Resume,
       BusReset, SetConfiguration, DfuDetach, BusTxDone, BusArrive, BusError
  <1>2. pc' # "drop"
    BY DEF Next, MainLoop, UsbInterrupt, Bus, Stopped, vars, main, Goto, NextChannel,
       SendTake, CanSend, SendRequeue, SendEcho, Refill, Arm, Pick, Check, Transmit, Drop,
       RxPoll, RxTake, RxRead, RxQueue, RxReturn, ErrPoll, ErrTake, ErrQueue, DfuPoll,
       DataIn, DataOut, DataOutBad, DataOutNull, ModeStart, ModeReset, Suspend, Resume,
       BusReset, SetConfiguration, DfuDetach, BusTxDone, BusArrive, BusError
  <1> QED BY <1>1, <1>2

-----------------------------------------------------------------------------
(* The invariant of the traffic to the host.                               *)
TrafficInv ==
  /\ InOrder(Stream, sent, echoed, delivered, arrived, rx_fifo)
  /\ "suspend" \notin Events => /\ ~is_usb_suspend_cb /\ pc # "drop"
                                /\ Complete(Stream, sent, echoed)

(* Steps that leave the frames and the counters alone.                     *)
LEMMA TrafficStays ==
  ASSUME IInv, TrafficInv, ToHost' = ToHost, \A o \in Elems(ToHost) : frame'[o] = frame[o],
         UNCHANGED <<sent, echoed, delivered, arrived>>,
         \A c \in Channels : rx_fifo'[c] \in {rx_fifo[c], << >>},
         "suspend" \notin Events /\ ~is_usb_suspend_cb /\ pc # "drop" =>
           ~is_usb_suspend_cb' /\ pc' # "drop"
  PROVE  TrafficInv'
  <1>1. Stream' = Stream
    BY StreamStays
  <1>2. InOrder(Stream, sent, echoed, delivered, arrived, rx_fifo')
    BY ClearKeepsOrder DEF TrafficInv
  <1> QED BY <1>1, <1>2 DEF TrafficInv

(* Every step keeps the traffic to the host in order.                      *)
LEMMA TrafficStep ==
  ASSUME IInv, [Next]_vars, \A c \in Channels : FromHost(c), TrafficInv
  PROVE  TrafficInv'
  <1>0. /\ i \in Channels /\ frame \in [Objects -> Contents]
        /\ list_to_host \in Seq(Objects)
        /\ frame' \in [Objects -> Contents]
        /\ Counters(Stream, sent, echoed, delivered, arrived, rx_fifo)
        /\ InOrder(Stream, sent, echoed, delivered, arrived, rx_fifo)
        /\ Stream \in Seq(Contents)
    BY RestStep, StreamType DEF IInv, Own, TypeLists, TypeRest, TrafficInv, Counters
  <1>h. pc \in Holding => frame_object \in Objects
    BY DEF IInv, InHand, Own, TypeLists, NULL
  <1>e. Elems(ToHost) \subseteq Objects
    BY ToHostParts DEF Elems
  <1>f. ASSUME NEW o \in Objects, o \notin Elems(ToHost), NEW g,
               frame' = [frame EXCEPT ![o] = g]
        PROVE  \A x \in Elems(ToHost) : frame'[x] = frame[x]
    BY <1>0, <1>e, <1>f
  <1>1. CASE SendTake
    <2>1. /\ UNCHANGED <<frame, sent, echoed, delivered, arrived, rx_fifo,
                         list_to_host, is_usb_suspend_cb>>
          /\ Handed' = Handed /\ Taken' = << >> /\ Taken = << >>
          /\ pc' \in {"send", "load", "refill"}
      BY <1>1 DEF SendTake, At, Goto, NextChannel, Handed, Taken, lists, bufs, dev,
         can, ghost
    <2> QED BY <2>1, PartsStay, TrafficStays
  <1>2. CASE CanSend
    <2>1. /\ UNCHANGED <<frame, frame_object, echoed, delivered, arrived, rx_fifo,
                         list_to_host, is_usb_suspend_cb>>
          /\ Handed' = Handed /\ Taken = << >> /\ pc \in Holding
      BY <1>2 DEF CanSend, At, Handed, Taken, lists, bufs, dev, Holding
    <2>2. CASE pc' = "requeue"
      <3>1. Taken' = << >> /\ UNCHANGED sent
        BY <1>2, <2>2 DEF CanSend, Goto, Taken
      <3> QED BY <2>1, <2>2, <3>1, PartsStay, TrafficStays
    <2>3. CASE pc' = "echo"
      <3>1. Taken' = <<frame_object>> /\ sent' = [sent EXCEPT ![i] = @ + 1]
        BY <1>2, <2>1, <2>3 DEF CanSend, Goto, Taken
      <3>2. ToHost' = Append(ToHost, frame_object)
        BY <1>h, <2>1, <3>1, TakenIsNew
      <3>3. frame[frame_object] = HostFrame(i, sent[i] + 1)
        BY <1>0, <1>2 DEF CanSend, At, FromHost, Ahead
      <3>4. Stream' = Append(Stream, HostFrame(i, sent[i] + 1))
        BY <1>0, <1>h, <2>1, <3>2, <3>3, StreamGrows
      <3>5. InOrder(Stream', sent', echoed, delivered, arrived, rx_fifo)
        BY <1>0, <3>1, <3>4, LoadKeepsOrder
      <3>6. Complete(Stream, sent, echoed) => Complete(Stream', sent', echoed)
        BY <1>0, <3>1, <3>4, LoadKeepsComplete DEF Counters
      <3> QED BY <2>1, <2>3, <3>5, <3>6 DEF TrafficInv
    <2> QED BY <1>2, <2>2, <2>3 DEF CanSend, Goto
  <1>3. CASE SendRequeue
    <2>1. /\ UNCHANGED <<frame, sent, echoed, delivered, arrived, rx_fifo,
                         list_to_host, is_usb_suspend_cb>>
          /\ Handed' = Handed /\ Taken' = << >> /\ Taken = << >>
          /\ pc' \in {"send", "refill"}
      BY <1>3 DEF SendRequeue, At, NextChannel, Handed, Taken, bufs, dev, can, ghost
    <2> QED BY <2>1, PartsStay, TrafficStays
  <1>4. CASE SendEcho \/ RxQueue
    <2>1. /\ UNCHANGED <<frame, sent, echoed, delivered, arrived, rx_fifo,
                         is_usb_suspend_cb>>
          /\ Handed' = Handed /\ Taken' = << >> /\ pc \in {"echo", "rxQueue"}
          /\ list_to_host' = AddTail(list_to_host, frame_object)
          /\ pc' \in {"send", "refill", "errPoll"}
      BY <1>4 DEF SendEcho, RxQueue, At, Goto, NextChannel, Handed, Taken, bufs, dev,
         can, ghost
    <2> QED BY <2>1, TakenToList, TrafficStays
  <1>5. CASE Pick
    <2>1. /\ UNCHANGED <<frame, sent, echoed, delivered, arrived, rx_fifo,
                         is_usb_suspend_cb>>
          /\ Taken' = << >> /\ Taken = << >> /\ pc' # "drop"
      BY <1>5 DEF Pick, At, Goto, Taken, dev, can, ghost
    <2>2. CASE UNCHANGED <<to_host_buf, list_to_host>>
      BY <2>1, <2>2, PartsStay, TrafficStays DEF Handed
    <2>3. CASE /\ to_host_buf = NULL /\ list_to_host # << >>
               /\ to_host_buf' = Head(list_to_host)
               /\ list_to_host' = Tail(list_to_host)
      BY <2>1, <2>3, ListToHanded, TrafficStays
    <2> QED BY <1>5, <2>2, <2>3 DEF Pick, lists
  <1>6. CASE Drop
    <2>1. /\ UNCHANGED <<frame, sent, echoed, delivered, arrived, rx_fifo,
                         list_to_host, is_usb_suspend_cb>>
          /\ Taken' = << >> /\ Taken = << >> /\ pc = "drop"
          /\ to_host_buf # NULL /\ to_host_buf' = NULL
      BY <1>6 DEF Drop, At, Goto, Taken, dev, can, ghost, IInv, InHand
    <2>2. Stream # << >> /\ Stream' = Tail(Stream)
      BY <2>1, HandedLeaves, StreamShrinks
    <2>3. InOrder(Stream', sent, echoed, delivered, arrived, rx_fifo)
      BY <1>0, <2>2, LeaveKeepsOrder
    <2> QED BY <2>1, <2>3 DEF TrafficInv
  <1>7. CASE RxRead
    <2>1. /\ UNCHANGED <<frame_object, sent, echoed, delivered, arrived,
                         list_to_host, is_usb_suspend_cb>>
          /\ Handed' = Handed /\ Taken = << >> /\ pc \in Holding
      BY <1>7 DEF RxRead, At, Handed, Taken, lists, bufs, dev, ghost, Holding
    <2>2. CASE pc' = "rxReturn"
      <3>1. Taken' = << >> /\ UNCHANGED <<frame, rx_fifo>>
        BY <1>7, <2>2 DEF RxRead, Goto, Taken
      <3> QED BY <2>1, <2>2, <3>1, PartsStay, TrafficStays
    <2>3. CASE pc' = "rxQueue"
      <3> DEFINE g == [kind |-> "bus", channel |-> i, nr |-> Head(rx_fifo[i])]
      <3>1. /\ Taken' = <<frame_object>> /\ rx_fifo[i] # << >>
            /\ rx_fifo' = [rx_fifo EXCEPT ![i] = Tail(@)]
            /\ frame' = [frame EXCEPT ![frame_object] = g]
        BY <1>7, <2>1, <2>3 DEF RxRead, Goto, Taken
      <3>2. frame_object \in Objects /\ frame_object \notin Elems(ToHost)
        <4>1. pc = "rxRead" /\ frame_object \in Objects /\ frame_object # NULL
          BY <1>7, <1>h, <2>1 DEF RxRead, At, IInv, InHand
        <4>2. frame_object \notin Elems(list_to_host) /\ frame_object # to_host_buf
          BY <4>1 DEF IInv, Own, OneOwner, Lent
        <4> QED BY <4>1, <4>2, NotToHost
      <3>3. \A x \in Elems(ToHost) : frame'[x] = frame[x]
        BY <1>f, <3>1, <3>2
      <3>4. frame'[frame_object] = g
        BY <1>0, <3>1, <3>2
      <3> HIDE DEF g
      <3>5. Stream' = Append(Stream, g)
        BY <1>0, <2>1, <3>1, <3>2, <3>3, <3>4, TakenIsNew, StreamGrows
      <3>6. InOrder(Stream', sent, echoed, delivered, arrived, rx_fifo')
        BY <1>0, <3>1, <3>5, ReadKeepsOrder DEF g
      <3>7. g \in Contents
        BY <1>0, <3>2, <3>4
      <3>8. Complete(Stream, sent, echoed) => Complete(Stream', sent, echoed)
        BY <1>0, <3>5, <3>7, GrowKeepsComplete
      <3> QED BY <2>1, <2>3, <3>6, <3>8 DEF TrafficInv
    <2> QED BY <1>7, <2>2, <2>3 DEF RxRead, Goto
  <1>8. CASE ErrQueue
    <2> DEFINE g == [kind |-> "err", channel |-> i, nr |-> 0]
    <2>1. /\ UNCHANGED <<sent, echoed, delivered, arrived, rx_fifo, is_usb_suspend_cb>>
          /\ Handed' = Handed /\ Taken = << >> /\ Taken' = << >> /\ pc = "errQueue"
          /\ frame' = [frame EXCEPT ![frame_object] = g]
          /\ pc' \in {"rxPoll", "dfu"}
      BY <1>8 DEF ErrQueue, At, NextChannel, Handed, Taken, bufs, dev, can, ghost
    <2>2. frame_object \in Objects /\ frame_object \notin Elems(ToHost)
      <3>1. frame_object \in Objects /\ frame_object # NULL
        BY <1>h, <2>1 DEF Holding, IInv, InHand
      <3>2. frame_object \notin Elems(list_to_host) /\ frame_object # to_host_buf
        BY <3>1 DEF IInv, Own, OneOwner, Lent
      <3> QED BY <2>1, <3>1, <3>2, NotToHost
    <2>3. \A x \in Elems(ToHost) : frame'[x] = frame[x]
      BY <1>f, <2>1, <2>2
    <2>4. frame'[frame_object] = g /\ g.kind = "err"
      BY <1>0, <2>1, <2>2
    <2> HIDE DEF g
    <2>5. CASE UNCHANGED list_to_host
      BY <2>1, <2>3, <2>5, PartsStay, TrafficStays
    <2>6. CASE list_to_host' = AddTail(list_to_host, frame_object)
      <3>1. Stream' = Append(Stream, g)
        BY <1>0, <2>1, <2>2, <2>3, <2>4, <2>6, ListGrows, StreamGrows
      <3>2. g \in Contents
        BY <1>0, <2>2, <2>4
      <3>3. InOrder(Stream', sent, echoed, delivered, arrived, rx_fifo)
        BY <1>0, <2>4, <3>1, <3>2, ErrorKeepsOrder
      <3>4. Complete(Stream, sent, echoed) => Complete(Stream', sent, echoed)
        BY <1>0, <3>1, <3>2, GrowKeepsComplete
      <3> QED BY <2>1, <3>3, <3>4 DEF TrafficInv
    <2> QED BY <1>8, <2>5, <2>6 DEF ErrQueue
  <1>9. CASE DataIn
    <2>1. /\ UNCHANGED <<frame, sent, arrived, rx_fifo, list_to_host, is_usb_suspend_cb, pc>>
          /\ Taken' = Taken /\ to_host_buf # NULL /\ to_host_buf' = NULL
      BY <1>9 DEF DataIn, Taken, main, dev, can, IInv, EndpointBuffers
    <2>2. /\ Stream # << >> /\ Stream' = Tail(Stream)
          /\ Stream[1] = frame[to_host_buf]
      BY <2>1, HandedLeaves, StreamShrinks
    <2> DEFINE f == Stream[1]
    <2>3. /\ echoed' = IF f.kind = "host" THEN [echoed EXCEPT ![f.channel] = Append(@, f.nr)]
                       ELSE echoed
          /\ delivered' = IF f.kind = "bus" THEN [delivered EXCEPT ![f.channel] = f.nr]
                          ELSE delivered
      BY <1>9, <2>2 DEF DataIn
    <2>4. InOrder(Tail(Stream), sent, echoed', delivered', arrived, rx_fifo)
      <3>1. \/ echoed' = echoed
            \/ f.kind = "host" /\ echoed' = [echoed EXCEPT ![f.channel] = Append(@, f.nr)]
        BY <2>3
      <3>2. \/ delivered' = delivered
            \/ f.kind = "bus" /\ delivered' = [delivered EXCEPT ![f.channel] = f.nr]
        BY <2>3
      <3> QED BY <1>0, <2>2, <3>1, <3>2, LeaveKeepsOrder
    <2>5. Complete(Stream, sent, echoed) => Complete(Tail(Stream), sent, echoed')
      BY <1>0, <2>2, <2>3, LeaveKeepsComplete
    <2> QED BY <2>1, <2>2, <2>4, <2>5 DEF TrafficInv
  <1>10. CASE (\E c \in Channels : DataOut(c)) \/ DataOutBad
    <2>1. /\ UNCHANGED <<sent, echoed, delivered, arrived, rx_fifo, list_to_host,
                         is_usb_suspend_cb, pc>>
          /\ Handed' = Handed /\ Taken' = Taken
          /\ out_ep.armed /\ out_ep.buf # NULL
      BY <1>10 DEF DataOut, DataOutBad, Handed, Taken, lists, bufs, main, dev, can, ghost
    <2> DEFINE b == from_host_buf
    <2>2. /\ b \in Objects /\ b # NULL /\ out_ep.buf = b
          /\ b \notin Elems(list_to_host) /\ b # to_host_buf /\ b # frame_object
      BY <2>1 DEF IInv, EndpointBuffers, Own, TypeLists, OneOwner, Lent
    <2>3. b \notin Elems(ToHost)
      BY <2>2, NotToHost
    <2>4. PICK g : frame' = [frame EXCEPT ![b] = g]
      BY <1>10, <2>2 DEF DataOut, DataOutBad
    <2>5. \A x \in Elems(ToHost) : frame'[x] = frame[x]
      BY <1>f, <2>2, <2>3, <2>4
    <2> QED BY <2>1, <2>5, PartsStay, TrafficStays
  <1>11. ASSUME NEW c \in Channels, BusArrive(c) PROVE TrafficInv'
    <2>1. /\ UNCHANGED <<frame, sent, echoed, delivered, list_to_host,
                         is_usb_suspend_cb, pc>>
          /\ Handed' = Handed /\ Taken' = Taken
          /\ arrived' = [arrived EXCEPT ![c] = @ + 1]
          /\ rx_fifo' = [rx_fifo EXCEPT ![c] = Append(@, arrived[c] + 1)]
      BY <1>11 DEF BusArrive, Handed, Taken, lists, bufs, main, dev
    <2>2. Stream' = Stream
      BY <2>1, PartsStay, StreamStays
    <2>3. InOrder(Stream, sent, echoed, delivered, arrived', rx_fifo')
      BY <1>0, <2>1, ArriveKeepsOrder
    <2> QED BY <2>1, <2>2, <2>3 DEF TrafficInv
  <1>12. CASE Elsewhere
    <2>1. /\ UNCHANGED <<frame, sent, echoed, delivered, arrived, list_to_host>>
          /\ Handed' = Handed /\ Taken' = Taken
          /\ \A c \in Channels : rx_fifo'[c] \in {rx_fifo[c], << >>}
      BY <1>12 DEF Elsewhere, Moving, Handed, Taken, ghost
    <2> QED BY <2>1, PartsStay, TrafficStays, QuietStep
  <1> QED BY <1>1, <1>2, <1>3, <1>4, <1>5, <1>6, <1>7, <1>8, <1>9, <1>10, <1>11,
            <1>12, CarryOrElsewhere DEF Carry

(* The invariant says what ToHostInOrder says.                             *)
LEMMA StreamOrder ==
  ASSUME IInv, TrafficInv
  PROVE  ToHostInOrder
  <1>1. /\ DOMAIN ToHost = 1 .. Len(ToHost) /\ ToHost \in Seq(Objects)
        /\ frame \in [Objects -> Contents]
    BY ToHostParts DEF IInv, TypeRest
  <1>2. /\ Len(Stream) = Len(ToHost)
        /\ \A k \in 1 .. Len(ToHost) : Stream[k] = frame[ToHost[k]]
    BY <1>1, ContainedType DEF Stream
  <1>3. \A k \in 1 .. Len(ToHost) : frame[ToHost[k]].channel \in Channels
    BY <1>1 DEF Contents
  <1>4. \A c \in Channels : DOMAIN echoed[c] = 1 .. Len(echoed[c])
    BY DEF IInv, TypeCan
  <1>5. \A k \in 1 .. Len(ToHost) : Timely(frame[ToHost[k]], sent, echoed, delivered, arrived)
    BY <1>2 DEF TrafficInv, InOrder
  <1>6. \A j, k \in 1 .. Len(ToHost) : j < k => Before(frame[ToHost[j]], frame[ToHost[k]])
    BY <1>2 DEF TrafficInv, InOrder
  <1>7. ASSUME NEW j \in 1 .. Len(ToHost), NEW k \in 1 .. Len(ToHost)
        PROVE  LET f == frame[ToHost[j]]
                   g == frame[ToHost[k]]
               IN  /\ f.kind # "none"
                   /\ f.kind = "host" => /\ f.nr <= sent[f.channel]
                                         /\ \A n \in DOMAIN echoed[f.channel] :
                                              echoed[f.channel][n] < f.nr
                   /\ f.kind = "bus" =>
                        f.nr \in delivered[f.channel] + 1 .. arrived[f.channel]
                   /\ j < k /\ f.kind = g.kind /\ f.kind # "err" /\ f.channel = g.channel
                        => f.nr < g.nr
    <2> DEFINE f == frame[ToHost[j]]
               g == frame[ToHost[k]]
    <2>1. Timely(f, sent, echoed, delivered, arrived) /\ (j < k => Before(f, g))
      BY <1>5, <1>6
    <2>2. f.channel \in Channels /\ sent[f.channel] \in Nat
      BY <1>3 DEF IInv, TypeCan
    <2> HIDE DEF f, g
    <2>3. f.kind = "host" => f.nr <= sent[f.channel]
      BY <2>1, <2>2 DEF Timely
    <2>4. /\ f.kind # "none"
          /\ f.kind = "host" => /\ f.nr <= sent[f.channel]
                                /\ \A n \in DOMAIN echoed[f.channel] :
                                     echoed[f.channel][n] < f.nr
          /\ f.kind = "bus" => f.nr \in delivered[f.channel] + 1 .. arrived[f.channel]
          /\ j < k /\ f.kind = g.kind /\ f.kind # "err" /\ f.channel = g.channel
               => f.nr < g.nr
      BY <1>4, <2>1, <2>2, <2>3 DEF Timely, Before
    <2> QED BY <2>4 DEF f, g
  <1> QED BY <1>1, <1>7 DEF ToHostInOrder

(* main() starts with nothing on its way.                                  *)
LEMMA TrafficInit == Init => TrafficInv
  <1> SUFFICES ASSUME Init PROVE TrafficInv
    OBVIOUS
  <1>1. ToHost = << >>
    <2>1. ToHost = (<< >> \o << >>) \o << >>
      BY DEF Init, ToHost
    <2> QED BY <2>1
  <1>2. Stream = << >>
    BY <1>1 DEF Stream, Contained
  <1>3. InOrder(Stream, sent, echoed, delivered, arrived, rx_fifo)
    BY <1>2 DEF Init, InOrder, Arriving
  <1>4. Complete(Stream, sent, echoed)
    BY DEF Init, Complete, Newest
  <1> QED BY <1>3, <1>4 DEF Init, TrafficInv

(* All three invariants together.                                          *)
OrderInv == IInv /\ (\A c \in Channels : FromHost(c)) /\ TrafficInv

LEMMA OrderInvariance == Spec => []OrderInv
  <1>1. OrderInv /\ [Next]_vars => OrderInv'
    BY OwnStep, RestStep, CanStep, HandStep, FromHostStep, TrafficStep DEF OrderInv, IInv
  <1>2. Init => OrderInv
    BY InitIInv, FromHostInit, TrafficInit DEF OrderInv
  <1> QED BY <1>1, <1>2, PTL DEF Spec

(* Echoes and received frames go to the host in order, each after it was   *)
(* sent or received and none twice.                                        *)
THEOREM HostReadsInOrder == Spec => []ToHostInOrder
  <1>1. OrderInv => ToHostInOrder
    BY StreamOrder DEF OrderInv
  <1> QED BY <1>1, OrderInvariance, PTL

-----------------------------------------------------------------------------
(* GsCan implements EchoProtocol: the ghost counters are its variables.    *)

LEMMA EchoInit == Init => Echo!Init
  BY DEF Init, Echo!Init

(* Each step submits a frame, loads one, returns an echo or does nothing   *)
(* that the protocol knows of.                                             *)
LEMMA EchoStep ==
  ASSUME OrderInv, [Next]_vars
  PROVE  [Echo!Next]_Echo!vars
  <1> USE DEF OrderInv
  <1>0. /\ i \in Channels
        /\ Counters(Stream, sent, echoed, delivered, arrived, rx_fifo)
        /\ InOrder(Stream, sent, echoed, delivered, arrived, rx_fifo)
    BY StreamType DEF IInv, TypeRest, TrafficInv
  <1>1. CASE UNCHANGED <<submitted, sent, echoed>>
    BY <1>1 DEF Echo!vars
  <1>2. ASSUME NEW c \in Channels, DataOut(c) PROVE Echo!Next
    <2>1. Echo!Submit(c)
      BY <1>2 DEF DataOut, Echo!Submit
    <2> QED BY <2>1 DEF Echo!Next
  <1>3. CASE CanSend /\ pc' = "echo"
    <2>1. /\ sent' = [sent EXCEPT ![i] = @ + 1] /\ UNCHANGED <<submitted, echoed>>
          /\ Ahead(i) = 1
      BY <1>3 DEF CanSend, At, Goto, Ahead
    <2>2. sent[i] < submitted[i]
      <3>1. Len(list_from_host[i]) + 1 = submitted[i] - sent[i]
        BY <1>0, <2>1 DEF FromHost
      <3>2. /\ Len(list_from_host[i]) \in Nat /\ submitted[i] \in Nat /\ sent[i] \in Nat
        BY <1>0 DEF IInv, Own, TypeLists, TypeCan
      <3> QED BY <3>1, <3>2
    <2>3. Echo!Load(i)
      BY <2>1, <2>2 DEF Echo!Load
    <2> QED BY <1>0, <2>3 DEF Echo!Next
  <1>4. CASE DataIn /\ frame[to_host_buf].kind = "host"
    <2> DEFINE f == frame[to_host_buf]
               c == f.channel
    <2>1. /\ echoed' = [echoed EXCEPT ![c] = Append(@, f.nr)]
          /\ UNCHANGED <<submitted, sent>> /\ to_host_buf # NULL
      BY <1>4 DEF DataIn, IInv, EndpointBuffers
    <2>2. Stream # << >> /\ f = Stream[1]
      <3>1. UNCHANGED <<frame, list_to_host>> /\ to_host_buf' = NULL /\ Taken' = Taken
        BY <1>4 DEF DataIn, Taken, main
      <3> QED BY <2>1, <3>1, HandedLeaves, StreamShrinks
    <2>3. f \in Contents /\ Timely(f, sent, echoed, delivered, arrived)
      <3>1. Stream \in Seq(Contents) /\ 1 \in 1 .. Len(Stream)
        BY <1>0, <2>2 DEF Counters
      <3> QED BY <1>0, <2>2, <3>1 DEF InOrder
    <2> HIDE DEF f
    <2>4. /\ c \in Channels /\ f.nr \in Nat /\ echoed[c] \in Seq(Nat) /\ sent[c] \in Nat
          /\ f.nr \in 1 .. sent[c] /\ f.kind = "host"
          /\ \A n \in 1 .. Len(echoed[c]) : echoed[c][n] < f.nr
      BY <1>0, <1>4, <2>3 DEF Contents, Counters, Timely, f
    <2>5. Echo!Last(c) = Newest(echoed[c])
      BY DEF Echo!Last, Newest
    <2>6. Newest(echoed[c]) \in Nat /\ Newest(echoed[c]) < f.nr
      <3>1. CASE echoed[c] = << >>
        BY <2>4, <3>1 DEF Newest
      <3>2. CASE echoed[c] # << >>
        BY <2>4, <3>2, NewestType
      <3> QED BY <3>1, <3>2
    <2>7. f.nr \in Echo!Last(c) + 1 .. sent[c]
      BY <2>4, <2>5, <2>6
    <2>8. "suspend" \in Events \/ f.nr = Echo!Last(c) + 1
      <3>1. ASSUME "suspend" \notin Events PROVE f.nr = Newest(echoed[c]) + 1
        <4>1. Complete(Stream, sent, echoed)
          BY <3>1 DEF TrafficInv
        <4> QED BY <1>0, <2>2, <2>4, <4>1, LeaveKeepsComplete
      <3> QED BY <2>5, <3>1
    <2>9. Echo!Return(c)
      BY <2>1, <2>7, <2>8 DEF Echo!Return
    <2> QED BY <2>4, <2>9 DEF Echo!Next
  <1>5. CASE DataIn /\ frame[to_host_buf].kind # "host"
    BY <1>1, <1>5 DEF DataIn
  <1>6. CASE CanSend /\ pc' # "echo"
    BY <1>1, <1>6 DEF CanSend, Goto
  <1>7. CASE \/ SendTake \/ SendRequeue \/ SendEcho \/ Pick \/ Drop \/ RxRead \/ RxQueue
             \/ ErrQueue \/ DataOutBad \/ Elsewhere
    BY <1>1, <1>7 DEF SendTake, SendRequeue, SendEcho, Pick, Drop, RxRead, RxQueue,
       ErrQueue, DataOutBad, Elsewhere, ghost
  <1>8. ASSUME NEW c \in Channels, BusArrive(c) PROVE [Echo!Next]_Echo!vars
    BY <1>1, <1>8 DEF BusArrive
  <1> QED BY <1>2, <1>3, <1>4, <1>5, <1>6, <1>7, <1>8, CarryOrElsewhere DEF Carry

(* What the host can rely on: every step of the frame path is a step of    *)
(* the echo protocol or one that the host cannot see.                      *)
THEOREM ImplementsEcho == Spec => EchoSpec
  <1>1. OrderInv /\ [Next]_vars => [Echo!Next]_Echo!vars
    BY EchoStep
  <1> QED BY <1>1, EchoInit, OrderInvariance, PTL DEF Spec, EchoSpec, Echo!Spec

=============================================================================
