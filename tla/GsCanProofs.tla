---------------------------- MODULE GsCanProofs ----------------------------
(***************************************************************************)
(* Theorems about GsCan, for every number of frame objects and channels    *)
(* and every set of events.                                                *)
(***************************************************************************)
EXTENDS GsCan, TLAPS

(* What the list operations do to the elements of a list and to its having *)
(* no duplicates.                                                          *)

(* list_add_tail adds exactly the new object.                              *)
LEMMA AddTailElems ==
  ASSUME NEW S, NEW s \in Seq(S), NEW x \in S
  PROVE  /\ AddTail(s, x) \in Seq(S)
         /\ Elems(AddTail(s, x)) = Elems(s) \cup {x}
         /\ NoDup(s) /\ x \notin Elems(s) => NoDup(AddTail(s, x))
  <1>1. AddTail(s, x) \in Seq(S) /\ Len(AddTail(s, x)) = Len(s) + 1
    BY DEF AddTail
  <1>2. \A k \in 1 .. Len(s) + 1 :
          AddTail(s, x)[k] = IF k <= Len(s) THEN s[k] ELSE x
    BY DEF AddTail
  <1>3. DOMAIN s = 1 .. Len(s) /\ DOMAIN AddTail(s, x) = 1 .. Len(s) + 1
        /\ Len(s) \in Nat
    BY <1>1
  <1>4. Elems(AddTail(s, x)) = Elems(s) \cup {x}
    BY <1>2, <1>3 DEF Elems
  <1>5. NoDup(s) /\ x \notin Elems(s) => NoDup(AddTail(s, x))
    BY <1>2, <1>3 DEF Elems, NoDup
  <1> QED BY <1>1, <1>4, <1>5

(* list_add adds exactly the new object.                                   *)
LEMMA AddHeadElems ==
  ASSUME NEW S, NEW s \in Seq(S), NEW x \in S
  PROVE  /\ AddHead(s, x) \in Seq(S)
         /\ Elems(AddHead(s, x)) = Elems(s) \cup {x}
         /\ NoDup(s) /\ x \notin Elems(s) => NoDup(AddHead(s, x))
  <1>1. AddHead(s, x) \in Seq(S) /\ Len(AddHead(s, x)) = Len(s) + 1
    BY DEF AddHead
  <1>2. \A k \in 1 .. Len(s) + 1 :
          AddHead(s, x)[k] = IF k = 1 THEN x ELSE s[k - 1]
    BY DEF AddHead
  <1>3. DOMAIN s = 1 .. Len(s) /\ DOMAIN AddHead(s, x) = 1 .. Len(s) + 1
        /\ Len(s) \in Nat
    BY <1>1
  <1>4. \A k \in 1 .. Len(s) : AddHead(s, x)[k + 1] = s[k]
    BY <1>2, <1>3
  <1>5. Elems(AddHead(s, x)) = Elems(s) \cup {x}
    <2>1. Elems(AddHead(s, x)) \subseteq Elems(s) \cup {x}
      BY <1>2, <1>3 DEF Elems
    <2>2. Elems(s) \cup {x} \subseteq Elems(AddHead(s, x))
      BY <1>2, <1>3, <1>4 DEF Elems
    <2> QED BY <2>1, <2>2
  <1>6. NoDup(s) /\ x \notin Elems(s) => NoDup(AddHead(s, x))
    BY <1>2, <1>3 DEF Elems, NoDup
  <1> QED BY <1>1, <1>5, <1>6

(* list_first_entry and list_del take exactly the first object away.       *)
LEMMA TakeElems ==
  ASSUME NEW S, NEW s \in Seq(S), s # << >>
  PROVE  /\ Head(s) \in S /\ Tail(s) \in Seq(S)
         /\ Head(s) \in Elems(s)
         /\ NoDup(s) => /\ Elems(Tail(s)) = Elems(s) \ {Head(s)}
                        /\ NoDup(Tail(s))
  <1>1. Head(s) \in S /\ Tail(s) \in Seq(S) /\ Len(Tail(s)) = Len(s) - 1
        /\ Len(s) \in Nat \ {0} /\ Head(s) = s[1]
    OBVIOUS
  <1>2. \A k \in 1 .. Len(s) - 1 : Tail(s)[k] = s[k + 1]
    OBVIOUS
  <1>3. DOMAIN s = 1 .. Len(s) /\ DOMAIN Tail(s) = 1 .. Len(s) - 1
    BY <1>1
  <1>4. \A k \in 2 .. Len(s) : s[k] = Tail(s)[k - 1]
    BY <1>1, <1>2
  <1>5. Head(s) \in Elems(s)
    BY <1>1, <1>3 DEF Elems
  <1>6. ASSUME NoDup(s) PROVE Elems(Tail(s)) = Elems(s) \ {Head(s)}
    <2>1. Elems(Tail(s)) \subseteq Elems(s) \ {Head(s)}
      BY <1>1, <1>2, <1>3, <1>6 DEF Elems, NoDup
    <2>2. ASSUME NEW k \in DOMAIN s, s[k] # Head(s) PROVE s[k] \in Elems(Tail(s))
      <3>1. k \in 2 .. Len(s)
        BY <1>1, <1>3, <2>2
      <3>2. k - 1 \in DOMAIN Tail(s) /\ s[k] = Tail(s)[k - 1]
        BY <1>1, <1>3, <1>4, <3>1
      <3> QED BY <3>2 DEF Elems
    <2>3. Elems(s) \ {Head(s)} \subseteq Elems(Tail(s))
      BY <2>2 DEF Elems
    <2> QED BY <2>1, <2>3
  <1>7. ASSUME NoDup(s) PROVE NoDup(Tail(s))
    BY <1>1, <1>2, <1>3, <1>7 DEF NoDup
  <1> QED BY <1>1, <1>5, <1>6, <1>7

-----------------------------------------------------------------------------
(* Ownership of the frame objects.  Own is what the code keeps true of the *)
(* lists, the two endpoint buffers and frame_object; each lemma below is   *)
(* one way in which the code hands an object on.                           *)
Own == TypeLists /\ OneOwner /\ NoLeak

(* Steps that touch no list and no pointer to an object.                   *)
LEMMA OwnUnchanged ==
  ASSUME Own, UNCHANGED <<lists, bufs, frame_object>>
  PROVE  Own'
  BY DEF Own, TypeLists, OneOwner, NoLeak, Lent, lists, bufs

(* list_from_host[c] to frame_object, in CAN_SendFrame.                    *)
LEMMA QueueToHand ==
  ASSUME Own, NEW c \in Channels, frame_object = NULL,
         list_from_host[c] # << >>,
         frame_object' = Head(list_from_host[c]),
         list_from_host' = [list_from_host EXCEPT ![c] = Tail(@)],
         UNCHANGED <<list_frame_pool, list_to_host, bufs>>
  PROVE  Own'
  <1> DEFINE q == list_from_host[c]
  <1>1. q \in Seq(Objects) /\ NoDup(q)
    BY DEF Own, TypeLists, OneOwner
  <1>2. /\ Head(q) \in Elems(q) /\ Head(q) \in Objects
        /\ Tail(q) \in Seq(Objects) /\ NoDup(Tail(q))
        /\ Elems(Tail(q)) = Elems(q) \ {Head(q)}
    BY <1>1, TakeElems
  <1>3. list_from_host' = [list_from_host EXCEPT ![c] = Tail(q)]
    OBVIOUS
  <1>4. TypeLists'
    BY <1>2, <1>3 DEF Own, TypeLists, bufs
  <1>5. Lent' = Lent \cup {Head(q)}
    BY <1>2 DEF Lent, bufs, NULL, Objects
  <1>6. OneOwner'
    BY <1>2, <1>3 DEF Own, OneOwner, Lent, TypeLists, bufs, NULL, Objects
  <1>7. \A d \in Channels :
          Elems(list_from_host[d]) \subseteq Elems(list_from_host'[d]) \cup {Head(q)}
    BY <1>2, <1>3 DEF Own, TypeLists
  <1>8. NoLeak'
    BY <1>5, <1>7 DEF Own, NoLeak
  <1> QED BY <1>4, <1>6, <1>8 DEF Own

(* frame_object back to the front of list_from_host[c].                    *)
LEMMA HandToQueue ==
  ASSUME Own, NEW c \in Channels, frame_object # NULL, frame_object' = NULL,
         list_from_host' = [list_from_host EXCEPT ![c] = AddHead(@, frame_object)],
         UNCHANGED <<list_frame_pool, list_to_host, bufs>>
  PROVE  Own'
  <1> DEFINE q == list_from_host[c]
             r == AddHead(q, frame_object)
  <1>1. /\ q \in Seq(Objects) /\ NoDup(q) /\ frame_object \in Objects
        /\ frame_object \notin Elems(q)
    BY DEF Own, TypeLists, OneOwner, Lent
  <1>2. /\ r \in Seq(Objects) /\ NoDup(r)
        /\ Elems(r) = Elems(q) \cup {frame_object}
    BY <1>1, AddHeadElems
  <1>3. list_from_host' = [list_from_host EXCEPT ![c] = r]
    OBVIOUS
  <1> HIDE DEF r
  <1>4. TypeLists'
    BY <1>2, <1>3 DEF Own, TypeLists, bufs
  <1>5. Lent \subseteq Lent' \cup {frame_object}
    BY DEF Lent, bufs
  <1>6. OneOwner'
    BY <1>1, <1>2, <1>3 DEF Own, OneOwner, Lent, TypeLists, bufs
  <1>7. /\ \A d \in Channels :
             Elems(list_from_host[d]) \subseteq Elems(list_from_host'[d])
        /\ frame_object \in Elems(list_from_host'[c])
    BY <1>2, <1>3 DEF Own, TypeLists
  <1>8. NoLeak'
    BY <1>5, <1>7 DEF Own, NoLeak
  <1> QED BY <1>4, <1>6, <1>8 DEF Own

(* frame_object to the tail of list_to_host.                               *)
LEMMA HandToHost ==
  ASSUME Own, frame_object # NULL, frame_object' = NULL,
         list_to_host' = AddTail(list_to_host, frame_object),
         UNCHANGED <<list_frame_pool, list_from_host, bufs>>
  PROVE  Own'
  <1>1. /\ list_to_host \in Seq(Objects) /\ NoDup(list_to_host)
        /\ frame_object \in Objects /\ frame_object \notin Elems(list_to_host)
    BY DEF Own, TypeLists, OneOwner, Lent
  <1>2. /\ list_to_host' \in Seq(Objects) /\ NoDup(list_to_host')
        /\ Elems(list_to_host') = Elems(list_to_host) \cup {frame_object}
    BY <1>1, AddTailElems
  <1>3. TypeLists'
    BY <1>2 DEF Own, TypeLists, bufs
  <1>4. OneOwner'
    BY <1>1, <1>2 DEF Own, OneOwner, Lent, TypeLists, bufs
  <1>5. NoLeak'
    BY <1>2 DEF Own, NoLeak, Lent, bufs
  <1> QED BY <1>3, <1>4, <1>5 DEF Own

(* frame_object to the tail of the pool.                                   *)
LEMMA HandToPool ==
  ASSUME Own, frame_object # NULL, frame_object' = NULL,
         list_frame_pool' = AddTail(list_frame_pool, frame_object),
         UNCHANGED <<list_to_host, list_from_host, bufs>>
  PROVE  Own'
  <1>1. /\ list_frame_pool \in Seq(Objects) /\ NoDup(list_frame_pool)
        /\ frame_object \in Objects /\ frame_object \notin Elems(list_frame_pool)
    BY DEF Own, TypeLists, OneOwner, Lent
  <1>2. /\ list_frame_pool' \in Seq(Objects) /\ NoDup(list_frame_pool')
        /\ Elems(list_frame_pool') = Elems(list_frame_pool) \cup {frame_object}
    BY <1>1, AddTailElems
  <1>3. TypeLists'
    BY <1>2 DEF Own, TypeLists, bufs
  <1>4. OneOwner'
    BY <1>1, <1>2 DEF Own, OneOwner, Lent, TypeLists, bufs
  <1>5. NoLeak'
    BY <1>2 DEF Own, NoLeak, Lent, bufs
  <1> QED BY <1>3, <1>4, <1>5 DEF Own

(* The pool to frame_object.                                               *)
LEMMA PoolToHand ==
  ASSUME Own, frame_object = NULL, TakeFromPool, UNCHANGED bufs
  PROVE  Own'
  <1>1. /\ frame_object' \in Objects /\ frame_object' \in Elems(list_frame_pool)
        /\ list_frame_pool' \in Seq(Objects) /\ NoDup(list_frame_pool')
        /\ Elems(list_frame_pool') = Elems(list_frame_pool) \ {frame_object'}
        /\ UNCHANGED <<list_to_host, list_from_host>>
    BY TakeElems DEF TakeFromPool, Own, TypeLists, OneOwner
  <1>2. TypeLists'
    BY <1>1 DEF Own, TypeLists, bufs
  <1>3. OneOwner'
    BY <1>1 DEF Own, OneOwner, Lent, TypeLists, bufs, NULL, Objects
  <1>4. NoLeak'
    BY <1>1 DEF Own, NoLeak, Lent, bufs, NULL, Objects
  <1> QED BY <1>2, <1>3, <1>4 DEF Own

(* The pool to from_host_buf, in ReceiveFromHost.                          *)
LEMMA PoolToOut ==
  ASSUME Own, from_host_buf = NULL, list_frame_pool # << >>,
         from_host_buf' = Head(list_frame_pool),
         list_frame_pool' = Tail(list_frame_pool),
         UNCHANGED <<list_to_host, list_from_host, to_host_buf, frame_object>>
  PROVE  Own'
  <1>1. /\ from_host_buf' \in Objects /\ from_host_buf' \in Elems(list_frame_pool)
        /\ list_frame_pool' \in Seq(Objects) /\ NoDup(list_frame_pool')
        /\ Elems(list_frame_pool') = Elems(list_frame_pool) \ {from_host_buf'}
    BY TakeElems DEF Own, TypeLists, OneOwner
  <1>2. TypeLists'
    BY <1>1 DEF Own, TypeLists
  <1>3. OneOwner'
    BY <1>1 DEF Own, OneOwner, Lent, TypeLists, NULL, Objects
  <1>4. NoLeak'
    BY <1>1 DEF Own, NoLeak, Lent, NULL, Objects
  <1> QED BY <1>2, <1>3, <1>4 DEF Own

(* list_to_host to to_host_buf, in SendToHost.                             *)
LEMMA HostToIn ==
  ASSUME Own, to_host_buf = NULL, list_to_host # << >>,
         to_host_buf' = Head(list_to_host),
         list_to_host' = Tail(list_to_host),
         UNCHANGED <<list_frame_pool, list_from_host, from_host_buf, frame_object>>
  PROVE  Own'
  <1>1. /\ to_host_buf' \in Objects /\ to_host_buf' \in Elems(list_to_host)
        /\ list_to_host' \in Seq(Objects) /\ NoDup(list_to_host')
        /\ Elems(list_to_host') = Elems(list_to_host) \ {to_host_buf'}
    BY TakeElems DEF Own, TypeLists, OneOwner
  <1>2. TypeLists'
    BY <1>1 DEF Own, TypeLists
  <1>3. OneOwner'
    BY <1>1 DEF Own, OneOwner, Lent, TypeLists, NULL, Objects
  <1>4. NoLeak'
    BY <1>1 DEF Own, NoLeak, Lent, NULL, Objects
  <1> QED BY <1>2, <1>3, <1>4 DEF Own

(* to_host_buf to either end of the pool, when the transfer is complete or *)
(* refused.                                                                *)
LEMMA InToPool ==
  ASSUME Own, to_host_buf # NULL, to_host_buf' = NULL,
         \/ list_frame_pool' = AddTail(list_frame_pool, to_host_buf)
         \/ list_frame_pool' = AddHead(list_frame_pool, to_host_buf),
         UNCHANGED <<list_to_host, list_from_host, from_host_buf, frame_object>>
  PROVE  Own'
  <1>1. /\ list_frame_pool \in Seq(Objects) /\ NoDup(list_frame_pool)
        /\ to_host_buf \in Objects /\ to_host_buf \notin Elems(list_frame_pool)
    BY DEF Own, TypeLists, OneOwner, Lent
  <1>2. /\ list_frame_pool' \in Seq(Objects) /\ NoDup(list_frame_pool')
        /\ Elems(list_frame_pool') = Elems(list_frame_pool) \cup {to_host_buf}
    <2>1. CASE list_frame_pool' = AddTail(list_frame_pool, to_host_buf)
      BY <1>1, <2>1, AddTailElems
    <2>2. CASE list_frame_pool' = AddHead(list_frame_pool, to_host_buf)
      BY <1>1, <2>2, AddHeadElems
    <2> QED BY <2>1, <2>2
  <1>3. TypeLists'
    BY <1>2 DEF Own, TypeLists
  <1>4. OneOwner'
    BY <1>1, <1>2 DEF Own, OneOwner, Lent, TypeLists
  <1>5. NoLeak'
    BY <1>2 DEF Own, NoLeak, Lent
  <1> QED BY <1>3, <1>4, <1>5 DEF Own

(* from_host_buf to the tail of list_from_host[c] in DataOut, with the     *)
(* next object of the pool in its place if there is one.                   *)
LEMMA OutToQueue ==
  ASSUME Own, NEW c \in Channels, from_host_buf # NULL,
         list_from_host' = [list_from_host EXCEPT ![c] = AddTail(@, from_host_buf)],
         \/ /\ list_frame_pool # << >>
            /\ from_host_buf' = Head(list_frame_pool)
            /\ list_frame_pool' = Tail(list_frame_pool)
         \/ from_host_buf' = NULL /\ UNCHANGED list_frame_pool,
         UNCHANGED <<list_to_host, to_host_buf, frame_object>>
  PROVE  Own'
  <1> DEFINE q == list_from_host[c]
             r == AddTail(q, from_host_buf)
  <1>1. /\ q \in Seq(Objects) /\ NoDup(q) /\ from_host_buf \in Objects
        /\ from_host_buf \notin Elems(q)
    BY DEF Own, TypeLists, OneOwner, Lent
  <1>2. /\ r \in Seq(Objects) /\ NoDup(r)
        /\ Elems(r) = Elems(q) \cup {from_host_buf}
    BY <1>1, AddTailElems
  <1>3. list_from_host' = [list_from_host EXCEPT ![c] = r]
    OBVIOUS
  <1> HIDE DEF r
  <1>4. /\ \A d \in Channels :
             /\ Elems(list_from_host[d]) \subseteq Elems(list_from_host'[d])
             /\ d # c => list_from_host'[d] = list_from_host[d]
        /\ list_from_host'[c] = r
    BY <1>2, <1>3 DEF Own, TypeLists
  <1>5. CASE from_host_buf' = NULL /\ UNCHANGED list_frame_pool
    <2>1. TypeLists'
      BY <1>2, <1>3, <1>5 DEF Own, TypeLists
    <2>2. OneOwner'
      BY <1>1, <1>2, <1>4, <1>5 DEF Own, OneOwner, Lent, TypeLists
    <2>3. NoLeak'
      BY <1>2, <1>4, <1>5 DEF Own, NoLeak, Lent
    <2> QED BY <2>1, <2>2, <2>3 DEF Own
  <1>6. CASE /\ list_frame_pool # << >>
             /\ from_host_buf' = Head(list_frame_pool)
             /\ list_frame_pool' = Tail(list_frame_pool)
    <2>1. /\ from_host_buf' \in Objects /\ from_host_buf' \in Elems(list_frame_pool)
          /\ list_frame_pool' \in Seq(Objects) /\ NoDup(list_frame_pool')
          /\ Elems(list_frame_pool') = Elems(list_frame_pool) \ {from_host_buf'}
      BY <1>6, TakeElems DEF Own, TypeLists, OneOwner
    <2>2. TypeLists'
      BY <1>2, <1>3, <2>1 DEF Own, TypeLists
    <2>3. OneOwner'
      BY <1>1, <1>2, <1>4, <2>1 DEF Own, OneOwner, Lent, TypeLists, NULL, Objects
    <2>4. NoLeak'
      BY <1>2, <1>4, <2>1 DEF Own, NoLeak, Lent, NULL, Objects
    <2> QED BY <2>2, <2>3, <2>4 DEF Own
  <1> QED BY <1>5, <1>6

-----------------------------------------------------------------------------
(* The inductive invariant.  Ownership is not inductive on its own: that   *)
(* frame_object is not put into two lists depends on where the main loop   *)
(* stands (InHand), that to_host_buf and from_host_buf are not depends on  *)
(* what the USB peripheral was given (EndpointBuffers).                    *)
IInv == Own /\ TypeRest /\ TypeCan /\ InHand /\ EndpointBuffers

(* main() establishes it.                                                  *)
LEMMA InitIInv == Init => IInv
  <1> SUFFICES ASSUME Init PROVE IInv
    OBVIOUS
  <1> USE QueueSizeAssumption, ChannelsAssumption
  <1>1. [k \in Objects |-> k] \in Seq(Objects)
    BY DEF Objects
  <1>2. TypeLists
    BY <1>1 DEF Init, TypeLists, Objects, Channels, NULL
  <1>3. TypeRest
    <2>1. Blank \in Contents
      BY DEF Blank, Contents, Channels
    <2>2. /\ can_err \in Status
          /\ out_ep \in Endpoint
          /\ i \in Channels
      BY DEF Init, NoError, Status, Channels, Endpoint
    <2> QED BY <2>1, <2>2 DEF Init, TypeRest, Labels
  <1>4. TypeCan
    BY DEF Init, NoError, TypeCan, Status
  <1>5. OneOwner /\ NoLeak
    BY DEF Init, OneOwner, NoLeak, NoDup, Elems, Lent, NULL, Objects
  <1>6. InHand /\ EndpointBuffers
    BY DEF Init, InHand, EndpointBuffers, Holding, NULL
  <1> QED BY <1>2, <1>3, <1>4, <1>5, <1>6 DEF IInv, Own

(* Every step of the main loop, the callbacks and the bus hands objects on *)
(* in one of the ways above, or not at all.                                *)
LEMMA OwnStep ==
  ASSUME IInv, [Next]_vars
  PROVE  Own'
  <1> USE DEF IInv
  <1>1. CASE SendTake
    BY <1>1, QueueToHand, OwnUnchanged DEF SendTake, At, Holding, InHand,
        Goto, TypeRest
  <1>2. CASE CanSend
    BY <1>2, OwnUnchanged DEF CanSend
  <1>3. CASE SendRequeue
    BY <1>3, HandToQueue DEF SendRequeue, At, Holding, InHand, TypeRest
  <1>4. CASE SendEcho
    BY <1>4, HandToHost DEF SendEcho, At, Holding, InHand
  <1>5. CASE Refill
    BY <1>5, PoolToOut, OwnUnchanged DEF Refill, bufs
  <1>6. CASE Arm
    BY <1>6, OwnUnchanged DEF Arm
  <1>7. CASE Pick
    BY <1>7, HostToIn, OwnUnchanged DEF Pick, bufs
  <1>8. CASE Check
    BY <1>8, OwnUnchanged DEF Check
  <1>9. CASE Transmit
    BY <1>9, OwnUnchanged DEF Transmit
  <1>10. CASE Drop
    BY <1>10, InToPool DEF Drop, At, Holding, InHand
  <1>11. CASE RxPoll
    BY <1>11, OwnUnchanged DEF RxPoll
  <1>12. CASE RxTake
    BY <1>12, PoolToHand, OwnUnchanged DEF RxTake, At, Holding, InHand,
        PoolEmpty
  <1>13. CASE RxRead
    BY <1>13, OwnUnchanged DEF RxRead
  <1>14. CASE RxQueue
    BY <1>14, HandToHost DEF RxQueue, At, Holding, InHand
  <1>15. CASE RxReturn
    BY <1>15, HandToPool DEF RxReturn, At, Holding, InHand
  <1>16. CASE ErrPoll
    BY <1>16, OwnUnchanged DEF ErrPoll
  <1>17. CASE ErrTake
    BY <1>17, PoolToHand, OwnUnchanged DEF ErrTake, At, Holding, InHand,
        PoolEmpty
  <1>18. CASE ErrQueue
    BY <1>18, HandToHost, HandToPool DEF ErrQueue, At, Holding, InHand
  <1>19. CASE DfuPoll
    BY <1>19, OwnUnchanged DEF DfuPoll
  <1>20. CASE DataIn
    BY <1>20, InToPool DEF DataIn, EndpointBuffers, main
  <1>21. ASSUME NEW c \in Channels, DataOut(c) PROVE Own'
    BY <1>21, OutToQueue DEF DataOut, EndpointBuffers, main
  <1>22. CASE DataOutBad
    BY <1>22, OwnUnchanged DEF DataOutBad, main
  <1>23. CASE DataOutNull
    BY <1>23, OwnUnchanged DEF DataOutNull, main
  <1>24. ASSUME NEW c \in Channels, ModeStart(c) PROVE Own'
    BY <1>24, OwnUnchanged DEF ModeStart, main
  <1>25. ASSUME NEW c \in Channels, ModeReset(c) PROVE Own'
    BY <1>25, OwnUnchanged DEF ModeReset, main
  <1>26. CASE Suspend
    BY <1>26, OwnUnchanged DEF Suspend, main
  <1>27. CASE Resume
    BY <1>27, OwnUnchanged DEF Resume, main
  <1>28. CASE BusReset
    BY <1>28, OwnUnchanged DEF BusReset, main
  <1>29. CASE SetConfiguration
    BY <1>29, OwnUnchanged DEF SetConfiguration, main
  <1>30. CASE DfuDetach
    BY <1>30, OwnUnchanged DEF DfuDetach, main
  <1>31. ASSUME NEW c \in Channels, BusTxDone(c) PROVE Own'
    BY <1>31, OwnUnchanged DEF BusTxDone, main
  <1>32. ASSUME NEW c \in Channels, BusArrive(c) PROVE Own'
    BY <1>32, OwnUnchanged DEF BusArrive, main
  <1>33. ASSUME NEW c \in Channels, BusError(c) PROVE Own'
    BY <1>33, OwnUnchanged DEF BusError, main
  <1>34. CASE UNCHANGED vars
    BY <1>34, OwnUnchanged DEF vars, main
  <1> QED BY <1>1, <1>2, <1>3, <1>4, <1>5, <1>6, <1>7, <1>8, <1>9, <1>10,
            <1>11, <1>12, <1>13, <1>14, <1>15, <1>16, <1>17, <1>18, <1>19,
            <1>20, <1>21, <1>22, <1>23, <1>24, <1>25, <1>26, <1>27, <1>28,
            <1>29, <1>30, <1>31, <1>32, <1>33, <1>34
    DEF Next, MainLoop, UsbInterrupt, Bus, Stopped

(* The loops over the channels stay within the channels.                   *)
LEMMA NextChannelType ==
  ASSUME NEW l \in Labels, NEW m \in Labels, i \in Channels, NextChannel(l, m)
  PROVE  i' \in Channels /\ pc' \in Labels
  BY ChannelsAssumption DEF NextChannel, Channels

(* The object at the head of a list is not NULL.                           *)
LEMMA HeadNotNull ==
  ASSUME NEW s \in Seq(Objects), s # << >>
  PROVE  Head(s) \in Objects /\ Head(s) # NULL
  <1>1. Head(s) \in Objects
    BY TakeElems
  <1> QED BY <1>1 DEF Objects, NULL

(* The records the code builds are of their types.                         *)
LEMMA EndpointType ==
  ASSUME NEW b \in Objects \cup {NULL}
  PROVE  [armed |-> TRUE, buf |-> b] \in Endpoint
  BY DEF Endpoint

LEMMA ContentsType ==
  ASSUME NEW k \in {"none", "host", "bus", "err"}, NEW c \in Channels, NEW n \in Nat
  PROVE  [kind |-> k, channel |-> c, nr |-> n] \in Contents
  BY DEF Contents

(* The number the host gives its next frame is a natural number.           *)
LEMMA NextNumberType ==
  ASSUME TypeCan, NEW c \in Channels
  PROVE  submitted[c] + 1 \in Nat
  BY DEF TypeCan

(* Every step leaves the variables of the main loop, the endpoints and the *)
(* device well typed.                                                      *)
LEMMA RestStep ==
  ASSUME IInv, [Next]_vars
  PROVE  TypeRest'
  <1> USE DEF IInv, Own, TypeLists, TypeRest, bufs, main, eps, dev
  <1>1. CASE SendTake
    BY <1>1, NextChannelType DEF SendTake, Goto, Labels
  <1>2. CASE CanSend
    BY <1>2 DEF CanSend, Goto, Labels
  <1>3. CASE SendRequeue
    BY <1>3, NextChannelType DEF SendRequeue, Labels
  <1>4. CASE SendEcho
    BY <1>4, NextChannelType DEF SendEcho, Labels
  <1>5. CASE Refill
    BY <1>5 DEF Refill, Goto, Labels
  <1>6. CASE Arm
    BY <1>6 DEF Arm, Goto, PrepareReceive, Labels, Endpoint
  <1>7. CASE Pick
    BY <1>7 DEF Pick, Goto, Labels
  <1>8. CASE Check
    BY <1>8 DEF Check, Goto, Labels
  <1>9. CASE Transmit
    BY <1>9 DEF Transmit, Goto, Labels
  <1>10. CASE Drop
    BY <1>10 DEF Drop, Goto, Labels
  <1>11. CASE RxPoll
    BY <1>11 DEF RxPoll, Goto, Labels
  <1>12. CASE RxTake
    BY <1>12 DEF RxTake, TakeFromPool, PoolEmpty, Goto, Labels
  <1>13. CASE RxRead
    <2>1. rx_fifo[i] # << >> => Head(rx_fifo[i]) \in Nat
      BY DEF TypeCan
    <2>2. frame' \in [Objects -> Contents]
      <3>1. \/ UNCHANGED frame
            \/ /\ rx_fifo[i] # << >>
               /\ frame' = [frame EXCEPT ![frame_object] =
                    [kind |-> "bus", channel |-> i, nr |-> Head(rx_fifo[i])]]
        BY <1>13, Zenon DEF RxRead
      <3>2. rx_fifo[i] # << >> =>
              [kind |-> "bus", channel |-> i, nr |-> Head(rx_fifo[i])] \in Contents
        BY <2>1, ContentsType
      <3> QED BY <3>1, <3>2
    <2> QED BY <1>13, <2>2 DEF RxRead, Goto, Labels
  <1>14. CASE RxQueue
    BY <1>14 DEF RxQueue, Goto, Labels
  <1>15. CASE RxReturn
    BY <1>15 DEF RxReturn, Goto, Labels
  <1>16. CASE ErrPoll
    <2>1. psr[i] \in Status
      BY DEF TypeCan
    <2>2. can_err' \in Status
      BY <1>16, <2>1 DEF ErrPoll
    <2> QED BY <1>16, <2>2, NextChannelType DEF ErrPoll, Goto, Labels
  <1>17. CASE ErrTake
    BY <1>17, NextChannelType DEF ErrTake, TakeFromPool, PoolEmpty, Goto,
        Labels
  <1>18. CASE ErrQueue
    BY <1>18, NextChannelType DEF ErrQueue, Labels, Contents, Status
  <1>19. CASE DfuPoll
    BY <1>19 DEF DfuPoll, Goto, Labels
  <1>20. CASE DataIn
    BY <1>20 DEF DataIn, Contents
  <1>21. ASSUME NEW c \in Channels, DataOut(c) PROVE TypeRest'
    <2>1. frame' \in [Objects -> Contents]
      <3>1. [kind |-> "host", channel |-> c, nr |-> submitted[c] + 1] \in Contents
        <4>1. submitted[c] + 1 \in Nat
          BY <1>21, NextNumberType
        <4> QED BY <1>21, <4>1, ContentsType
      <3>2. frame' = [frame EXCEPT ![out_ep.buf] =
              [kind |-> "host", channel |-> c, nr |-> submitted[c] + 1]]
        BY <1>21, Zenon DEF DataOut
      <3> QED BY <3>1, <3>2
    <2>2. out_ep' \in Endpoint
      <3>1. \/ /\ list_frame_pool # << >>
               /\ out_ep' = [armed |-> TRUE, buf |-> Head(list_frame_pool)]
            \/ out_ep' = [out_ep EXCEPT !.armed = FALSE]
        BY <1>21, Zenon DEF DataOut, PrepareReceive
      <3>2. [out_ep EXCEPT !.armed = FALSE] \in Endpoint
        BY DEF Endpoint
      <3>3. list_frame_pool # << >> => Head(list_frame_pool) \in Objects
        BY HeadNotNull
      <3> QED BY <3>1, <3>2, <3>3, EndpointType
    <2> QED BY <1>21, <2>1, <2>2 DEF DataOut
  <1>22. CASE DataOutBad
    <2>1. Blank \in Contents
      BY ChannelsAssumption DEF Blank, Contents, Channels
    <2>2. frame' \in [Objects -> Contents]
      BY <1>22, <2>1 DEF DataOutBad
    <2> QED BY <1>22, <2>2, EndpointType DEF DataOutBad, PrepareReceive
  <1>23. CASE DataOutNull
    <2>1. out_ep' \in Endpoint
      <3>1. \/ UNCHANGED out_ep
            \/ out_ep' = [armed |-> TRUE, buf |-> from_host_buf]
        BY <1>23, Zenon DEF DataOutNull, PrepareReceive
      <3> QED BY <3>1, EndpointType
    <2>2. usb' \in {"attached", "default", "configured", "fault"}
      BY <1>23 DEF DataOutNull
    <2> QED BY <1>23, <2>1, <2>2 DEF DataOutNull
  <1>24. ASSUME NEW c \in Channels, ModeStart(c) PROVE TypeRest'
    BY <1>24 DEF ModeStart
  <1>25. ASSUME NEW c \in Channels, ModeReset(c) PROVE TypeRest'
    BY <1>25 DEF ModeReset, CanDisable
  <1>26. CASE Suspend
    BY <1>26 DEF Suspend, CanDisable
  <1>27. CASE Resume
    BY <1>27 DEF Resume
  <1>28. CASE BusReset
    BY <1>28 DEF BusReset, Endpoint
  <1>29. CASE SetConfiguration
    BY <1>29 DEF SetConfiguration, PrepareReceive, Endpoint
  <1>30. CASE DfuDetach
    BY <1>30 DEF DfuDetach
  <1>31. ASSUME NEW c \in Channels, BusTxDone(c) PROVE TypeRest'
    BY <1>31 DEF BusTxDone
  <1>32. ASSUME NEW c \in Channels, BusArrive(c) PROVE TypeRest'
    BY <1>32 DEF BusArrive
  <1>33. ASSUME NEW c \in Channels, BusError(c) PROVE TypeRest'
    BY <1>33 DEF BusError, Status
  <1>34. CASE UNCHANGED vars
    BY <1>34 DEF vars
  <1> QED BY <1>1, <1>2, <1>3, <1>4, <1>5, <1>6, <1>7, <1>8, <1>9, <1>10,
            <1>11, <1>12, <1>13, <1>14, <1>15, <1>16, <1>17, <1>18, <1>19,
            <1>20, <1>21, <1>22, <1>23, <1>24, <1>25, <1>26, <1>27, <1>28,
            <1>29, <1>30, <1>31, <1>32, <1>33, <1>34
    DEF Next, MainLoop, UsbInterrupt, Bus, Stopped

(* Every step leaves the CAN peripheral, the error status and the counters *)
(* well typed.                                                             *)
LEMMA CanStep ==
  ASSUME IInv, [Next]_vars
  PROVE  TypeCan'
  <1>0. TypeCan /\ i \in Channels /\ can_err \in Status
    BY DEF IInv, TypeRest
  <1> USE <1>0 DEF TypeCan, can, err, ghost
  <1>1. CASE SendTake
    BY <1>1 DEF SendTake
  <1>2. CASE CanSend
    <2>1. \/ UNCHANGED <<tx_fifo, sent>>
          \/ /\ tx_fifo' = [tx_fifo EXCEPT ![i] = @ + 1]
             /\ sent' = [sent EXCEPT ![i] = @ + 1]
      BY <1>2, Zenon DEF CanSend
    <2>2. tx_fifo[i] + 1 \in Nat /\ sent[i] + 1 \in Nat
      OBVIOUS
    <2>3. tx_fifo' \in [Channels -> Nat]
      BY <2>1, <2>2
    <2>4. sent' \in [Channels -> Nat]
      BY <2>1, <2>2
    <2> QED BY <1>2, <2>3, <2>4 DEF CanSend
  <1>3. CASE SendRequeue
    BY <1>3 DEF SendRequeue
  <1>4. CASE SendEcho
    BY <1>4 DEF SendEcho
  <1>5. CASE Refill
    BY <1>5 DEF Refill
  <1>6. CASE Arm
    BY <1>6 DEF Arm
  <1>7. CASE Pick
    BY <1>7 DEF Pick
  <1>8. CASE Check
    BY <1>8 DEF Check
  <1>9. CASE Transmit
    BY <1>9 DEF Transmit
  <1>10. CASE Drop
    BY <1>10 DEF Drop
  <1>11. CASE RxPoll
    BY <1>11 DEF RxPoll
  <1>12. CASE RxTake
    BY <1>12 DEF RxTake
  <1>13. CASE RxRead
    <2>1. rx_fifo[i] # << >> => Tail(rx_fifo[i]) \in Seq(Nat)
      OBVIOUS
    <2>2. rx_fifo' \in [Channels -> Seq(Nat)]
      BY <1>13, <2>1 DEF RxRead
    <2> QED BY <1>13, <2>2 DEF RxRead
  <1>14. CASE RxQueue
    BY <1>14 DEF RxQueue
  <1>15. CASE RxReturn
    BY <1>15 DEF RxReturn
  <1>16. CASE ErrPoll
    <2>1. [psr[i] EXCEPT !.lec = FALSE] \in Status
      BY DEF Status
    <2>2. psr' \in [Channels -> Status]
      BY <1>16, <2>1 DEF ErrPoll
    <2> QED BY <1>16, <2>2 DEF ErrPoll
  <1>17. CASE ErrTake
    BY <1>17 DEF ErrTake
  <1>18. CASE ErrQueue
    BY <1>18 DEF ErrQueue
  <1>19. CASE DfuPoll
    BY <1>19 DEF DfuPoll
  <1>20. CASE DataIn
    <2> DEFINE f == frame[to_host_buf]
    <2>1. f.nr \in Nat /\ f.channel \in Channels
      BY <1>20 DEF IInv, TypeRest, DataIn, EndpointBuffers, Own, TypeLists, Contents
    <2>2. echoed' \in [Channels -> Seq(Nat)]
      <3>1. \/ UNCHANGED echoed
            \/ echoed' = [echoed EXCEPT ![f.channel] = Append(@, f.nr)]
        BY <1>20 DEF DataIn
      <3>2. Append(echoed[f.channel], f.nr) \in Seq(Nat)
        BY <2>1
      <3> HIDE DEF f
      <3> QED BY <3>1, <3>2
    <2>3. delivered' \in [Channels -> Nat]
      BY <1>20, <2>1 DEF DataIn
    <2> QED BY <1>20, <2>2, <2>3 DEF DataIn
  <1>21. ASSUME NEW c \in Channels, DataOut(c) PROVE TypeCan'
    <2>1. submitted' \in [Channels -> Nat]
      BY <1>21 DEF DataOut
    <2> QED BY <1>21, <2>1 DEF DataOut
  <1>22. CASE DataOutBad
    BY <1>22 DEF DataOutBad
  <1>23. CASE DataOutNull
    BY <1>23 DEF DataOutNull
  <1>24. ASSUME NEW c \in Channels, ModeStart(c) PROVE TypeCan'
    <2>1. enabled' \in [Channels -> BOOLEAN] /\ tx_fifo' \in [Channels -> Nat]
      BY <1>24 DEF ModeStart
    <2>2. rx_fifo' \in [Channels -> Seq(Nat)]
      BY <1>24 DEF ModeStart
    <2> QED BY <1>24, <2>1, <2>2 DEF ModeStart
  <1>25. ASSUME NEW c \in Channels, ModeReset(c) PROVE TypeCan'
    <2>1. enabled' \in [Channels -> BOOLEAN] /\ tx_fifo' \in [Channels -> Nat]
      BY <1>25 DEF ModeReset, CanDisable
    <2>2. rx_fifo' \in [Channels -> Seq(Nat)]
      BY <1>25 DEF ModeReset, CanDisable
    <2> QED BY <1>25, <2>1, <2>2 DEF ModeReset
  <1>26. CASE Suspend
    BY <1>26 DEF Suspend, CanDisable
  <1>27. CASE Resume
    BY <1>27 DEF Resume
  <1>28. CASE BusReset
    BY <1>28 DEF BusReset
  <1>29. CASE SetConfiguration
    BY <1>29 DEF SetConfiguration
  <1>30. CASE DfuDetach
    BY <1>30 DEF DfuDetach
  <1>31. ASSUME NEW c \in Channels, BusTxDone(c) PROVE TypeCan'
    <2>1. tx_fifo[c] \in Nat /\ tx_fifo[c] > 0
      BY <1>31 DEF BusTxDone
    <2>2. tx_fifo[c] - 1 \in Nat
      BY <2>1
    <2>3. tx_fifo' \in [Channels -> Nat]
      BY <1>31, <2>2 DEF BusTxDone
    <2> QED BY <1>31, <2>3 DEF BusTxDone
  <1>32. ASSUME NEW c \in Channels, BusArrive(c) PROVE TypeCan'
    <2>0. rx_fifo[c] \in Seq(Nat) /\ arrived[c] + 1 \in Nat
      BY <1>32
    <2>1. Append(rx_fifo[c], arrived[c] + 1) \in Seq(Nat)
      BY <2>0
    <2>2. rx_fifo' \in [Channels -> Seq(Nat)]
      <3>1. rx_fifo' = [rx_fifo EXCEPT ![c] = Append(@, arrived[c] + 1)]
        BY <1>32, Zenon DEF BusArrive
      <3> QED BY <2>1, <3>1
    <2>3. arrived' \in [Channels -> Nat]
      <3>1. arrived' = [arrived EXCEPT ![c] = @ + 1]
        BY <1>32, Zenon DEF BusArrive
      <3> QED BY <2>0, <3>1
    <2> QED BY <1>32, <2>2, <2>3 DEF BusArrive
  <1>33. ASSUME NEW c \in Channels, BusError(c) PROVE TypeCan'
    <2>1. /\ [psr[c] EXCEPT !.lec = TRUE] \in Status
          /\ [psr[c] EXCEPT !.passive = ~@] \in Status
      BY <1>33 DEF Status
    <2>2. psr' \in [Channels -> Status]
      BY <1>33, <2>1 DEF BusError
    <2> QED BY <1>33, <2>2 DEF BusError
  <1>34. CASE UNCHANGED vars
    BY <1>34 DEF vars
  <1> QED BY <1>1, <1>2, <1>3, <1>4, <1>5, <1>6, <1>7, <1>8, <1>9, <1>10,
            <1>11, <1>12, <1>13, <1>14, <1>15, <1>16, <1>17, <1>18, <1>19,
            <1>20, <1>21, <1>22, <1>23, <1>24, <1>25, <1>26, <1>27, <1>28,
            <1>29, <1>30, <1>31, <1>32, <1>33, <1>34
    DEF Next, MainLoop, UsbInterrupt, Bus, Stopped

(* Every step keeps objects in hand, and objects lent to the endpoints,    *)
(* where the main loop and the USB peripheral expect them.                 *)
LEMMA HandStep ==
  ASSUME IInv, [Next]_vars
  PROVE  (InHand /\ EndpointBuffers)'
  <1> USE DEF IInv, Own, TypeLists, TypeRest, InHand, EndpointBuffers, Holding,
          lists, bufs, main, eps
  <1>1. CASE SendTake
    BY <1>1, HeadNotNull DEF SendTake, Goto, NextChannel, At
  <1>2. CASE CanSend
    BY <1>2 DEF CanSend, Goto, At
  <1>3. CASE SendRequeue
    BY <1>3 DEF SendRequeue, NextChannel, At
  <1>4. CASE SendEcho
    BY <1>4 DEF SendEcho, NextChannel, At
  <1>5. CASE Refill
    BY <1>5, HeadNotNull DEF Refill, Goto, At
  <1>6. CASE Arm
    BY <1>6 DEF Arm, Goto, PrepareReceive, At
  <1>7. CASE Pick
    BY <1>7, HeadNotNull DEF Pick, Goto, At
  <1>8. CASE Check
    BY <1>8 DEF Check, Goto, At
  <1>9. CASE Transmit
    BY <1>9 DEF Transmit, Goto, At
  <1>10. CASE Drop
    BY <1>10 DEF Drop, Goto, At
  <1>11. CASE RxPoll
    BY <1>11 DEF RxPoll, Goto, At
  <1>12. CASE RxTake
    BY <1>12, HeadNotNull DEF RxTake, TakeFromPool, PoolEmpty, Goto, At
  <1>13. CASE RxRead
    BY <1>13 DEF RxRead, Goto, At
  <1>14. CASE RxQueue
    BY <1>14 DEF RxQueue, Goto, At
  <1>15. CASE RxReturn
    BY <1>15 DEF RxReturn, Goto, At
  <1>16. CASE ErrPoll
    BY <1>16 DEF ErrPoll, NextChannel, Goto, At
  <1>17. CASE ErrTake
    BY <1>17, HeadNotNull DEF ErrTake, TakeFromPool, PoolEmpty, Goto,
        NextChannel, At
  <1>18. CASE ErrQueue
    BY <1>18 DEF ErrQueue, NextChannel, At
  <1>19. CASE DfuPoll
    BY <1>19 DEF DfuPoll, Goto, At
  <1>20. CASE DataIn
    BY <1>20 DEF DataIn
  <1>21. ASSUME NEW c \in Channels, DataOut(c) PROVE (InHand /\ EndpointBuffers)'
    <2>1. \/ /\ from_host_buf' = Head(list_frame_pool)
             /\ out_ep' = [armed |-> TRUE, buf |-> Head(list_frame_pool)]
          \/ out_ep' = [out_ep EXCEPT !.armed = FALSE]
      BY <1>21, Zenon DEF DataOut, PrepareReceive
    <2>2. out_ep'.armed => out_ep'.buf = from_host_buf'
      BY <2>1 DEF Endpoint
    <2> QED BY <1>21, <2>2 DEF DataOut
  <1>22. CASE DataOutBad
    BY <1>22 DEF DataOutBad, PrepareReceive
  <1>23. CASE DataOutNull
    BY <1>23 DEF DataOutNull, PrepareReceive
  <1>24. ASSUME NEW c \in Channels, ModeStart(c) PROVE (InHand /\ EndpointBuffers)'
    BY <1>24 DEF ModeStart
  <1>25. ASSUME NEW c \in Channels, ModeReset(c) PROVE (InHand /\ EndpointBuffers)'
    BY <1>25 DEF ModeReset, CanDisable
  <1>26. CASE Suspend
    BY <1>26 DEF Suspend, CanDisable
  <1>27. CASE Resume
    BY <1>27 DEF Resume
  <1>28. CASE BusReset
    BY <1>28 DEF BusReset
  <1>29. CASE SetConfiguration
    BY <1>29 DEF SetConfiguration, PrepareReceive
  <1>30. CASE DfuDetach
    BY <1>30 DEF DfuDetach
  <1>31. ASSUME NEW c \in Channels, BusTxDone(c) PROVE (InHand /\ EndpointBuffers)'
    BY <1>31 DEF BusTxDone
  <1>32. ASSUME NEW c \in Channels, BusArrive(c) PROVE (InHand /\ EndpointBuffers)'
    BY <1>32 DEF BusArrive
  <1>33. ASSUME NEW c \in Channels, BusError(c) PROVE (InHand /\ EndpointBuffers)'
    BY <1>33 DEF BusError
  <1>34. CASE UNCHANGED vars
    BY <1>34 DEF vars
  <1> QED BY <1>1, <1>2, <1>3, <1>4, <1>5, <1>6, <1>7, <1>8, <1>9, <1>10,
            <1>11, <1>12, <1>13, <1>14, <1>15, <1>16, <1>17, <1>18, <1>19,
            <1>20, <1>21, <1>22, <1>23, <1>24, <1>25, <1>26, <1>27, <1>28,
            <1>29, <1>30, <1>31, <1>32, <1>33, <1>34
    DEF Next, MainLoop, UsbInterrupt, Bus, Stopped

(* The invariant holds in every reachable state.                           *)
THEOREM Invariance == Spec => []IInv
  <1>1. IInv /\ [Next]_vars => IInv'
    BY OwnStep, RestStep, CanStep, HandStep DEF IInv
  <1> QED BY <1>1, InitIInv, PTL DEF Spec

(* Every variable always has its type: no list and no buffer pointer ever  *)
(* refers to anything but a frame object.                                  *)
THEOREM TypeCorrect == Spec => []TypeOK
  <1>1. IInv => TypeOK
    BY DEF IInv, Own, TypeOK
  <1> QED BY <1>1, Invariance, PTL

(* No frame object ever has two owners.                                    *)
THEOREM Ownership == Spec => []OneOwner
  <1>1. IInv => OneOwner
    BY DEF IInv, Own
  <1> QED BY <1>1, Invariance, PTL

(* No frame object is ever lost.                                           *)
THEOREM Conservation == Spec => []NoLeak
  <1>1. IInv => NoLeak
    BY DEF IInv, Own
  <1> QED BY <1>1, Invariance, PTL

(* The USB peripheral only works on the object lent to it.                 *)
THEOREM EndpointSafety == Spec => []EndpointBuffers
  <1>1. IInv => EndpointBuffers
    BY DEF IInv
  <1> QED BY <1>1, Invariance, PTL

=============================================================================
