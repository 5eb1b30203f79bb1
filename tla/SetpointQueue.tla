--------------------------- MODULE SetpointQueue ---------------------------
(***************************************************************************)
(* What the wheels can rely on.  A sender gives every wheel one setpoint   *)
(* after the other, each up to MaxBurst times; they wait in order, and the *)
(* wheel obeys the oldest.  When too many wait, of the newer ones only the *)
(* newest is kept.  The sender may end for ever, and take with it some of  *)
(* the newest; a wheel may be reset, which disables it and may cost it     *)
(* some of the oldest.  A wheel never gets past a setpoint that is NaN.    *)
(***************************************************************************)
EXTENDS Integers, Sequences

CONSTANTS Wheels, Setpoints, Mode(_), MaxBurst, NaN, DISABLED

VARIABLES waiting,   \* setpoints of each wheel that it has not obeyed
          latest,    \* the last setpoint it was given
          inforce,   \* the mode it is in
          gone       \* has the sender ended

vars == <<waiting, latest, inforce, gone>>

Init == /\ latest = [w \in Wheels |-> 0]
        /\ waiting = [w \in Wheels |-> [i \in 1 .. MaxBurst |-> 0]]
        /\ inforce = [w \in Wheels |-> DISABLED]
        /\ gone = FALSE

(* The first k of s and its last.                                          *)
Overrun(s, k) == IF k < Len(s) THEN Append(SubSeq(s, 1, k), s[Len(s)]) ELSE s

(* Wheel w is given latest' n times, and keeps what it has room for.       *)
Given(w) ==
  \E n \in 0 .. MaxBurst, k \in 0 .. Len(waiting[w]) + MaxBurst :
    /\ n = 0 => latest'[w] = latest[w]
    /\ waiting'[w] = Overrun(waiting[w] \o [i \in 1 .. n |-> latest'[w]], k)

Dropped(w) ==
  \E k \in 0 .. Len(waiting[w]) : waiting'[w] = SubSeq(waiting[w], 1, k)

Sender == /\ ~gone
          /\ latest' \in [Wheels -> Setpoints]
          /\ DOMAIN waiting' = Wheels
          /\ UNCHANGED inforce

Give == Sender /\ (\A w \in Wheels : Given(w)) /\ gone' = FALSE
End  == Sender /\ (\A w \in Wheels : Given(w) \/ Dropped(w)) /\ gone' = TRUE

Obey(w) == /\ waiting[w] # << >> /\ Head(waiting[w]) # NaN
           /\ inforce' = [inforce EXCEPT ![w] = Mode(Head(waiting[w]))]
           /\ waiting' = [waiting EXCEPT ![w] = Tail(@)]
           /\ UNCHANGED <<latest, gone>>

Reset(w) == /\ \E k \in 1 .. Len(waiting[w]) + 1 :
                 waiting' = [waiting EXCEPT ![w] = SubSeq(@, k, Len(@))]
            /\ inforce' = [inforce EXCEPT ![w] = DISABLED]
            /\ UNCHANGED <<latest, gone>>

Next == Give \/ End \/ \E w \in Wheels : Obey(w) \/ Reset(w)

Spec == Init /\ [][Next]_vars

=============================================================================
