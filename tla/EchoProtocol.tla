---------------------------- MODULE EchoProtocol ----------------------------
(***************************************************************************)
(* What the gs_usb host driver can rely on.  It numbers the frames it      *)
(* submits on a channel, the converter loads them into the CAN peripheral  *)
(* in that order, and returns every one as an echo, in order, exactly      *)
(* once, and never before it was loaded.  The driver has a fixed number of *)
(* transmit slots and frees one for each echo.  Only a lossy converter may *)
(* skip echoes.                                                            *)
(***************************************************************************)
EXTENDS Naturals, Sequences

CONSTANTS Channels, MaxSubmit,
          Lossy       \* may echoes be skipped

VARIABLES submitted, sent,   \* frames of each channel so far
          echoed             \* echoes of each channel so far

vars == <<submitted, sent, echoed>>

Init == /\ submitted = [c \in Channels |-> 0]
        /\ sent = [c \in Channels |-> 0]
        /\ echoed = [c \in Channels |-> << >>]

Submit(c) == /\ submitted[c] < MaxSubmit
             /\ submitted' = [submitted EXCEPT ![c] = @ + 1]
             /\ UNCHANGED <<sent, echoed>>

Load(c) == /\ sent[c] < submitted[c]
           /\ sent' = [sent EXCEPT ![c] = @ + 1]
           /\ UNCHANGED <<submitted, echoed>>

Last(c) == IF echoed[c] = << >> THEN 0 ELSE echoed[c][Len(echoed[c])]

Return(c) == /\ \E n \in Last(c) + 1 .. sent[c] :
                  /\ Lossy \/ n = Last(c) + 1
                  /\ echoed' = [echoed EXCEPT ![c] = Append(@, n)]
             /\ UNCHANGED <<submitted, sent>>

Next == \E c \in Channels : Submit(c) \/ Load(c) \/ Return(c)

Spec == Init /\ [][Next]_vars

=============================================================================
