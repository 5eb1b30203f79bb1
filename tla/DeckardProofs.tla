---------------------------- MODULE DeckardProofs ----------------------------
(***************************************************************************)
(* Proofs about Deckard, for any number of wheels and any orientations,    *)
(* lines of input, turns and events.                                       *)
(***************************************************************************)
EXTENDS Deckard, FiniteSetTheorems, TLAPS

(* A drive command for an orientation, or STOP; and the command that steers*)
(* the wheels to it.                                                       *)
DriveTo(o) == Cmd("DriveVesc", o)
SteerTo(o) == Cmd("DriveStepper", o)

(* The core thread is publishing a setpoint, and not for the last time.    *)
Publishing == core = "publish" => round < Repeats /\ msg.op # "NotifyWhenDone"

(* The wheels are never steered to STOP.                                   *)
Steerable(c) == c.op = "DriveStepper" => c.value \in Orientations
Steerables == Steerable(msg) /\ \A i \in DOMAIN cmds : Steerable(cmds[i])

TypeInv == TypeOK /\ Publishing /\ Steerables

(* The one notification under way is in one of three places.               *)
Asked ==
  \/ notifs = 0 /\ notify_in_flight
  \/ notifs = 1 /\ ~notify_in_flight
Unasked == notifs = 0 /\ ~notify_in_flight
Asking ==
  core # "dead" =>
    \/ repl # "wait" /\ Requests = {} /\ Unasked
    \/ repl = "wait" /\ Requests = {} /\ Asked
    \/ repl = "wait" /\ (\E k \in DOMAIN cmds : Requests = {k}) /\ Unasked

(* What a wheel has heard of the setpoint that is being published.         *)
Heard ==
  core = "publish" =>
    \A w \in Wheels :
      /\ lost[w] <= round
      /\ lost[w] < round => /\ msg.op = "DriveVesc" => vesc[w] = msg.value
                            /\ msg.op = "DriveStepper" => stepper[w] = msg.value

(* The last drive command before place n of the channel is a halt; if it   *)
(* is not in the channel any more, the rover is halted or being halted.    *)
StoppingNow == IF core = "publish" /\ msg.op = "DriveVesc" THEN msg.value = STOP ELSE Halted
Stopping(n) ==
  \/ \E j \in 1 .. n - 1 : /\ cmds[j] = Halt
                           /\ \A i \in j + 1 .. n - 1 : cmds[i].op # "DriveVesc"
  \/ StoppingNow /\ \A i \in 1 .. n - 1 : cmds[i].op # "DriveVesc"

(* The wheels are steered as the REPL thinks, and what drives them is meant*)
(* for that; place n of the channel does not change that.                  *)
InPosition ==
  /\ core = "publish" => msg \in {Halt, DriveTo(wheels)}
  /\ \A w \in Wheels : stepper[w] = wheels /\ vesc[w] \in {STOP, wheels}
Keeps(n) == cmds[n] \in {Halt, DriveTo(wheels)}

(* The wheels are being steered to the target: the command is in the       *)
(* channel behind a halt,                                                  *)
Queued ==
  /\ InPosition /\ Unasked
  /\ \E k \in DOMAIN cmds :
       /\ cmds[k] = SteerTo(target) /\ Stopping(k)
       /\ \A i \in 1 .. k - 1 : Keeps(i)
       /\ \A i \in k + 1 .. Len(cmds) : cmds[i] \in {Halt, Notify}

(* or it is being published, or has been, to a rover that is halted.       *)
Turned ==
  /\ Halted
  /\ \A i \in DOMAIN cmds : cmds[i] \in {Halt, Notify}
  /\ \/ core = "publish" /\ msg = SteerTo(target) /\ Unasked
     \/ /\ core = "publish" => msg = Halt
        /\ \A w \in Wheels : stepper[w] = target

Turning == repl \in {"notify", "wait"} => Queued \/ Turned
Settled ==
  repl \notin {"notify", "wait"} =>
    /\ InPosition
    /\ \A i \in DOMAIN cmds : Keeps(i)
    /\ repl = "drive" => target = wheels

(* What the REPL relies on when it steers, and when it says that the rover *)
(* is stopped.                                                             *)
Stopped == is_stopped \/ repl = "steer" => Stopping(Len(cmds) + 1)

(* The final stop is still in the channel, no further back than the turns  *)
(* that are left; or it is being published; or the rover is halted.        *)
LastStop ==
  repl = "sleep" =>
    \/ \E p \in DOMAIN cmds :
         /\ \A i \in p .. Len(cmds) : cmds[i] = Halt
         /\ p <= behind - slept["repl"] + (IF core = "poll" THEN 1 ELSE 0)
    \/ /\ core = "publish" /\ msg = Halt /\ slept["repl"] <= behind
       /\ \A i \in DOMAIN cmds : cmds[i] = Halt
    \/ /\ Halted /\ (core = "publish" => msg = Halt)
       /\ \A i \in DOMAIN cmds : cmds[i] = Halt

QuitLate == exited = "quit" /\ core # "dead" => repl = "sleep" /\ slept["repl"] >= Turns

(* A core thread that has panicked leaves the wheels where they are.       *)
Live == Heard /\ Turning /\ Settled /\ Stopped /\ LastStop
IInv ==
  /\ TypeInv /\ Asking /\ QuitLate
  /\ IF core = "dead" THEN DriveAligned ELSE Live

-----------------------------------------------------------------------------
(* The channel to the core thread                                          *)

LEMMA Commands ==
  /\ Halt \in NodeCommand /\ Notify \in NodeCommand
  /\ \A o \in Orientations : DriveTo(o) \in NodeCommand /\ SteerTo(o) \in NodeCommand
  BY DEF Halt, Notify, DriveTo, SteerTo, Cmd, NodeCommand, Operation

(* Sending adds a command behind those that wait.                          *)
LEMMA Sending ==
  ASSUME cmds \in Seq(NodeCommand), NEW c \in NodeCommand, Send(c)
  PROVE  /\ core # "dead" /\ notifs' = notifs
         /\ cmds' \in Seq(NodeCommand)
         /\ Len(cmds) \in Nat /\ Len(cmds') = Len(cmds) + 1
         /\ DOMAIN cmds = 1 .. Len(cmds) /\ DOMAIN cmds' = 1 .. Len(cmds) + 1
         /\ \A n \in 1 .. Len(cmds) : cmds'[n] = cmds[n]
         /\ cmds'[Len(cmds) + 1] = c
  BY DEF Send

(* Taking one brings every other a place forward.                          *)
LEMMA Taking ==
  ASSUME cmds \in Seq(NodeCommand), cmds # << >>, cmds' = Tail(cmds)
  PROVE  /\ Head(cmds) = cmds[1] /\ cmds[1] \in NodeCommand
         /\ cmds' \in Seq(NodeCommand)
         /\ Len(cmds) \in Nat /\ Len(cmds) >= 1 /\ Len(cmds') = Len(cmds) - 1
         /\ DOMAIN cmds = 1 .. Len(cmds) /\ DOMAIN cmds' = 1 .. Len(cmds) - 1
         /\ \A n \in 1 .. Len(cmds) - 1 : cmds'[n] = cmds[n + 1]
  OBVIOUS

(* What a setpoint makes of the wheels.                                    *)
LEMMA Receiving ==
  ASSUME TypeOK, NEW ws, Receive(ws), msg.op # "NotifyWhenDone"
  PROVE  /\ vesc' \in [Wheels -> Orientations \cup {STOP}]
         /\ stepper' \in [Wheels -> Orientations \cup {STOP}]
  BY DEF TypeOK, Receive, NodeCommand

-----------------------------------------------------------------------------
(* Types                                                                   *)

(* The types of the variables, thread by thread.                           *)
ReplOK ==
  /\ repl \in {"prompt", "steer", "notify", "wait", "drive", "confirm", "quit",
               "sleep"}
  /\ target \in Orientations /\ wheels \in Orientations
  /\ is_stopped \in BOOLEAN /\ q_safety_interlock \in BOOLEAN
  /\ inputs \in 0 .. MaxInput
ChansOK == cmds \in Seq(NodeCommand) /\ notifs \in Nat
CoreOK ==
  /\ core \in {"poll", "publish", "check", "dead"}
  /\ msg \in NodeCommand /\ round \in 0 .. Repeats
  /\ notify_in_flight \in BOOLEAN /\ elapsed \in BOOLEAN
  /\ lost \in [Wheels -> 0 .. MaxLoss]
SleepOK ==
  /\ handler \in {"idle", "sleep", "dead"}
  /\ slept \in [{"repl", "handler"} -> 0 .. Turns] /\ behind \in Nat
  /\ exited \in {"no", "quit", "ctrl_c", "help_panic", "panic"}
NodesOK ==
  /\ vesc \in [Wheels -> Orientations \cup {STOP}]
  /\ stepper \in [Wheels -> Orientations]

LEMMA TypeParts == TypeOK <=> ReplOK /\ ChansOK /\ CoreOK /\ SleepOK /\ NodesOK
  BY DEF TypeOK, ReplOK, ChansOK, CoreOK, SleepOK, NodesOK

LEMMA TypeInit == Init => TypeInv
  <1> SUFFICES ASSUME Init PROVE TypeInv
    OBVIOUS
  <1>1. ReplOK
    BY OrientationAssumption, DeckardBounds DEF Init, ReplOK
  <1>2. ChansOK
    BY DEF Init, ChansOK
  <1>3. CoreOK
    <2>1. msg \in NodeCommand
      BY Commands DEF Init
    <2>2. round \in 0 .. Repeats
      BY DEF Init, Repeats
    <2>3. lost \in [Wheels -> 0 .. MaxLoss]
      BY DeckardBounds DEF Init
    <2> QED
      BY <2>1, <2>2, <2>3, Zenon DEF Init, CoreOK
  <1>4. SleepOK
    BY DeckardBounds DEF Init, SleepOK
  <1>5. NodesOK
    BY OrientationAssumption DEF Init, NodesOK
  <1>6. Publishing /\ Steerables
    BY DEF Init, Publishing, Steerables, Steerable, Halt, Cmd
  <1> QED
    BY <1>1, <1>2, <1>3, <1>4, <1>5, <1>6, TypeParts DEF TypeInv

LEMMA ReplTypeStep == TypeInv /\ [Next]_vars => ReplOK'
  <1> SUFFICES ASSUME TypeInv, [Next]_vars PROVE ReplOK'
    OBVIOUS
  <1>0. ReplOK
    BY TypeParts DEF TypeInv
  <1>1. ASSUME UNCHANGED <<repl, target, rover, inputs>> PROVE ReplOK'
    BY <1>0, <1>1 DEF ReplOK, rover
  <1>2. CASE CtrlC \/ CtrlCExit \/ Core \/ Elapse \/ CorePanic \/ Ended \/ UNCHANGED vars
    BY <1>1, <1>2 DEF CtrlC, CtrlCExit, Core, Take, TakeNothing, Publish, Check,
                      Elapse, CorePanic, Ended, vars
  <1>3. ASSUME Line PROVE inputs' \in 0 .. MaxInput
    BY <1>0, <1>3, DeckardBounds DEF ReplOK, Line
  <1>4. ASSUME NEW o \in Orientations, Move(o) PROVE ReplOK'
    BY <1>0, <1>3, <1>4 DEF ReplOK, Move, rover
  <1>5. CASE Stop
    BY <1>0, <1>3, <1>5 DEF ReplOK, Stop
  <1>6. CASE Interlock
    BY <1>0, <1>3, <1>6 DEF ReplOK, Interlock
  <1>7. CASE Quit
    BY <1>0, <1>3, <1>7 DEF ReplOK, Quit, rover
  <1>8. CASE Confirm \/ EndOfFile
    BY <1>0, <1>8 DEF ReplOK, Confirm, EndOfFile, rover
  <1>9. CASE HelpAlias \/ PromptPanic
    BY <1>0, <1>3, <1>9 DEF ReplOK, HelpAlias, PromptPanic, rover
  <1>10. CASE Steer \/ AskNotify \/ FinalStop
    BY <1>0, <1>10 DEF ReplOK, Steer, AskNotify, FinalStop, rover
  <1>11. CASE Wait
    BY <1>0, <1>11 DEF ReplOK, Wait
  <1>12. CASE Drive
    BY <1>0, <1>12 DEF ReplOK, Drive
  <1>13. CASE Return \/ ReplPanic
    BY <1>1, <1>13 DEF Return, ReplPanic
  <1> QED
    BY <1>2, <1>4, <1>5, <1>6, <1>7, <1>8, <1>9, <1>10, <1>11, <1>12, <1>13
    DEF Next, Repl, Working

LEMMA ChansTypeStep == TypeInv /\ [Next]_vars => ChansOK'
  <1> SUFFICES ASSUME TypeInv, [Next]_vars PROVE ChansOK'
    OBVIOUS
  <1>0. ChansOK /\ ReplOK
    BY TypeParts DEF TypeInv
  <1>1. ASSUME UNCHANGED chans PROVE ChansOK'
    BY <1>0, <1>1 DEF ChansOK, chans
  <1>2. ASSUME NEW c \in NodeCommand, Send(c) PROVE ChansOK'
    BY <1>0, <1>2, Sending DEF ChansOK
  <1>3. ASSUME NEW o \in Orientations, Move(o) PROVE ChansOK'
    BY <1>1, <1>2, <1>3, Commands DEF Move
  <1>4. CASE Stop \/ AskNotify \/ FinalStop \/ CtrlC
    BY <1>1, <1>2, <1>4, Commands DEF Stop, AskNotify, FinalStop, CtrlC, chans
  <1>5. CASE Steer \/ Drive
    BY <1>0, <1>2, <1>5, Commands DEF Steer, Drive, ReplOK, SteerTo, DriveTo
  <1>6. CASE Wait
    BY <1>0, <1>6 DEF ChansOK, Wait
  <1>7. CASE Take
    BY <1>0, <1>7, Taking DEF ChansOK, Take
  <1>8. CASE Check
    BY <1>0, <1>8 DEF ChansOK, Check
  <1>9. CASE \/ Interlock \/ Quit \/ Confirm \/ EndOfFile \/ HelpAlias \/ PromptPanic
             \/ Return \/ ReplPanic \/ CtrlCExit \/ TakeNothing \/ Elapse \/ CorePanic
             \/ Ended \/ UNCHANGED vars \/ \E miss \in SUBSET Wheels : Publish(miss)
    BY <1>1, <1>9 DEF Interlock, Quit, Confirm, EndOfFile, HelpAlias, PromptPanic,
       Return, ReplPanic, CtrlCExit, TakeNothing, Elapse, CorePanic, Ended, vars, Publish
  <1> QED
    BY <1>3, <1>4, <1>5, <1>6, <1>7, <1>8, <1>9 DEF Next, Repl, Working, Core

(* Every action of the REPL thread and of the ^C handler leaves the core   *)
(* thread and the wheels alone.                                            *)
LEMMA ReplOnly ==
  ASSUME Repl \/ CtrlC \/ CtrlCExit
  PROVE  UNCHANGED <<thread, nodes>>
  BY DEF Repl, Working, CtrlC, CtrlCExit, Move, Stop, Interlock, Quit, Confirm,
     EndOfFile, HelpAlias, PromptPanic, Steer, AskNotify, Wait, Drive, FinalStop,
     Return, ReplPanic

LEMMA CoreTypeStep == TypeInv /\ [Next]_vars => CoreOK'
  <1> SUFFICES ASSUME TypeInv, [Next]_vars PROVE CoreOK'
    OBVIOUS
  <1>0. ChansOK /\ CoreOK
    BY TypeParts DEF TypeInv
  <1>1. ASSUME UNCHANGED thread PROVE CoreOK'
    BY <1>0, <1>1 DEF CoreOK, thread
  <1>2. CASE Repl \/ CtrlC \/ CtrlCExit \/ Ended \/ UNCHANGED vars
    BY <1>1, <1>2, ReplOnly DEF Ended, vars
  <1>3. CASE Take
    <2>1. cmds \in Seq(NodeCommand) /\ cmds # << >> /\ cmds' = Tail(cmds)
      BY <1>0, <1>3 DEF ChansOK, Take
    <2>2. Head(cmds) \in NodeCommand
      BY <2>1, Taking
    <2>3. [w \in Wheels |-> 0] \in [Wheels -> 0 .. MaxLoss] /\ 0 \in 0 .. Repeats
      BY DeckardBounds DEF Repeats
    <2> QED
      BY <1>0, <1>3, <2>2, <2>3, Zenon DEF CoreOK, Take
  <1>4. CASE TakeNothing \/ Check
    BY <1>0, <1>4 DEF CoreOK, TakeNothing, Check
  <1>5. ASSUME NEW miss \in SUBSET Wheels, Publish(miss) PROVE CoreOK'
    <2>1. round < Repeats
      BY <1>5 DEF TypeInv, Publishing, Publish, CoreAt
    <2>2. round' \in 0 .. Repeats
      BY <1>0, <1>5, <2>1 DEF CoreOK, Publish, Repeats
    <2>3. \A w \in miss : lost[w] + 1 \in 0 .. MaxLoss
      BY <1>0, <1>5, DeckardBounds DEF CoreOK, Publish
    <2>4. lost' \in [Wheels -> 0 .. MaxLoss]
      BY <1>0, <1>5, <2>3 DEF CoreOK, Publish
    <2>5. core' \in {"publish", "check"}
      BY <1>5 DEF Publish
    <2> QED
      BY <1>0, <1>5, <2>2, <2>4, <2>5 DEF CoreOK, Publish
  <1>6. CASE Elapse
    BY <1>0, <1>6 DEF CoreOK, Elapse
  <1>7. CASE CorePanic
    BY <1>0, <1>7 DEF CoreOK, CorePanic
  <1> QED
    BY <1>2, <1>3, <1>4, <1>5, <1>6, <1>7 DEF Next, Core

LEMMA SleepTypeStep == TypeInv /\ [Next]_vars => SleepOK'
  <1> SUFFICES ASSUME TypeInv, [Next]_vars PROVE SleepOK'
    OBVIOUS
  <1>0. SleepOK /\ ChansOK
    BY TypeParts DEF TypeInv
  <1>1. CASE FinalStop
    <2>1. Len(cmds') \in Nat
      BY <1>0, <1>1, Commands, Sending DEF ChansOK, FinalStop
    <2> QED
      BY <1>0, <1>1, <2>1, DeckardBounds DEF SleepOK, FinalStop
  <1>2. CASE CtrlC
    BY <1>0, <1>2, DeckardBounds DEF SleepOK, CtrlC
  <1>3. CASE Check
    BY <1>0, <1>3, DeckardBounds DEF SleepOK, Check, Tick
  <1>4. ASSUME UNCHANGED <<handler, sleep, exited>> PROVE SleepOK'
    BY <1>0, <1>4 DEF SleepOK, sleep
  <1>5. ASSUME UNCHANGED <<handler, sleep>>,
               exited' \in {"quit", "ctrl_c", "help_panic", "panic"}
        PROVE  SleepOK'
    BY <1>0, <1>5 DEF SleepOK, sleep
  <1>6. CASE CtrlCExit \/ HelpAlias \/ PromptPanic \/ Return \/ ReplPanic
    BY <1>5, <1>6 DEF CtrlCExit, HelpAlias, PromptPanic, Return, ReplPanic
  <1>7. CASE \/ \E o \in Orientations : Move(o)
             \/ Stop \/ Interlock \/ Quit \/ Confirm \/ EndOfFile
             \/ Steer \/ AskNotify \/ Wait \/ Drive
    BY <1>4, <1>7 DEF Move, Stop, Interlock, Quit, Confirm, EndOfFile, Steer,
       AskNotify, Wait, Drive
  <1>8. CASE \/ Take \/ TakeNothing \/ (\E miss \in SUBSET Wheels : Publish(miss))
             \/ Elapse \/ CorePanic \/ Ended \/ UNCHANGED vars
    BY <1>4, <1>8 DEF Take, TakeNothing, Publish, Elapse, CorePanic, Ended, vars
  <1> QED
    BY <1>1, <1>2, <1>3, <1>6, <1>7, <1>8 DEF Next, Repl, Working, Core

LEMMA NodesTypeStep == TypeInv /\ [Next]_vars => NodesOK'
  <1> SUFFICES ASSUME TypeInv, [Next]_vars PROVE NodesOK'
    OBVIOUS
  <1>0. NodesOK /\ CoreOK
    BY TypeParts DEF TypeInv
  <1>1. ASSUME UNCHANGED nodes PROVE NodesOK'
    BY <1>0, <1>1 DEF NodesOK, nodes
  <1>2. CASE Repl \/ CtrlC \/ CtrlCExit
    BY <1>1, <1>2, ReplOnly
  <1>3. CASE Take \/ TakeNothing \/ Check \/ Elapse \/ Ended \/ UNCHANGED vars
    BY <1>1, <1>3 DEF Take, TakeNothing, Check, Elapse, Ended, vars
  <1>4. ASSUME NEW ws, Receive(ws) PROVE NodesOK'
    <2>1. msg.value \in Orientations \cup {STOP}
      BY <1>0 DEF CoreOK, NodeCommand
    <2>2. msg.op = "DriveStepper" => msg.value \in Orientations
      BY DEF TypeInv, Steerables, Steerable
    <2> QED
      BY <1>0, <1>4, <2>1, <2>2 DEF NodesOK, Receive
  <1>5. CASE (\E miss \in SUBSET Wheels : Publish(miss)) \/ CorePanic
    BY <1>1, <1>4, <1>5 DEF Publish, CorePanic
  <1> QED
    BY <1>2, <1>3, <1>5 DEF Next, Core

LEMMA PublishingStep == TypeInv /\ [Next]_vars => Publishing'
  <1> SUFFICES ASSUME TypeInv, [Next]_vars PROVE Publishing'
    OBVIOUS
  <1>0. CoreOK /\ Publishing
    BY TypeParts DEF TypeInv
  <1>1. ASSUME UNCHANGED <<core, msg, round>> PROVE Publishing'
    BY <1>0, <1>1 DEF Publishing
  <1>2. CASE Repl \/ CtrlC \/ CtrlCExit
    BY <1>1, <1>2, ReplOnly DEF thread
  <1>3. CASE Elapse \/ Ended \/ UNCHANGED vars
    BY <1>1, <1>3 DEF Elapse, Ended, vars, thread
  <1>4. CASE Take
    BY <1>4 DEF Publishing, Take, Repeats
  <1>5. CASE TakeNothing \/ Check \/ CorePanic
    BY <1>5 DEF Publishing, TakeNothing, Check, CorePanic
  <1>6. ASSUME NEW miss \in SUBSET Wheels, Publish(miss) PROVE Publishing'
    BY <1>0, <1>6 DEF Publishing, Publish, CoreAt, CoreOK
  <1> QED
    BY <1>2, <1>3, <1>4, <1>5, <1>6 DEF Next, Core

LEMMA SteerablesStep == TypeInv /\ [Next]_vars => Steerables'
  <1> SUFFICES ASSUME TypeInv, [Next]_vars PROVE Steerables'
    OBVIOUS
  <1>0. ReplOK /\ ChansOK /\ Steerables
    BY TypeParts DEF TypeInv
  <1>1. ASSUME UNCHANGED <<msg, cmds>> PROVE Steerables'
    BY <1>0, <1>1 DEF Steerables
  <1>2. ASSUME NEW c \in NodeCommand, Steerable(c), Send(c), UNCHANGED msg
        PROVE  Steerables'
    BY <1>0, <1>2, Sending DEF ChansOK, Steerables, Steerable
  <1>3. /\ Steerable(Halt) /\ Steerable(Notify)
        /\ \A o \in Orientations : Steerable(DriveTo(o)) /\ Steerable(SteerTo(o))
    BY DEF Steerable, Halt, Notify, DriveTo, SteerTo, Cmd
  <1>4. CASE Repl \/ CtrlC \/ CtrlCExit
    <2>1. msg' = msg
      BY <1>4, ReplOnly DEF thread
    <2>2. CASE Stop \/ AskNotify \/ FinalStop \/ CtrlC
      BY <1>1, <1>2, <1>3, <2>1, <2>2, Commands
      DEF Stop, AskNotify, FinalStop, CtrlC, chans
    <2>3. ASSUME NEW o \in Orientations, Move(o) PROVE Steerables'
      BY <1>1, <1>2, <1>3, <2>1, <2>3, Commands DEF Move, chans
    <2>4. CASE Steer \/ Drive
      BY <1>0, <1>2, <1>3, <2>1, <2>4, Commands
      DEF Steer, Drive, ReplOK, SteerTo, DriveTo
    <2>5. CASE \/ Interlock \/ Quit \/ Confirm \/ EndOfFile \/ HelpAlias
               \/ PromptPanic \/ Wait \/ Return \/ ReplPanic \/ CtrlCExit
      BY <1>1, <2>1, <2>5 DEF Interlock, Quit, Confirm, EndOfFile, HelpAlias,
         PromptPanic, Wait, Return, ReplPanic, CtrlCExit, chans
    <2> QED
      BY <1>4, <2>2, <2>3, <2>4, <2>5 DEF Repl, Working
  <1>5. CASE Take
    <2>1. cmds \in Seq(NodeCommand) /\ cmds # << >> /\ cmds' = Tail(cmds)
      BY <1>0, <1>5 DEF ChansOK, Take
    <2>2. msg' \in {msg, cmds[1]}
      BY <1>5, <2>1, Taking DEF Take
    <2> QED
      BY <1>0, <2>1, <2>2, Taking DEF Steerables, Steerable
  <1>6. CASE \/ TakeNothing \/ (\E miss \in SUBSET Wheels : Publish(miss)) \/ Check
             \/ Elapse \/ CorePanic \/ Ended \/ UNCHANGED vars
    BY <1>1, <1>6 DEF TakeNothing, Publish, Check, Elapse, CorePanic, Ended, vars,
       chans, thread
  <1> QED
    BY <1>4, <1>5, <1>6 DEF Next, Core

LEMMA TypeStep == TypeInv /\ [Next]_vars => TypeInv'
  <1>1. TypeOK' <=> ReplOK' /\ ChansOK' /\ CoreOK' /\ SleepOK' /\ NodesOK'
    BY DEF TypeOK, ReplOK, ChansOK, CoreOK, SleepOK, NodesOK
  <1> QED
    BY <1>1, ReplTypeStep, ChansTypeStep, CoreTypeStep, SleepTypeStep, NodesTypeStep,
       PublishingStep, SteerablesStep DEF TypeInv

(* Every variable keeps its type, whatever the operator types, the wheels  *)
(* miss and the threads panic.                                             *)
THEOREM TypeCorrect == Spec => []TypeOK
  <1>1. TypeInv => TypeOK
    BY DEF TypeInv
  <1> QED
    BY <1>1, TypeInit, TypeStep, PTL DEF Spec

-----------------------------------------------------------------------------
(* The notification                                                        *)

(* Only a request adds to the requests in the channel.                     *)
LEMMA SendRequests ==
  ASSUME ChansOK, NEW c \in NodeCommand, Send(c)
  PROVE  /\ c.op # "NotifyWhenDone" => Requests' = Requests
         /\ c.op = "NotifyWhenDone" => Requests' = Requests \cup {Len(cmds) + 1}
  BY Sending DEF ChansOK, Requests

(* A request at the head of the channel is taken out of it.                *)
LEMMA TakeRequests ==
  ASSUME ChansOK, cmds # << >>, cmds' = Tail(cmds)
  PROVE  /\ Requests = {} => Head(cmds).op # "NotifyWhenDone" /\ Requests' = {}
         /\ \A k : Requests = {k} =>
               IF Head(cmds).op = "NotifyWhenDone" THEN Requests' = {}
               ELSE k - 1 \in DOMAIN cmds' /\ Requests' = {k - 1}
  <1>1. Requests = {n \in 1 .. Len(cmds) : cmds[n].op = "NotifyWhenDone"}
    BY Taking DEF ChansOK, Requests
  <1>2. Requests' = {n \in 1 .. Len(cmds) - 1 : cmds[n + 1].op = "NotifyWhenDone"}
    BY Taking DEF ChansOK, Requests
  <1>3. Len(cmds) \in Nat /\ Len(cmds) >= 1 /\ Head(cmds) = cmds[1]
    BY Taking DEF ChansOK
  <1>4. ASSUME Requests = {} PROVE Head(cmds).op # "NotifyWhenDone" /\ Requests' = {}
    BY <1>1, <1>2, <1>3, <1>4
  <1>5. ASSUME NEW k, Requests = {k}, Head(cmds).op = "NotifyWhenDone" PROVE Requests' = {}
    <2>1. 1 \in Requests
      BY <1>1, <1>3, <1>5
    <2>2. \A n \in 1 .. Len(cmds) - 1 : cmds[n + 1].op = "NotifyWhenDone" => n + 1 = 1
      BY <1>1, <1>3, <1>5, <2>1
    <2> QED
      BY <1>2, <1>3, <2>2
  <1>6. ASSUME NEW k, Requests = {k}, Head(cmds).op # "NotifyWhenDone"
        PROVE  k - 1 \in DOMAIN cmds' /\ Requests' = {k - 1}
    <2>1. k \in 1 .. Len(cmds) /\ k # 1 /\ cmds[k].op = "NotifyWhenDone"
      BY <1>1, <1>3, <1>6
    <2>2. \A n \in 1 .. Len(cmds) - 1 : cmds[n + 1].op = "NotifyWhenDone" <=> n + 1 = k
      BY <1>1, <1>3, <1>6, <2>1
    <2>3. \A n \in 1 .. Len(cmds) - 1 : n + 1 = k <=> n = k - 1
      BY <1>3, <2>1
    <2>4. k - 1 \in 1 .. Len(cmds) - 1 /\ DOMAIN cmds' = 1 .. Len(cmds) - 1
      BY <1>3, <2>1, Taking DEF ChansOK
    <2> QED
      BY <1>2, <2>2, <2>3, <2>4
  <1> QED
    BY <1>4, <1>5, <1>6

LEMMA AskingStep == TypeInv /\ Asking /\ [Next]_vars => Asking'
  <1> SUFFICES ASSUME TypeInv, Asking, [Next]_vars PROVE Asking'
    OBVIOUS
  <1>0. ReplOK /\ ChansOK /\ CoreOK
    BY TypeParts DEF TypeInv
  <1>1. ASSUME UNCHANGED <<cmds, notifs, core, notify_in_flight>>,
               repl = "wait" <=> repl' = "wait"
        PROVE  Asking'
    BY <1>1 DEF Asking, Asked, Unasked, Requests
  <1>2. ASSUME NEW c \in NodeCommand, c.op # "NotifyWhenDone", Send(c),
               UNCHANGED <<core, notify_in_flight>>, repl # "wait", repl' # "wait"
        PROVE  Asking'
    <2>1. Requests' = Requests /\ notifs' = notifs
      BY <1>0, <1>2, SendRequests, Sending DEF ChansOK
    <2> QED
      BY <1>2, <2>1 DEF Asking, Asked, Unasked
  <1>3. /\ Halt.op # "NotifyWhenDone" /\ Notify.op = "NotifyWhenDone"
        /\ \A o : DriveTo(o).op # "NotifyWhenDone" /\ SteerTo(o).op # "NotifyWhenDone"
    BY DEF Halt, Notify, DriveTo, SteerTo, Cmd
  <1>4. CASE Repl
    <2>1. UNCHANGED <<core, notify_in_flight>>
      BY <1>4, ReplOnly DEF thread
    <2>2. CASE Stop \/ FinalStop
      BY <1>2, <1>3, <2>1, <2>2, Commands
      DEF Stop, FinalStop, Line, ReplAt
    <2>3. ASSUME NEW o \in Orientations, Move(o) PROVE Asking'
      BY <1>1, <1>2, <1>3, <2>1, <2>3, Commands DEF Move, Line, ReplAt, chans
    <2>4. CASE Steer \/ Drive
      BY <1>0, <1>2, <1>3, <2>1, <2>4, Commands
      DEF Steer, Drive, ReplOK, SteerTo, DriveTo, ReplAt
    <2>5. CASE AskNotify
      <3>1. Len(cmds) + 1 \in DOMAIN cmds' /\ notifs' = notifs
        BY <1>0, <2>5, Sending, Commands DEF AskNotify, ChansOK
      <3>2. Requests' = Requests \cup {Len(cmds) + 1}
        BY <1>0, <1>3, <2>5, SendRequests, Commands DEF AskNotify
      <3> QED
        BY <2>1, <2>5, <3>1, <3>2 DEF AskNotify, ReplAt, Send, Asking, Unasked
    <2>6. CASE Wait
      BY <1>0, <2>1, <2>6 DEF Wait, ReplAt, Asking, Asked, Unasked, Requests, ChansOK
    <2>7. CASE \/ Interlock \/ Quit \/ Confirm \/ EndOfFile \/ HelpAlias
               \/ PromptPanic \/ Return \/ ReplPanic
      BY <1>1, <2>1, <2>7 DEF Interlock, Quit, Confirm, EndOfFile, HelpAlias,
         PromptPanic, Return, ReplPanic, chans, Line, ReplAt
    <2> QED
      BY <1>4, <2>2, <2>3, <2>4, <2>5, <2>6, <2>7 DEF Repl, Working
  <1>5. CASE CtrlC
    <2>1. UNCHANGED <<core, notify_in_flight, repl>>
      BY <1>5 DEF CtrlC, thread
    <2>2. CASE core = "dead"
      BY <2>1, <2>2 DEF Asking
    <2>3. CASE Send(Halt)
      <3>1. Requests' = Requests /\ notifs' = notifs
        BY <1>0, <1>3, <2>3, SendRequests, Sending, Commands DEF ChansOK
      <3>2. CASE \E k \in DOMAIN cmds : Requests = {k}
        <4>1. \E k \in DOMAIN cmds' : Requests' = {k}
          BY <1>0, <2>3, <3>1, <3>2, Sending, Commands DEF ChansOK
        <4> QED
          BY <2>1, <3>1, <3>2, <4>1 DEF Asking, Asked, Unasked
      <3>3. CASE Requests = {}
        BY <2>1, <3>1, <3>3 DEF Asking, Asked, Unasked
      <3> QED
        BY <2>1, <3>2, <3>3 DEF Asking
    <2> QED
      BY <1>5, <2>2, <2>3 DEF CtrlC
  <1>6. CASE Take
    <2>1. /\ cmds # << >> /\ cmds' = Tail(cmds) /\ core = "poll"
          /\ UNCHANGED <<repl, notifs>>
      BY <1>6 DEF Take, CoreAt
    <2>2. CASE Requests = {}
      <3>1. Requests' = {} /\ notify_in_flight' = notify_in_flight
        BY <1>0, <1>6, <2>1, <2>2, TakeRequests DEF Take
      <3> QED
        BY <2>1, <2>2, <3>1 DEF Asking, Asked, Unasked
    <2>3. ASSUME NEW k \in DOMAIN cmds, Requests = {k} PROVE Asking'
      <3>0. repl = "wait" /\ Unasked
        BY <2>1, <2>3 DEF Asking
      <3>1. CASE Head(cmds).op = "NotifyWhenDone"
        <4>1. Requests' = {} /\ notify_in_flight' = TRUE
          BY <1>0, <1>6, <2>1, <2>3, <3>1, TakeRequests DEF Take
        <4> QED
          BY <2>1, <3>0, <4>1 DEF Asking, Asked, Unasked
      <3>2. CASE Head(cmds).op # "NotifyWhenDone"
        <4>1. k - 1 \in DOMAIN cmds' /\ Requests' = {k - 1}
          BY <1>0, <2>1, <2>3, <3>2, TakeRequests
        <4>2. notify_in_flight' = notify_in_flight
          BY <1>6, <3>2 DEF Take
        <4> QED
          BY <2>1, <3>0, <4>1, <4>2 DEF Asking, Unasked
      <3> QED
        BY <3>1, <3>2
    <2> QED
      BY <2>1, <2>2, <2>3 DEF Asking
  <1>7. CASE Check
    <2>1. UNCHANGED <<repl, cmds>> /\ core = "check" /\ Requests' = Requests
      BY <1>7 DEF Check, CoreAt, Requests
    <2> QED
      BY <1>0, <1>7, <2>1 DEF Check, Asking, Asked, Unasked, ChansOK
  <1>8. CASE TakeNothing \/ \E miss \in SUBSET Wheels : Publish(miss)
    <2>1. UNCHANGED <<repl, cmds, notifs, notify_in_flight>> /\ core # "dead"
      BY <1>8 DEF TakeNothing, Publish, CoreAt, chans
    <2> QED
      BY <2>1 DEF Asking, Asked, Unasked, Requests
  <1>9. CASE CorePanic
    BY <1>9 DEF CorePanic, Asking
  <1>10. CASE CtrlCExit \/ Elapse \/ Ended \/ UNCHANGED vars
    BY <1>1, <1>10 DEF CtrlCExit, Elapse, Ended, vars, thread, chans
  <1> QED
    BY <1>4, <1>5, <1>6, <1>7, <1>8, <1>9, <1>10 DEF Next, Core

(* The comment at NotifyWhenDone asks its caller never to have two         *)
(* notifications under way; the REPL keeps to that, and is never left      *)
(* waiting without one.                                                    *)
THEOREM NotifyDisciplined == Spec => []NotifyDiscipline
  <1>1. Init => Asking
    BY DEF Init, Asking, Unasked, Requests
  <1>2. Asking => NotifyDiscipline
    <2> SUFFICES ASSUME Asking, core # "dead"
                 PROVE  Notifies = IF repl = "wait" THEN 1 ELSE 0
      BY DEF NotifyDiscipline
    <2>1. Requests = {} => Cardinality(Requests) = 0
      BY FS_EmptySet
    <2>2. \A k : Requests = {k} => Cardinality(Requests) = 1
      BY FS_Singleton
    <2> QED
      BY <2>1, <2>2 DEF Asking, Asked, Unasked, Notifies
  <1>3. TypeInv /\ Asking /\ [Next]_vars => (TypeInv /\ Asking)'
    BY TypeStep, AskingStep
  <1> QED
    BY <1>1, <1>2, <1>3, TypeInit, PTL DEF Spec

-----------------------------------------------------------------------------
(* Setpoints and the wheels that miss them                                 *)

(* A wheel that has missed fewer repetitions than there were has heard one.*)
LEMMA Hearing ==
  ASSUME TypeInv, Heard, NEW miss \in SUBSET Wheels, Publish(miss)
  PROVE  \A w \in Wheels :
           /\ lost'[w] <= round'
           /\ lost'[w] < round' => /\ msg.op = "DriveVesc" => vesc'[w] = msg.value
                                   /\ msg.op = "DriveStepper" => stepper'[w] = msg.value
  <1> SUFFICES ASSUME NEW w \in Wheels
               PROVE  /\ lost'[w] <= round'
                      /\ lost'[w] < round' =>
                           /\ msg.op = "DriveVesc" => vesc'[w] = msg.value
                           /\ msg.op = "DriveStepper" => stepper'[w] = msg.value
    OBVIOUS
  <1>1. CoreOK
    BY TypeParts DEF TypeInv
  <1>2. lost[w] \in Nat /\ round \in Nat
    BY <1>1, DeckardBounds DEF CoreOK, Repeats
  <1>3. /\ lost[w] <= round
        /\ lost[w] < round => /\ msg.op = "DriveVesc" => vesc[w] = msg.value
                              /\ msg.op = "DriveStepper" => stepper[w] = msg.value
    BY DEF Heard, Publish, CoreAt
  <1>4. CASE w \in miss
    <2>1. lost'[w] = lost[w] + 1 /\ round' = round + 1
      BY <1>4 DEF Publish
    <2>2. vesc'[w] = vesc[w] /\ stepper'[w] = stepper[w]
      BY <1>4 DEF Publish, Receive
    <2> QED
      BY <1>2, <1>3, <2>1, <2>2
  <1>5. CASE w \notin miss
    <2>1. lost'[w] = lost[w] /\ round' = round + 1
      BY <1>5 DEF Publish
    <2>2. /\ msg.op = "DriveVesc" => vesc'[w] = msg.value
          /\ msg.op = "DriveStepper" => stepper'[w] = msg.value
      BY <1>5 DEF Publish, Receive
    <2> QED
      BY <1>2, <1>3, <2>1, <2>2
  <1> QED
    BY <1>4, <1>5

(* So when the last repetition is out, every wheel has heard the setpoint. *)
LEMMA AllHeard ==
  ASSUME MaxLoss < Repeats, TypeInv, Heard,
         NEW miss \in SUBSET Wheels, Publish(miss), core' # "publish"
  PROVE  \A w \in Wheels : /\ msg.op = "DriveVesc" => vesc'[w] = msg.value
                           /\ msg.op = "DriveStepper" => stepper'[w] = msg.value
  <1>1. CoreOK /\ CoreOK'
    BY TypeParts, CoreTypeStep DEF TypeInv, Next, Core
  <1>2. round' >= Repeats
    BY <1>1 DEF Publish, Repeats, CoreOK
  <1>3. \A w \in Wheels : lost'[w] < round'
    BY <1>1, <1>2, DeckardBounds DEF CoreOK, Repeats
  <1> QED
    BY <1>3, Hearing

(* A setpoint leaves the other kind alone, and what it does not set.       *)
LEMMA Setting ==
  ASSUME NEW ws, Receive(ws)
  PROVE  /\ msg.op # "DriveVesc" => \A w \in Wheels : vesc'[w] = vesc[w]
         /\ msg.op # "DriveStepper" => \A w \in Wheels : stepper'[w] = stepper[w]
         /\ \A w \in Wheels : vesc'[w] \in {vesc[w], msg.value}
  BY DEF Receive

-----------------------------------------------------------------------------
(* The stop that is on its way                                             *)

(* What is sent behind place n does not matter to it.                      *)
LEMMA SendStopping ==
  ASSUME ChansOK, NEW c \in NodeCommand, Send(c), UNCHANGED <<core, msg, vesc>>,
         NEW n \in 1 .. Len(cmds) + 1, Stopping(n)
  PROVE  Stopping(n)'
  <1>1. Len(cmds) \in Nat /\ \A i \in 1 .. n - 1 : cmds'[i] = cmds[i]
    BY Sending DEF ChansOK
  <1>2. StoppingNow' = StoppingNow
    BY DEF StoppingNow, Halted
  <1> QED
    BY <1>1, <1>2 DEF Stopping

(* Nor does a command that drives nothing, or stops.                       *)
LEMMA SendStops ==
  ASSUME ChansOK, NEW c \in NodeCommand, Send(c), UNCHANGED <<core, msg, vesc>>,
         \/ c = Halt
         \/ c.op # "DriveVesc" /\ Stopping(Len(cmds) + 1)
  PROVE  Stopping(Len(cmds) + 1)'
  <1>1. /\ Len(cmds) \in Nat /\ Len(cmds') = Len(cmds) + 1 /\ cmds'[Len(cmds) + 1] = c
        /\ \A i \in 1 .. Len(cmds) : cmds'[i] = cmds[i]
    BY Sending DEF ChansOK
  <1>2. CASE c = Halt
    BY <1>1, <1>2 DEF Stopping
  <1>3. CASE c.op # "DriveVesc" /\ Stopping(Len(cmds) + 1)
    <2>1. StoppingNow' = StoppingNow
      BY DEF StoppingNow, Halted
    <2>2. Len(cmds) + 1 - 1 = Len(cmds) /\ Len(cmds') + 1 - 1 = Len(cmds) + 1
      BY <1>1
    <2>3. ASSUME NEW j \in 1 .. Len(cmds), cmds[j] = Halt,
                 \A i \in j + 1 .. Len(cmds) : cmds[i].op # "DriveVesc"
          PROVE  /\ j \in 1 .. Len(cmds) + 1 /\ cmds'[j] = Halt
                 /\ \A i \in j + 1 .. Len(cmds) + 1 : cmds'[i].op # "DriveVesc"
      BY <1>1, <1>3, <2>3
    <2>4. ASSUME \A i \in 1 .. Len(cmds) : cmds[i].op # "DriveVesc"
          PROVE  \A i \in 1 .. Len(cmds) + 1 : cmds'[i].op # "DriveVesc"
      BY <1>1, <1>3, <2>4
    <2> QED
      BY <1>3, <2>1, <2>2, <2>3, <2>4 DEF Stopping
  <1> QED
    BY <1>2, <1>3

(* Taking a command brings it a place forward.                             *)
LEMMA TakeStopping ==
  ASSUME ChansOK, Take, NEW n \in 2 .. Len(cmds) + 1, Stopping(n)
  PROVE  Stopping(n - 1)'
  <1>1. /\ cmds # << >> /\ cmds' = Tail(cmds) /\ core = "poll" /\ vesc' = vesc
    BY DEF Take, CoreAt, nodes
  <1>2. /\ Len(cmds) \in Nat /\ Head(cmds) = cmds[1]
        /\ \A i \in 1 .. Len(cmds) - 1 : cmds'[i] = cmds[i + 1]
    BY <1>1, Taking DEF ChansOK
  <1>3. cmds[1].op # "DriveVesc" /\ StoppingNow => StoppingNow'
    BY <1>1, <1>2 DEF Take, StoppingNow, Halted
  <1>4. cmds[1] = Halt => StoppingNow'
    BY <1>1, <1>2 DEF Take, StoppingNow, Halt, Cmd
  <1>5. ASSUME NEW j \in 1 .. n - 1, cmds[j] = Halt,
               \A i \in j + 1 .. n - 1 : cmds[i].op # "DriveVesc"
        PROVE  Stopping(n - 1)'
    <2>1. CASE j = 1
      <3>1. \A i \in 1 .. n - 2 : cmds'[i].op # "DriveVesc"
        BY <1>2, <1>5, <2>1
      <3> QED
        BY <1>4, <1>5, <2>1, <3>1 DEF Stopping
    <2>2. CASE j # 1
      <3>1. j - 1 \in 1 .. n - 2 /\ cmds'[j - 1] = Halt
        BY <1>2, <1>5, <2>2
      <3>2. \A i \in (j - 1) + 1 .. n - 2 : cmds'[i].op # "DriveVesc"
        BY <1>2, <1>5, <2>2
      <3> QED
        BY <3>1, <3>2 DEF Stopping
    <2> QED
      BY <2>1, <2>2
  <1>6. ASSUME StoppingNow, \A i \in 1 .. n - 1 : cmds[i].op # "DriveVesc"
        PROVE  Stopping(n - 1)'
    <2>1. \A i \in 1 .. n - 2 : cmds'[i].op # "DriveVesc"
      BY <1>2, <1>6
    <2>2. StoppingNow'
      BY <1>3, <1>6
    <2> QED
      BY <2>1, <2>2 DEF Stopping
  <1> QED
    BY <1>5, <1>6 DEF Stopping

(* Publishing does not undo it.                                            *)
LEMMA PublishStopping ==
  ASSUME MaxLoss < Repeats, TypeInv, Heard,
         NEW miss \in SUBSET Wheels, Publish(miss), NEW n, Stopping(n)
  PROVE  Stopping(n)'
  <1>1. cmds' = cmds /\ msg' = msg /\ core = "publish"
    BY DEF Publish, CoreAt, chans
  <1>2. StoppingNow => StoppingNow'
    <2>1. CASE msg.op # "DriveVesc"
      <3>1. \A w \in Wheels : vesc'[w] = vesc[w]
        BY <2>1, Setting DEF Publish
      <3> QED
        BY <1>1, <2>1, <3>1 DEF StoppingNow, Halted
    <2>2. CASE msg.op = "DriveVesc" /\ core' = "publish"
      BY <1>1, <2>2 DEF StoppingNow
    <2>3. CASE msg.op = "DriveVesc" /\ core' # "publish"
      BY <1>1, <2>3, AllHeard DEF StoppingNow, Halted
    <2> QED
      BY <2>1, <2>2, <2>3
  <1> QED
    BY <1>1, <1>2 DEF Stopping

-----------------------------------------------------------------------------
(* The invariant, action by action                                         *)

LEMMA LiveInit == Init => Live
  <1> SUFFICES ASSUME Init PROVE Live
    OBVIOUS
  <1>1. cmds = << >> /\ DOMAIN cmds = {} /\ Len(cmds) = 0 /\ core = "poll" /\ repl = "prompt"
    BY DEF Init
  <1>2. Heard /\ Turning /\ LastStop
    BY <1>1 DEF Heard, Turning, LastStop
  <1>3. Settled
    BY <1>1 DEF Init, Settled, InPosition
  <1>4. Stopped
    BY <1>1 DEF Init, Stopped, Stopping, StoppingNow, Halted
  <1> QED
    BY <1>2, <1>3, <1>4 DEF Live

(* A halt sent by either thread.                                           *)
LEMMA HaltHeard ==
  ASSUME TypeInv, Live, Send(Halt), UNCHANGED <<wheels, thread, nodes>>,
         target' = target \/ repl' = "steer",
         repl \in {"notify", "wait"} <=> repl' \in {"notify", "wait"},
         repl' = "drive" => repl = "drive"
  PROVE  Heard' /\ Turning' /\ Settled' /\ Stopped'
  <1>1. ChansOK
    BY TypeParts DEF TypeInv
  <1>2. /\ Len(cmds) \in Nat /\ DOMAIN cmds = 1 .. Len(cmds)
        /\ DOMAIN cmds' = 1 .. Len(cmds) + 1 /\ Len(cmds') = Len(cmds) + 1
        /\ \A n \in 1 .. Len(cmds) : cmds'[n] = cmds[n]
        /\ cmds'[Len(cmds) + 1] = Halt /\ notifs' = notifs
    BY <1>1, Sending, Commands DEF ChansOK
  <1>3. UNCHANGED <<core, msg, round, lost, notify_in_flight, vesc, stepper>>
    BY DEF thread, nodes
  <1>4. Heard'
    BY <1>3 DEF Live, Heard
  <1>5. Settled'
    BY <1>2, <1>3 DEF Live, Settled, InPosition, Keeps
  <1>6. Stopped'
    BY <1>1, <1>3, SendStops, Commands DEF Stopped
  <1>7. Turning'
    <2> SUFFICES ASSUME repl' \in {"notify", "wait"} PROVE (Queued \/ Turned)'
      BY DEF Turning
    <2>0. target' = target
      OBVIOUS
    <2>1. Turned => Turned'
      BY <1>2, <1>3, <2>0 DEF Turned, Halted, Unasked
    <2>2. ASSUME Queued PROVE Queued'
      <3>1. PICK k \in DOMAIN cmds :
              /\ cmds[k] = SteerTo(target) /\ Stopping(k)
              /\ \A i \in 1 .. k - 1 : Keeps(i)
              /\ \A i \in k + 1 .. Len(cmds) : cmds[i] \in {Halt, Notify}
        BY <2>2 DEF Queued
      <3>2. Stopping(k)'
        BY <1>1, <1>2, <1>3, <3>1, SendStopping, Commands
      <3>3. \A i \in 1 .. k - 1 : Keeps(i)'
        BY <1>2, <3>1 DEF Keeps
      <3>4. \A i \in k + 1 .. Len(cmds') : cmds'[i] \in {Halt, Notify}
        BY <1>2, <3>1
      <3>5. k \in DOMAIN cmds' /\ cmds'[k] = SteerTo(target)'
        BY <1>2, <2>0, <3>1
      <3>6. InPosition' /\ Unasked'
        BY <1>2, <1>3, <2>2 DEF Queued, InPosition, Unasked
      <3> QED
        BY <3>2, <3>3, <3>4, <3>5, <3>6 DEF Queued
    <2> QED
      BY <2>1, <2>2 DEF Live, Turning
  <1> QED
    BY <1>4, <1>5, <1>6, <1>7

(* Steps that neither send, take nor publish, and note no new stop.        *)
LEMMA QuietLive ==
  ASSUME Live,
         UNCHANGED <<wheels, is_stopped, chans, core, msg, round, notify_in_flight,
                     lost, sleep, nodes>>,
         \/ UNCHANGED <<repl, target>>
         \/ repl \in {"prompt", "confirm"} /\ repl' \in {"prompt", "confirm", "quit"}
         \/ repl = "prompt" /\ repl' = "drive" /\ target' = wheels
  PROVE  Live'
  <1>1. UNCHANGED <<cmds, notifs, slept, behind, vesc, stepper>>
    BY DEF chans, sleep, nodes
  <1>2. Heard'
    BY <1>1 DEF Live, Heard
  <1>3. Turning'
    BY <1>1 DEF Live, Turning, Queued, Turned, InPosition, Keeps, Stopping, StoppingNow,
       Halted, Unasked
  <1>4. Settled'
    BY <1>1 DEF Live, Settled, InPosition, Keeps
  <1>5. Stopped'
    BY <1>1 DEF Live, Stopped, Stopping, StoppingNow, Halted
  <1>6. LastStop'
    BY <1>1 DEF Live, LastStop, Halted
  <1> QED
    BY <1>2, <1>3, <1>4, <1>5, <1>6 DEF Live

LEMMA SteerLive ==
  ASSUME TypeInv, Asking, Live, Steer
  PROVE  Live'
  <1>1. ReplOK /\ ChansOK
    BY TypeParts DEF TypeInv
  <1>2. /\ repl = "steer" /\ repl' = "notify"
        /\ UNCHANGED <<target, wheels, is_stopped, core, msg, round, notify_in_flight,
                       lost, slept, behind, vesc, stepper>>
        /\ core # "dead"
    BY DEF Steer, ReplAt, Send, rover, thread, sleep, nodes
  <1>3. SteerTo(target) \in NodeCommand /\ Send(SteerTo(target))
    BY <1>1, Commands DEF ReplOK, Steer, SteerTo
  <1>4. /\ Len(cmds) \in Nat /\ DOMAIN cmds = 1 .. Len(cmds)
        /\ DOMAIN cmds' = 1 .. Len(cmds) + 1 /\ Len(cmds') = Len(cmds) + 1
        /\ \A n \in 1 .. Len(cmds) : cmds'[n] = cmds[n]
        /\ cmds'[Len(cmds) + 1] = SteerTo(target) /\ notifs' = notifs
    BY <1>1, <1>3, Sending DEF ChansOK
  <1>5. Stopping(Len(cmds) + 1)
    BY <1>2 DEF Live, Stopped
  <1>6. Queued'
    <2>1. PICK k \in Nat : k = Len(cmds) + 1
      BY <1>4
    <2>2. k \in 1 .. Len(cmds) + 1 /\ Stopping(k)
      BY <1>4, <1>5, <2>1
    <2>3. Stopping(k)'
      BY <1>1, <1>2, <1>3, <2>2, SendStopping
    <2>4. InPosition' /\ \A i \in 1 .. k - 1 : Keeps(i)'
      BY <1>2, <1>4, <2>1 DEF Live, Settled, InPosition, Keeps
    <2>5. Unasked'
      BY <1>2, <1>4 DEF Asking, Unasked
    <2>6. k \in DOMAIN cmds' /\ cmds'[k] = SteerTo(target)'
      BY <1>2, <1>4, <2>1 DEF SteerTo, Cmd
    <2>7. \A i \in k + 1 .. Len(cmds') : cmds'[i] \in {Halt, Notify}
      BY <1>4, <2>1
    <2> QED
      BY <2>3, <2>4, <2>5, <2>6, <2>7 DEF Queued
  <1>7. Stopped'
    <2>1. SteerTo(target).op # "DriveVesc"
      BY DEF SteerTo, Cmd
    <2> QED
      BY <1>1, <1>2, <1>3, <1>5, <2>1, SendStops DEF Stopped
  <1>8. Heard'
    BY <1>2 DEF Live, Heard
  <1> QED
    BY <1>2, <1>6, <1>7, <1>8 DEF Live, Turning, Settled, LastStop

LEMMA AskNotifyLive ==
  ASSUME TypeInv, Live, AskNotify
  PROVE  Live'
  <1>1. ChansOK
    BY TypeParts DEF TypeInv
  <1>2. /\ repl = "notify" /\ repl' = "wait"
        /\ UNCHANGED <<target, wheels, is_stopped, core, msg, round, notify_in_flight,
                       lost, slept, behind, vesc, stepper>>
        /\ Send(Notify)
    BY DEF AskNotify, ReplAt, rover, thread, sleep, nodes
  <1>3. /\ Len(cmds) \in Nat /\ DOMAIN cmds = 1 .. Len(cmds)
        /\ DOMAIN cmds' = 1 .. Len(cmds) + 1 /\ Len(cmds') = Len(cmds) + 1
        /\ \A n \in 1 .. Len(cmds) : cmds'[n] = cmds[n]
        /\ cmds'[Len(cmds) + 1] = Notify /\ notifs' = notifs
    BY <1>1, <1>2, Sending, Commands DEF ChansOK
  <1>4. Turned => Turned'
    BY <1>2, <1>3 DEF Turned, Halted, Unasked
  <1>5. ASSUME Queued PROVE Queued'
    <2>1. PICK k \in DOMAIN cmds :
            /\ cmds[k] = SteerTo(target) /\ Stopping(k)
            /\ \A i \in 1 .. k - 1 : Keeps(i)
            /\ \A i \in k + 1 .. Len(cmds) : cmds[i] \in {Halt, Notify}
      BY <1>5 DEF Queued
    <2>2. Stopping(k)'
      BY <1>1, <1>2, <1>3, <2>1, SendStopping, Commands
    <2>3. \A i \in 1 .. k - 1 : Keeps(i)'
      BY <1>2, <1>3, <2>1 DEF Keeps
    <2>4. \A i \in k + 1 .. Len(cmds') : cmds'[i] \in {Halt, Notify}
      BY <1>3, <2>1
    <2>5. k \in DOMAIN cmds' /\ cmds'[k] = SteerTo(target)'
      BY <1>2, <1>3, <2>1
    <2>6. InPosition' /\ Unasked'
      BY <1>2, <1>3, <1>5 DEF Queued, InPosition, Unasked
    <2> QED
      BY <2>2, <2>3, <2>4, <2>5, <2>6 DEF Queued
  <1>6. Stopped'
    <2>1. Notify.op # "DriveVesc"
      BY DEF Notify, Cmd
    <2> QED
      BY <1>1, <1>2, <2>1, SendStops, Commands DEF Live, Stopped
  <1>7. Heard'
    BY <1>2 DEF Live, Heard
  <1> QED
    BY <1>2, <1>4, <1>5, <1>6, <1>7 DEF Live, Turning, Settled, LastStop

(* The notification comes when the wheels have been steered, and no sooner.*)
LEMMA WaitLive ==
  ASSUME TypeInv, Asking, Live, Wait, core # "dead"
  PROVE  Live'
  <1>1. ChansOK /\ ReplOK
    BY TypeParts DEF TypeInv
  <1>2. /\ repl = "wait" /\ repl' = "drive" /\ notifs > 0 /\ wheels' = target
        /\ UNCHANGED <<target, is_stopped, cmds, core, msg, round, notify_in_flight,
                       lost, slept, behind, vesc, stepper>>
    BY DEF Wait, ReplAt, thread, sleep, nodes
  <1>3. ~Unasked
    BY <1>1, <1>2 DEF Unasked, ChansOK
  <1>4. Requests = {} /\ Turned
    BY <1>2, <1>3 DEF Asking, Live, Turning, Queued
  <1>5. \A i \in DOMAIN cmds : cmds[i] = Halt
    BY <1>4 DEF Turned, Requests, Notify, Cmd
  <1>6. (core = "publish" => msg = Halt) /\ \A w \in Wheels : stepper[w] = target
    BY <1>3, <1>4 DEF Turned
  <1>7. Settled'
    BY <1>2, <1>4, <1>5, <1>6 DEF Settled, InPosition, Keeps, Turned, Halted
  <1>8. Stopped'
    BY <1>2 DEF Live, Stopped, Stopping, StoppingNow, Halted
  <1>9. Heard'
    BY <1>2 DEF Live, Heard
  <1> QED
    BY <1>2, <1>7, <1>8, <1>9 DEF Live, Turning, LastStop

LEMMA DriveLive ==
  ASSUME TypeInv, Live, Drive
  PROVE  Live'
  <1>1. ReplOK /\ ChansOK
    BY TypeParts DEF TypeInv
  <1>2. /\ repl = "drive" /\ repl' = "prompt" /\ is_stopped' = FALSE
        /\ UNCHANGED <<wheels, core, msg, round, lost, vesc, stepper>>
    BY DEF Drive, ReplAt, thread, nodes
  <1>3. target = wheels
    BY <1>2 DEF Live, Settled
  <1>4. DriveTo(wheels) \in NodeCommand /\ Send(DriveTo(wheels))
    BY <1>1, <1>3, Commands DEF ReplOK, Drive, DriveTo
  <1>5. /\ DOMAIN cmds = 1 .. Len(cmds) /\ DOMAIN cmds' = 1 .. Len(cmds) + 1
        /\ Len(cmds) \in Nat
        /\ \A n \in 1 .. Len(cmds) : cmds'[n] = cmds[n]
        /\ cmds'[Len(cmds) + 1] = DriveTo(wheels)
    BY <1>1, <1>4, Sending DEF ChansOK
  <1>6. Settled'
    BY <1>2, <1>5 DEF Live, Settled, InPosition, Keeps, DriveTo, Cmd
  <1>7. Heard'
    BY <1>2 DEF Live, Heard
  <1> QED
    BY <1>2, <1>6, <1>7 DEF Live, Turning, Stopped, LastStop

LEMMA FinalStopLive ==
  ASSUME TypeInv, Live, FinalStop
  PROVE  Live'
  <1>1. ChansOK /\ SleepOK
    BY TypeParts DEF TypeInv
  <1>2. /\ repl = "quit" /\ repl' = "sleep" /\ Send(Halt)
        /\ slept'["repl"] = 0 /\ behind' = Len(cmds')
        /\ UNCHANGED <<target, wheels, thread, nodes>>
    BY <1>1 DEF FinalStop, ReplAt, rover, SleepOK
  <1>3. /\ Len(cmds) \in Nat /\ Len(cmds') = Len(cmds) + 1
        /\ DOMAIN cmds' = 1 .. Len(cmds) + 1 /\ cmds'[Len(cmds) + 1] = Halt
    BY <1>1, <1>2, Sending, Commands DEF ChansOK
  <1>4. LastStop'
    BY <1>2, <1>3 DEF LastStop
  <1> QED
    BY <1>2, <1>4, HaltHeard DEF Live

LEMMA CtrlCLive ==
  ASSUME TypeInv, Live, CtrlC, core # "dead"
  PROVE  Live'
  <1>1. ChansOK /\ SleepOK
    BY TypeParts DEF TypeInv
  <1>2. /\ Send(Halt) /\ repl' = repl /\ slept'["repl"] = slept["repl"]
        /\ UNCHANGED <<target, wheels, thread, nodes, behind, core, msg, vesc>>
    BY <1>1 DEF CtrlC, rover, SleepOK, thread, nodes
  <1>3. Heard' /\ Turning' /\ Settled' /\ Stopped'
    BY <1>2, HaltHeard
  <1>4. /\ Len(cmds) \in Nat /\ Len(cmds') = Len(cmds) + 1
        /\ DOMAIN cmds = 1 .. Len(cmds) /\ DOMAIN cmds' = 1 .. Len(cmds) + 1
        /\ \A n \in 1 .. Len(cmds) : cmds'[n] = cmds[n]
        /\ cmds'[Len(cmds) + 1] = Halt
    BY <1>1, <1>2, Sending, Commands DEF ChansOK
  <1>5. LastStop'
    <2> SUFFICES ASSUME repl = "sleep" PROVE LastStop'
      BY <1>2 DEF LastStop
    <2>1. ASSUME NEW p \in DOMAIN cmds, \A i \in p .. Len(cmds) : cmds[i] = Halt,
                 p <= behind - slept["repl"] + (IF core = "poll" THEN 1 ELSE 0)
          PROVE  LastStop'
      <3>1. p \in DOMAIN cmds' /\ \A i \in p .. Len(cmds') : cmds'[i] = Halt
        BY <1>4, <2>1
      <3> QED
        BY <1>2, <2>1, <3>1 DEF LastStop
    <2>2. (\A i \in DOMAIN cmds : cmds[i] = Halt) => \A i \in DOMAIN cmds' : cmds'[i] = Halt
      BY <1>4
    <2> QED
      BY <1>2, <2>1, <2>2 DEF Live, LastStop, Halted
  <1> QED
    BY <1>3, <1>5 DEF Live

LEMMA ReplLive ==
  ASSUME TypeInv, Asking, Live, core # "dead", Repl
  PROVE  Live'
  <1>1. CASE Steer \/ AskNotify \/ Wait \/ Drive \/ FinalStop
    BY <1>1, SteerLive, AskNotifyLive, WaitLive, DriveLive, FinalStopLive
  <1>2. CASE Interlock \/ Quit \/ Confirm \/ EndOfFile \/ HelpAlias \/ Return
    <2>1. /\ UNCHANGED <<wheels, is_stopped, chans, core, msg, round,
                         notify_in_flight, lost, sleep, nodes, target>>
          /\ \/ repl' = repl
             \/ repl \in {"prompt", "confirm"} /\ repl' \in {"prompt", "confirm", "quit"}
      BY <1>2 DEF Interlock, Quit, Confirm, EndOfFile, HelpAlias, Return, Line, ReplAt,
         rover, thread
    <2> QED
      BY <2>1, QuietLive
  <1>3. CASE PromptPanic \/ ReplPanic
    BY <1>3 DEF PromptPanic, ReplPanic
  <1>4. CASE Stop
    <2>1. /\ repl = "prompt" /\ repl' = "prompt" /\ Send(Halt)
          /\ UNCHANGED <<target, wheels, thread, nodes>>
      BY <1>4 DEF Stop, Line, ReplAt
    <2> QED
      BY <2>1, HaltHeard DEF Live, LastStop
  <1>5. ASSUME NEW o \in Orientations, Move(o) PROVE Live'
    <2>1. CASE o = wheels /\ repl' = "drive" /\ UNCHANGED chans
      <3>1. /\ UNCHANGED <<wheels, is_stopped, core, msg, round,
                           notify_in_flight, lost, sleep, nodes>>
            /\ repl = "prompt" /\ target' = wheels
        BY <1>5, <2>1 DEF Move, Line, ReplAt, rover, thread
      <3> QED
        BY <2>1, <3>1, QuietLive
    <2>2. CASE o # wheels /\ repl' = "steer" /\ Send(Halt)
      <3>1. repl = "prompt" /\ UNCHANGED <<wheels, thread, nodes>>
        BY <1>5 DEF Move, Line, ReplAt, rover
      <3> QED
        BY <2>2, <3>1, HaltHeard DEF Live, LastStop
    <2> QED
      BY <1>5, <2>1, <2>2 DEF Move
  <1> QED
    BY <1>1, <1>2, <1>3, <1>4, <1>5 DEF Repl, Working

LEMMA TakeLive ==
  ASSUME TypeInv, Live, Take
  PROVE  Live'
  <1>1. ReplOK /\ ChansOK /\ CoreOK /\ SleepOK
    BY TypeParts DEF TypeInv
  <1>2. /\ core = "poll" /\ cmds # << >> /\ cmds' = Tail(cmds)
        /\ UNCHANGED <<repl, target, wheels, is_stopped, notifs, slept, behind, vesc,
                       stepper>>
    BY DEF Take, CoreAt, rover, sleep, nodes
  <1>3. /\ Head(cmds) = cmds[1] /\ Len(cmds) \in Nat /\ Len(cmds) >= 1
        /\ Len(cmds') = Len(cmds) - 1
        /\ DOMAIN cmds = 1 .. Len(cmds) /\ DOMAIN cmds' = 1 .. Len(cmds) - 1
        /\ \A n \in 1 .. Len(cmds) - 1 : cmds'[n] = cmds[n + 1]
    BY <1>1, <1>2, Taking DEF ChansOK
  <1>4. \/ /\ cmds[1].op = "NotifyWhenDone" /\ core' = "check"
           /\ notify_in_flight' = TRUE
        \/ /\ cmds[1].op # "NotifyWhenDone" /\ core' = "publish" /\ msg' = cmds[1]
           /\ round' = 0 /\ lost' = [w \in Wheels |-> 0]
           /\ notify_in_flight' = notify_in_flight
    BY <1>3 DEF Take
  <1>5. Heard'
    BY <1>4 DEF Heard
  <1>6. Stopped'
    BY <1>1, <1>2, <1>3, TakeStopping DEF Live, Stopped
  <1>7. Settled'
    <2> SUFFICES ASSUME repl \notin {"notify", "wait"} PROVE Settled'
      BY <1>2 DEF Settled
    <2>1. Keeps(1) /\ \A n \in 1 .. Len(cmds) - 1 : Keeps(n)'
      BY <1>2, <1>3 DEF Live, Settled, Keeps
    <2>2. InPosition'
      BY <1>2, <1>4, <2>1 DEF Live, Settled, InPosition, Keeps
    <2> QED
      BY <1>2, <1>3, <2>1, <2>2 DEF Live, Settled
  <1>8. Turning'
    <2> SUFFICES ASSUME repl \in {"notify", "wait"} PROVE (Queued \/ Turned)'
      BY <1>2 DEF Turning
    <2>1. ASSUME Turned PROVE Turned'
      <3>1. cmds[1] \in {Halt, Notify}
            /\ \A n \in 1 .. Len(cmds) - 1 : cmds'[n] \in {Halt, Notify}
        BY <1>3, <2>1 DEF Turned
      <3>2. core' = "publish" => msg' = Halt
        BY <1>4, <3>1 DEF Notify, Cmd
      <3> QED
        BY <1>2, <1>3, <2>1, <3>1, <3>2 DEF Turned, Halted
    <2>2. ASSUME Queued PROVE (Queued \/ Turned)'
      <3>1. PICK k \in DOMAIN cmds :
              /\ cmds[k] = SteerTo(target) /\ Stopping(k)
              /\ \A i \in 1 .. k - 1 : Keeps(i)
              /\ \A i \in k + 1 .. Len(cmds) : cmds[i] \in {Halt, Notify}
        BY <2>2 DEF Queued
      <3>2. CASE k = 1
        <4>1. Halted
          BY <1>2, <3>1, <3>2 DEF Stopping, StoppingNow
        <4>2. cmds[1].op # "NotifyWhenDone"
          BY <3>1, <3>2 DEF SteerTo, Cmd
        <4>3. core' = "publish" /\ msg' = SteerTo(target) /\ Unasked'
          BY <1>2, <1>4, <2>2, <3>1, <3>2, <4>2 DEF Queued, Unasked
        <4>4. \A n \in 1 .. Len(cmds) - 1 : cmds'[n] \in {Halt, Notify}
          BY <1>3, <3>1, <3>2
        <4> QED
          BY <1>2, <1>3, <4>1, <4>3, <4>4 DEF Turned, Halted
      <3>3. CASE k # 1
        <4>1. k \in 2 .. Len(cmds) /\ Keeps(1)
          BY <1>3, <3>1, <3>3
        <4>2. cmds[1].op # "NotifyWhenDone"
          BY <4>1 DEF Keeps, Halt, DriveTo, Cmd
        <4>3. InPosition' /\ Unasked'
          BY <1>2, <1>4, <2>2, <4>1, <4>2 DEF Queued, InPosition, Keeps, Unasked
        <4>4. Stopping(k - 1)'
          BY <1>1, <1>3, <3>1, <4>1, TakeStopping
        <4>5. PICK m \in Nat : m = k - 1
          BY <4>1
        <4>6. m \in DOMAIN cmds' /\ cmds'[m] = SteerTo(target)' /\ Stopping(m)'
          BY <1>2, <1>3, <3>1, <4>1, <4>4, <4>5
        <4>7. \A i \in 1 .. m - 1 : Keeps(i)'
          BY <1>2, <1>3, <3>1, <4>1, <4>5 DEF Keeps
        <4>8. \A i \in m + 1 .. Len(cmds') : cmds'[i] \in {Halt, Notify}
          <5> SUFFICES ASSUME NEW i \in m + 1 .. Len(cmds) - 1
                       PROVE  cmds'[i] \in {Halt, Notify}
            BY <1>3
          <5>1. i + 1 \in k + 1 .. Len(cmds) /\ cmds'[i] = cmds[i + 1]
            BY <1>3, <4>1, <4>5
          <5> QED
            BY <3>1, <5>1
        <4> QED
          BY <4>3, <4>6, <4>7, <4>8 DEF Queued
      <3> QED
        BY <3>2, <3>3
    <2> QED
      BY <2>1, <2>2 DEF Live, Turning
  <1>9. LastStop'
    <2> SUFFICES ASSUME repl = "sleep" PROVE LastStop'
      BY <1>2 DEF LastStop
    <2>1. behind \in Nat /\ slept["repl"] \in Nat
      BY <1>1, DeckardBounds DEF SleepOK
    <2>2. ASSUME NEW p \in DOMAIN cmds, \A i \in p .. Len(cmds) : cmds[i] = Halt,
                 p <= behind - slept["repl"] + 1
          PROVE  LastStop'
      <3>1. CASE p = 1
        <4>1. cmds[1] = Halt /\ \A i \in DOMAIN cmds' : cmds'[i] = Halt
          BY <1>3, <2>2, <3>1
        <4>2. core' = "publish" /\ msg' = Halt
          BY <1>4, <4>1 DEF Halt, Cmd
        <4> QED
          BY <1>2, <2>1, <2>2, <3>1, <4>1, <4>2 DEF LastStop
      <3>2. CASE p # 1
        <4>1. p - 1 \in DOMAIN cmds' /\ \A i \in p - 1 .. Len(cmds') : cmds'[i] = Halt
          BY <1>3, <2>2, <3>2
        <4>2. p - 1 <= behind' - slept'["repl"] /\ core' # "poll"
          BY <1>2, <1>4, <2>1, <2>2
        <4>3. behind' - slept'["repl"] + (IF core' = "poll" THEN 1 ELSE 0)
                = behind' - slept'["repl"]
          BY <1>2, <2>1, <4>2
        <4> QED
          BY <4>1, <4>2, <4>3 DEF LastStop
      <3> QED
        BY <3>1, <3>2
    <2>3. ASSUME Halted, \A i \in DOMAIN cmds : cmds[i] = Halt PROVE LastStop'
      <3>1. cmds[1] = Halt /\ \A i \in DOMAIN cmds' : cmds'[i] = Halt
        BY <1>3, <2>3
      <3>2. core' = "publish" /\ msg' = Halt
        BY <1>4, <3>1 DEF Halt, Cmd
      <3> QED
        BY <1>2, <2>3, <3>1, <3>2 DEF LastStop, Halted
    <2> QED
      BY <1>2, <2>2, <2>3 DEF Live, LastStop
  <1> QED
    BY <1>5, <1>6, <1>7, <1>8, <1>9 DEF Live

LEMMA PublishLive ==
  ASSUME MaxLoss < Repeats, TypeInv, Live, NEW miss \in SUBSET Wheels, Publish(miss)
  PROVE  Live'
  <1>1. core = "publish" /\ core' \in {"publish", "check"}
        /\ UNCHANGED <<repl, target, wheels, is_stopped, cmds, notifs, msg,
                       notify_in_flight, slept, behind>>
    BY DEF Publish, CoreAt, rover, chans, sleep
  <1>2. Heard'
    BY <1>1, Hearing DEF Live, Heard
  <1>3. Halted /\ (msg.op = "DriveVesc" => msg.value = STOP) => Halted'
    BY Setting DEF Publish, Halted
  <1>4. InPosition => InPosition'
    <2> SUFFICES ASSUME InPosition PROVE InPosition'
      OBVIOUS
    <2>1. /\ msg.op = "DriveVesc" /\ msg.value \in {STOP, wheels}
          /\ msg \in {Halt, DriveTo(wheels)}
      BY <1>1 DEF InPosition, Halt, DriveTo, Cmd
    <2>2. \A w \in Wheels : stepper'[w] = stepper[w] /\ vesc'[w] \in {vesc[w], msg.value}
      BY <2>1, Setting DEF Publish
    <2> QED
      BY <1>1, <2>1, <2>2 DEF InPosition
  <1>5. Settled'
    BY <1>1, <1>4 DEF Live, Settled, Keeps
  <1>6. Stopped'
    <2>1. PICK n : n = Len(cmds) + 1
      OBVIOUS
    <2>2. Stopping(n) => Stopping(n)'
      BY PublishStopping DEF Live
    <2> QED
      BY <1>1, <2>1, <2>2 DEF Live, Stopped
  <1>7. Turning'
    <2> SUFFICES ASSUME repl \in {"notify", "wait"} PROVE (Queued \/ Turned)'
      BY <1>1 DEF Turning
    <2>1. ASSUME Queued PROVE Queued'
      <3>1. PICK k \in DOMAIN cmds :
              /\ cmds[k] = SteerTo(target) /\ Stopping(k)
              /\ \A i \in 1 .. k - 1 : Keeps(i)
              /\ \A i \in k + 1 .. Len(cmds) : cmds[i] \in {Halt, Notify}
        BY <2>1 DEF Queued
      <3>2. Stopping(k)'
        BY <3>1, PublishStopping DEF Live
      <3>3. \A i \in 1 .. k - 1 : Keeps(i)'
        BY <1>1, <3>1 DEF Keeps
      <3>4. InPosition' /\ Unasked'
        BY <1>1, <1>4, <2>1 DEF Queued, Unasked
      <3> QED
        BY <1>1, <3>1, <3>2, <3>3, <3>4 DEF Queued
    <2>2. ASSUME Turned, msg = SteerTo(target), Unasked PROVE Turned'
      <3>1. msg.op = "DriveStepper" /\ msg.value = target
        BY <2>2 DEF SteerTo, Cmd
      <3>2. Halted'
        BY <1>3, <2>2, <3>1 DEF Turned
      <3>3. core' # "publish" => \A w \in Wheels : stepper'[w] = target
        BY <3>1, AllHeard DEF Live
      <3> QED
        BY <1>1, <2>2, <3>2, <3>3 DEF Turned, Unasked
    <2>3. ASSUME Turned, msg = Halt, \A w \in Wheels : stepper[w] = target PROVE Turned'
      <3>1. msg.op = "DriveVesc" /\ msg.value = STOP
        BY <2>3 DEF Halt, Cmd
      <3>2. Halted' /\ \A w \in Wheels : stepper'[w] = target
        BY <1>3, <2>3, <3>1, Setting DEF Turned, Publish
      <3> QED
        BY <1>1, <2>3, <3>2 DEF Turned
    <2> QED
      BY <1>1, <2>1, <2>2, <2>3 DEF Live, Turning, Turned
  <1>8. LastStop'
    <2> SUFFICES ASSUME repl = "sleep" PROVE LastStop'
      BY <1>1 DEF LastStop
    <2>1. ASSUME msg = Halt, slept["repl"] <= behind \/ Halted,
                 \A i \in DOMAIN cmds : cmds[i] = Halt
          PROVE  LastStop'
      <3>1. msg.op = "DriveVesc" /\ msg.value = STOP
        BY <2>1 DEF Halt, Cmd
      <3>2. core' # "publish" => Halted'
        BY <3>1, AllHeard DEF Live, Halted
      <3>3. Halted => Halted'
        BY <1>3, <3>1
      <3> QED
        BY <1>1, <2>1, <3>2, <3>3 DEF LastStop
    <2> QED
      BY <1>1, <2>1 DEF Live, LastStop
  <1> QED
    BY <1>2, <1>5, <1>6, <1>7, <1>8 DEF Live

LEMMA CheckLive ==
  ASSUME TypeInv, Live, Check \/ TakeNothing
  PROVE  Live'
  <1>1. SleepOK /\ ChansOK
    BY TypeParts DEF TypeInv
  <1>2. /\ core \in {"poll", "check"} /\ core' \in {"poll", "check"}
        /\ UNCHANGED <<repl, target, wheels, is_stopped, cmds, msg, behind, vesc,
                       stepper>>
    BY DEF Check, TakeNothing, CoreAt, rover, chans, sleep, nodes
  <1>3. Unasked => Unasked'
    BY DEF Check, TakeNothing, Unasked, chans
  <1>4. Heard'
    BY <1>2 DEF Heard
  <1>5. \A n : Stopping(n) => Stopping(n)'
    BY <1>2 DEF Stopping, StoppingNow, Halted
  <1>6. InPosition => InPosition'
    BY <1>2 DEF InPosition
  <1>7. Settled'
    BY <1>2, <1>6 DEF Live, Settled, Keeps
  <1>8. Stopped'
    BY <1>2 DEF Live, Stopped, Stopping, StoppingNow, Halted
  <1>9. Turning'
    <2>1. Turned => Turned'
      BY <1>2 DEF Turned, Halted
    <2>2. Queued => Queued'
      BY <1>2, <1>3, <1>5, <1>6 DEF Queued, Keeps
    <2> QED
      BY <1>2, <2>1, <2>2 DEF Live, Turning
  <1>10. LastStop'
    <2> SUFFICES ASSUME repl = "sleep" PROVE LastStop'
      BY <1>2 DEF LastStop
    <2>1. behind \in Nat /\ slept["repl"] \in Nat
      BY <1>1, DeckardBounds DEF SleepOK
    <2>2. ASSUME NEW p \in DOMAIN cmds, \A i \in p .. Len(cmds) : cmds[i] = Halt,
                 p <= behind - slept["repl"] + (IF core = "poll" THEN 1 ELSE 0)
          PROVE  LastStop'
      <3>1. cmds # << >> /\ Check
        BY <2>2 DEF TakeNothing
      <3>2. core = "check" /\ core' = "poll"
        BY <3>1 DEF Check, CoreAt
      <3>3. slept'["repl"] \in {slept["repl"], slept["repl"] + 1}
        BY <3>1 DEF Check, Tick
      <3>4. p \in Nat
        BY <1>1, <2>2 DEF ChansOK
      <3>5. p <= behind' - slept'["repl"] + 1
        BY <1>2, <2>1, <2>2, <3>2, <3>3, <3>4
      <3> QED
        BY <1>2, <2>2, <3>2, <3>5 DEF LastStop
    <2>3. ASSUME Halted, \A i \in DOMAIN cmds : cmds[i] = Halt PROVE LastStop'
      BY <1>2, <2>3 DEF LastStop, Halted
    <2> QED
      BY <1>2, <2>2, <2>3 DEF Live, LastStop
  <1> QED
    BY <1>4, <1>7, <1>8, <1>9, <1>10 DEF Live

(* A panic of the core thread, however far its last flush came, leaves the *)
(* wheels aligned with what drives them.                                   *)
LEMMA PanicAligned ==
  ASSUME TypeInv, Live, CorePanic
  PROVE  DriveAligned'
  <1>1. \/ Settled /\ repl \notin {"notify", "wait"}
        \/ Queued \/ Turned
    BY DEF Live, Turning
  <1>2. ASSUME InPosition PROVE DriveAligned'
    <2>1. CASE core # "publish"
      BY <1>2, <2>1 DEF CorePanic, InPosition, DriveAligned, nodes
    <2>2. CASE core = "publish"
      <3>1. msg.op = "DriveVesc" /\ msg.value \in {STOP, wheels}
        BY <1>2, <2>2 DEF InPosition, Halt, DriveTo, Cmd
      <3>2. PICK k \in 0 .. NumWheels : Receive(1 .. k)
        BY <2>2 DEF CorePanic
      <3>3. \A w \in Wheels : stepper'[w] = stepper[w] /\ vesc'[w] \in {vesc[w], msg.value}
        BY <3>1, <3>2, Setting
      <3> QED
        BY <1>2, <3>1, <3>3 DEF InPosition, DriveAligned
    <2> QED
      BY <2>1, <2>2
  <1>3. ASSUME Turned PROVE DriveAligned'
    <2>1. CASE core # "publish"
      BY <1>3, <2>1 DEF CorePanic, Turned, Halted, DriveAligned, nodes
    <2>2. CASE core = "publish"
      <3>1. msg.op = "DriveVesc" => msg.value = STOP
        BY <1>3, <2>2 DEF Turned, SteerTo, Halt, Cmd
      <3>2. PICK k \in 0 .. NumWheels : Receive(1 .. k)
        BY <2>2 DEF CorePanic
      <3>3. \A w \in Wheels : vesc'[w] = STOP
        BY <1>3, <3>1, <3>2, Setting DEF Turned, Halted
      <3> QED
        BY <3>3 DEF DriveAligned
    <2> QED
      BY <2>1, <2>2
  <1> QED
    BY <1>1, <1>2, <1>3 DEF Settled, Queued

LEMMA CoreGone ==
  ASSUME core = "dead", DriveAligned, [Next]_vars
  PROVE  core' = "dead" /\ DriveAligned'
  <1>1. CASE Core \/ CorePanic
    BY <1>1 DEF Core, Take, TakeNothing, Publish, Check, CorePanic, CoreAt
  <1>2. CASE Repl \/ CtrlC \/ CtrlCExit
    BY <1>2, ReplOnly DEF thread, nodes, DriveAligned
  <1>3. CASE Elapse \/ Ended \/ UNCHANGED vars
    BY <1>3 DEF Elapse, Ended, vars, thread, nodes, DriveAligned
  <1> QED
    BY <1>1, <1>2, <1>3 DEF Next

LEMMA CoreLives ==
  ASSUME MaxLoss < Repeats, TypeInv, Asking, Live, core # "dead", [Next]_vars
  PROVE  IF core' = "dead" THEN DriveAligned' ELSE Live'
  <1>1. CASE Repl \/ CtrlC
    <2>1. core' # "dead"
      BY <1>1, ReplOnly DEF thread
    <2> QED
      BY <1>1, <2>1, ReplLive, CtrlCLive
  <1>2. CASE Core
    <2>1. core' # "dead"
      BY <1>2 DEF Core, Take, TakeNothing, Publish, Check
    <2> QED
      BY <1>2, <2>1, TakeLive, PublishLive, CheckLive DEF Core
  <1>3. CASE CorePanic
    BY <1>3, PanicAligned DEF CorePanic
  <1>4. CASE CtrlCExit \/ Elapse \/ Ended \/ UNCHANGED vars
    <2>1. UNCHANGED <<wheels, is_stopped, chans, core, msg, round, notify_in_flight,
                      lost, sleep, nodes, repl, target>>
      BY <1>4 DEF CtrlCExit, Elapse, Ended, vars, rover, thread
    <2> QED
      BY <2>1, QuietLive
  <1> QED
    BY <1>1, <1>2, <1>3, <1>4 DEF Next

LEMMA QuitLateStep ==
  ASSUME TypeInv, QuitLate, [Next]_vars
  PROVE  QuitLate'
  <1> USE DEF QuitLate
  <1>1. CASE Return
    BY <1>1 DEF Return, Slept, ReplAt, thread, sleep
  <1>2. ASSUME exited' # "quit" PROVE QuitLate'
    BY <1>2
  <1>3. CASE Ended \/ UNCHANGED vars
    BY <1>3 DEF Ended, vars, thread, sleep
  <1>4. ASSUME Alive, ~Return, Next PROVE exited' # "quit"
    <2>1. CASE CtrlC \/ CtrlCExit \/ Core \/ Elapse \/ CorePanic
      BY <1>4, <2>1 DEF CtrlC, CtrlCExit, Core, Take, TakeNothing, Publish, Check,
         Elapse, CorePanic, Alive
    <2>2. CASE Repl
      BY <1>4, <2>2 DEF Repl, Working, Move, Stop, Interlock, Quit, Confirm, EndOfFile,
         HelpAlias, PromptPanic, Steer, AskNotify, Wait, Drive, FinalStop, ReplPanic,
         Alive
    <2> QED
      BY <1>4, <2>1, <2>2 DEF Next, Ended
  <1>5. ASSUME ~Alive, Next PROVE Ended
    BY <1>5 DEF Next, Repl, Working, Move, Stop, Interlock, Quit, Confirm, EndOfFile,
       HelpAlias, PromptPanic, Steer, AskNotify, Wait, Drive, FinalStop, Return,
       ReplPanic, Line, ReplAt, CtrlC, CtrlCExit, Core, Take, TakeNothing, Publish,
       Check, CoreAt, Elapse, CorePanic
  <1> QED
    BY <1>1, <1>2, <1>3, <1>4, <1>5

LEMMA Inductive ==
  ASSUME MaxLoss < Repeats
  PROVE  Spec => []IInv
  <1>1. Init => IInv
    <2>1. Init => Asking /\ QuitLate /\ core # "dead"
      BY DEF Init, Asking, Unasked, Requests, QuitLate
    <2> QED
      BY <2>1, TypeInit, LiveInit DEF IInv
  <1>2. IInv /\ [Next]_vars => IInv'
    <2> SUFFICES ASSUME IInv, [Next]_vars PROVE IInv'
      OBVIOUS
    <2>1. TypeInv' /\ Asking' /\ QuitLate'
      BY TypeStep, AskingStep, QuitLateStep DEF IInv
    <2>2. IF core' = "dead" THEN DriveAligned' ELSE Live'
      BY CoreGone, CoreLives DEF IInv
    <2> QED
      BY <2>1, <2>2 DEF IInv
  <1> QED
    BY <1>1, <1>2, PTL DEF Spec

-----------------------------------------------------------------------------
(* What that is for                                                        *)

(* No wheel drives before all of them have been steered for it, for every  *)
(* pattern of lost setpoints that leaves each wheel one of the three       *)
(* repetitions, and wherever a flush panics.                               *)
THEOREM Aligned ==
  ASSUME MaxLoss < Repeats
  PROVE  Spec => []DriveAligned
  <1>1. IInv => DriveAligned
    <2> SUFFICES ASSUME IInv, core # "dead" PROVE DriveAligned
      BY DEF IInv
    <2>1. InPosition \/ Turned
      BY DEF IInv, Live, Settled, Turning, Queued
    <2> QED
      BY <2>1 DEF InPosition, Turned, Halted, DriveAligned
  <1> QED
    BY <1>1, Inductive, PTL

(* While the REPL believes the rover stopped, a stop is the last drive     *)
(* command it has given.                                                   *)
THEOREM Believed ==
  ASSUME MaxLoss < Repeats
  PROVE  Spec => []BelievedStopped
  <1>1. IInv => BelievedStopped
    <2> SUFFICES ASSUME IInv, repl = "prompt", is_stopped, core # "dead",
                        NEW w \in Wheels
                 PROVE  Commanded(w) = STOP
      BY DEF BelievedStopped
    <2>1. ChansOK /\ Stopping(Len(cmds) + 1)
      BY TypeParts DEF IInv, TypeInv, Live, Stopped
    <2>2. Len(cmds) \in Nat /\ DOMAIN cmds = 1 .. Len(cmds) /\ Len(cmds) + 1 - 1 = Len(cmds)
      BY <2>1 DEF ChansOK
    <2> DEFINE drives == {k \in DOMAIN cmds : cmds[k].op = "DriveVesc"}
    <2>3. ASSUME NEW j \in 1 .. Len(cmds), cmds[j] = Halt,
                 \A i \in j + 1 .. Len(cmds) : cmds[i].op # "DriveVesc"
          PROVE  Commanded(w) = STOP
      <3>1. j \in drives /\ \A i \in drives : i <= j
        BY <2>2, <2>3 DEF Halt, Cmd
      <3>2. \A k \in drives : (\A i \in drives : i <= k) => k = j
        BY <2>2, <3>1
      <3>3. (CHOOSE k \in drives : \A i \in drives : i <= k) = j
        BY <3>1, <3>2
      <3>4. Commanded(w) = cmds[CHOOSE k \in drives : \A i \in drives : i <= k].value
        BY <3>1 DEF Commanded
      <3> QED
        BY <2>3, <3>3, <3>4 DEF Halt, Cmd
    <2>4. ASSUME StoppingNow, \A i \in 1 .. Len(cmds) : cmds[i].op # "DriveVesc"
          PROVE  Commanded(w) = STOP
      <3>1. drives = {}
        BY <2>2, <2>4
      <3> QED
        BY <2>4, <3>1 DEF Commanded, StoppingNow, Halted
    <2> QED
      BY <2>1, <2>2, <2>3, <2>4 DEF Stopping
  <1> QED
    BY <1>1, Inductive, PTL

(* When the process ends a second after "Stopping rover...", the rover has *)
(* been stopped, if what was in front of the stop fits in that second.     *)
THEOREM QuitHalts ==
  ASSUME MaxLoss < Repeats
  PROVE  Spec => []QuitStops
  <1>1. IInv => QuitStops
    <2> SUFFICES ASSUME IInv, exited = "quit", core # "dead", behind < Turns
                 PROVE  Halted
      BY DEF QuitStops
    <2>1. SleepOK /\ ChansOK
      BY TypeParts DEF IInv, TypeInv
    <2>2. repl = "sleep" /\ slept["repl"] >= Turns
      BY DEF IInv, QuitLate
    <2>3. behind \in Nat /\ slept["repl"] \in Nat
      BY <2>1, DeckardBounds DEF SleepOK
    <2>4. ASSUME NEW p \in DOMAIN cmds,
                 p <= behind - slept["repl"] + (IF core = "poll" THEN 1 ELSE 0)
          PROVE  FALSE
      <3>1. p \in Nat /\ p >= 1
        BY <2>1 DEF ChansOK
      <3> QED
        BY <2>2, <2>3, <2>4, <3>1, DeckardBounds
    <2>5. ~(slept["repl"] <= behind)
      BY <2>2, <2>3, DeckardBounds
    <2> QED
      BY <2>2, <2>4, <2>5 DEF IInv, Live, LastStop
  <1> QED
    BY <1>1, Inductive, PTL

-----------------------------------------------------------------------------
(* What the wheels can rely on: Deckard implements RoverMotion.  Its       *)
(* variables are setpoints, which only Receive changes.                    *)

LEMMA MotionInit == Init => Motion!Init
  BY DEF Init, Motion!Init

(* What is published is a stop, or the drive command for a rover that is   *)
(* in position, or steers a rover that is halted.                          *)
LEMMA Published ==
  ASSUME IInv, core = "publish"
  PROVE  \/ msg = Halt
         \/ msg = DriveTo(wheels) /\ Motion!Steered(wheels)
         \/ msg = SteerTo(target) /\ Motion!Halted
  <1>1. Live
    BY DEF IInv
  <1>2. InPosition \/ Turned
    BY <1>1 DEF Live, Settled, Turning, Queued
  <1>3. CASE InPosition
    BY <1>3 DEF InPosition, Motion!Steered
  <1>4. CASE Turned
    BY <1>4 DEF Turned, Halted, Motion!Halted
  <1> QED
    BY <1>2, <1>3, <1>4

LEMMA ReceiveMoves ==
  ASSUME IInv, core = "publish", NEW ws \in SUBSET Wheels, Receive(ws)
  PROVE  Motion!Next
  <1>1. ReplOK /\ NodesOK
    BY TypeParts DEF IInv, TypeInv
  <1>2. target \in Orientations /\ wheels \in Orientations
    BY <1>1 DEF ReplOK
  <1>3. ASSUME msg.op = "DriveVesc"
        PROVE  vesc' = Motion!Reached(vesc, ws, msg.value) /\ stepper' = stepper
    BY <1>1, <1>3 DEF Receive, NodesOK, Motion!Reached
  <1>4. ASSUME msg.op = "DriveStepper"
        PROVE  stepper' = Motion!Reached(stepper, ws, msg.value) /\ vesc' = vesc
    BY <1>1, <1>4 DEF Receive, NodesOK, Motion!Reached
  <1>5. CASE msg = Halt
    <2>1. Motion!Stop(ws)
      BY <1>3, <1>5 DEF Halt, Cmd, Motion!Stop
    <2> QED
      BY <2>1 DEF Motion!Next
  <1>6. CASE msg = DriveTo(wheels) /\ Motion!Steered(wheels)
    <2>1. Motion!Drive(wheels, ws)
      BY <1>3, <1>6 DEF DriveTo, Cmd, Motion!Drive
    <2> QED
      BY <1>2, <2>1 DEF Motion!Next
  <1>7. CASE msg = SteerTo(target) /\ Motion!Halted
    <2>1. Motion!Steer(target, ws)
      BY <1>4, <1>7 DEF SteerTo, Cmd, Motion!Steer
    <2> QED
      BY <1>2, <2>1 DEF Motion!Next
  <1> QED
    BY <1>5, <1>6, <1>7, Published

LEMMA MotionStep == IInv /\ [Next]_vars => [Motion!Next]_(Motion!vars)
  <1> SUFFICES ASSUME IInv, [Next]_vars, ~ UNCHANGED nodes PROVE Motion!Next
    BY DEF nodes, Motion!vars
  <1>1. ASSUME NEW miss \in SUBSET Wheels, Publish(miss) PROVE Motion!Next
    BY <1>1, ReceiveMoves DEF Publish, CoreAt
  <1>2. CASE CorePanic
    <2>1. PICK k \in 0 .. NumWheels : core = "publish" /\ Receive(1 .. k)
      BY <1>2 DEF CorePanic
    <2>2. 1 .. k \in SUBSET Wheels
      BY WheelsAssumption DEF Wheels
    <2> QED
      BY <2>1, <2>2, ReceiveMoves
  <1>3. CASE Repl \/ CtrlC \/ CtrlCExit
    BY <1>3, ReplOnly
  <1>4. CASE Take \/ TakeNothing \/ Check \/ Elapse \/ Ended \/ UNCHANGED vars
    BY <1>4 DEF Take, TakeNothing, Check, Elapse, Ended, vars
  <1> QED
    BY <1>1, <1>2, <1>3, <1>4 DEF Next, Core

(* The wheels are only ever moved as RoverMotion allows, for every pattern *)
(* of lost setpoints that leaves each wheel one of the three repetitions,  *)
(* wherever a flush panics and whenever ^C or the operator interferes.     *)
THEOREM ImplementsMotion ==
  ASSUME MaxLoss < Repeats
  PROVE  Spec => MotionSpec
  <1> QED
    BY MotionInit, MotionStep, Inductive, PTL DEF Spec, MotionSpec, Motion!Spec

(* And that is all that keeps the rover aligned: whatever moves its wheels *)
(* as RoverMotion allows never drives one out of line with the steering.   *)
THEOREM MotionAligns == MotionSpec => []DriveAligned
  <1> DEFINE J == /\ vesc \in [Wheels -> Orientations \cup {STOP}]
                  /\ stepper \in [Wheels -> Orientations]
                  /\ DriveAligned
  <1>1. Motion!Init => J
    BY OrientationAssumption DEF Motion!Init, DriveAligned
  <1>2. J /\ [Motion!Next]_(Motion!vars) => J'
    <2> SUFFICES ASSUME J, [Motion!Next]_(Motion!vars) PROVE J'
      OBVIOUS
    <2>1. CASE UNCHANGED Motion!vars
      BY <2>1 DEF Motion!vars, DriveAligned
    <2>2. ASSUME NEW ws \in SUBSET Wheels, Motion!Stop(ws) PROVE J'
      BY <2>2 DEF Motion!Stop, Motion!Reached, DriveAligned
    <2>3. ASSUME NEW ws \in SUBSET Wheels, NEW o \in Orientations, Motion!Steer(o, ws)
          PROVE  J'
      BY <2>3 DEF Motion!Steer, Motion!Reached, Motion!Halted, DriveAligned
    <2>4. ASSUME NEW ws \in SUBSET Wheels, NEW o \in Orientations, Motion!Drive(o, ws)
          PROVE  J'
      <3>1. \A w \in Wheels : vesc'[w] \in {vesc[w], o} /\ stepper'[w] = o
        BY <2>4 DEF Motion!Drive, Motion!Reached, Motion!Steered
      <3>2. \A w \in Wheels : vesc[w] = STOP \/ vesc[w] = o
        BY <2>4 DEF Motion!Drive, Motion!Steered, DriveAligned
      <3>3. DriveAligned'
        BY <3>1, <3>2 DEF DriveAligned
      <3> QED
        BY <2>4, <3>3 DEF Motion!Drive, Motion!Reached
    <2> QED
      BY <2>1, <2>2, <2>3, <2>4 DEF Motion!Next
  <1>3. J => DriveAligned
    OBVIOUS
  <1> QED
    BY <1>1, <1>2, <1>3, PTL DEF MotionSpec, Motion!Spec
=============================================================================
