------------------------------ MODULE Deckard ------------------------------
(***************************************************************************)
(* deckard, the operator's console of the rover.  The REPL thread turns    *)
(* the lines the operator types into commands, the core thread takes them  *)
(* from a channel and publishes setpoints to the wheels over two CAN       *)
(* buses, and a ^C handler may stop the rover and end the process at any   *)
(* time.                                                                   *)
(*                                                                         *)
(* The wheel angles of a move are one member of Orientations, and the      *)
(* speeds of the four wheels are either all zero (STOP) or named by the    *)
(* orientation of the move they belong to.                                 *)
(***************************************************************************)
EXTENDS Integers, Sequences, FiniteSets

CONSTANTS
  NumWheels,     \* 4 in the code
  Orientations,  \* wheel orientations a move can ask for
  Ahead,         \* WheelOrientation::Aligned(0.0)
  STOP,          \* the drive command [0.0; 4]
  Turns,         \* turns of the core thread's loop in one second, at least
  MaxLoss,       \* bound: how many of its setpoints a wheel misses in a row
  MaxInput,      \* bound: lines the operator types before end of file
  Events         \* which of "ctrl_c", "help_alias", "panic" can happen

ASSUME WheelsAssumption      == NumWheels \in Nat \ {0}
ASSUME OrientationAssumption == Ahead \in Orientations /\ STOP \notin Orientations
ASSUME DeckardBounds         == Turns \in Nat /\ MaxLoss \in Nat /\ MaxInput \in Nat

Wheels  == 1 .. NumWheels
Repeats == 3   \* every setpoint is published this often

Operation   == {"DriveStepper", "DriveVesc", "NotifyWhenDone"}
NodeCommand == [op : Operation, value : Orientations \cup {STOP}]

Cmd(op, value) == [op |-> op, value |-> value]
Halt   == Cmd("DriveVesc", STOP)
Notify == Cmd("NotifyWhenDone", STOP)

VARIABLES
  repl,        \* where the REPL thread stands
  target,      \* target_orientation of the move it is carrying out
  wheels, is_stopped,             \* struct Rover
  q_safety_interlock,
  cmds,        \* channel to the core thread
  notifs,      \* number of notifications in the channel back
  core,        \* where the core thread stands
  msg, round,  \* command it is publishing, and how often it has done so
  notify_in_flight,
  elapsed,     \* three seconds have passed since notif_op_time
  lost,        \* setpoints of msg that each wheel has missed
  handler,     \* the ^C handler: "idle", "sleep" or "dead"
  slept,       \* turns of the core loop since each thread began to sleep
  behind,      \* ghost: commands in the channel when the final stop is in it
  exited,      \* "no", or how the process ended
  inputs,      \* lines typed so far
  vesc, stepper   \* setpoints each wheel has received

rover  == <<wheels, is_stopped, q_safety_interlock>>
chans  == <<cmds, notifs>>
thread == <<core, msg, round, notify_in_flight, elapsed, lost>>
nodes  == <<vesc, stepper>>
sleep  == <<slept, behind>>
vars   == <<repl, target, rover, chans, thread, handler, sleep, exited, inputs, nodes>>

Init ==
  /\ repl = "prompt" /\ target = Ahead
  /\ wheels = Ahead /\ is_stopped = TRUE /\ q_safety_interlock = TRUE
  /\ cmds = << >> /\ notifs = 0
  /\ core = "poll" /\ msg = Halt /\ round = 0
  /\ notify_in_flight = FALSE /\ elapsed = FALSE
  /\ lost = [w \in Wheels |-> 0]
  /\ handler = "idle"
  /\ slept = [repl |-> 0, handler |-> 0] /\ behind = 0
  /\ exited = "no"
  /\ inputs = 0
  /\ vesc = [w \in Wheels |-> STOP]
  /\ stepper = [w \in Wheels |-> Ahead]

-----------------------------------------------------------------------------
(* The REPL thread                                                         *)

Alive == exited = "no"
ReplAt(l) == Alive /\ repl = l

(* A line is read at the prompt.                                           *)
Line == /\ ReplAt("prompt")
        /\ inputs < MaxInput
        /\ inputs' = inputs + 1

(* cmd_tx.send(c).unwrap(): see ReplPanic for a core thread that is gone.  *)
Send(c) == core # "dead" /\ cmds' = Append(cmds, c) /\ UNCHANGED notifs

(* Fault: the rover is not halted before its wheels are steered.           *)
MoveUnhalted(o) ==
  /\ Line
  /\ target' = o
  /\ repl' = IF o = wheels THEN "drive" ELSE "steer"
  /\ UNCHANGED <<chans, rover, thread, handler, sleep, exited, nodes>>

(* Move::run, up to the first command: the wheels are steered only if they *)
(* are not in position, and the rover is halted before they are.           *)
Move(o) ==
  /\ Line
  /\ target' = o
  /\ \/ o = wheels /\ repl' = "drive" /\ UNCHANGED chans
     \/ o # wheels /\ repl' = "steer" /\ Send(Halt)
  /\ UNCHANGED <<rover, thread, handler, sleep, exited, nodes>>

Steer ==
  /\ ReplAt("steer")
  /\ Send(Cmd("DriveStepper", target))
  /\ repl' = "notify"
  /\ UNCHANGED <<target, rover, thread, handler, sleep, exited, inputs, nodes>>

AskNotify ==
  /\ ReplAt("notify")
  /\ Send(Notify)
  /\ repl' = "wait"
  /\ UNCHANGED <<target, rover, thread, handler, sleep, exited, inputs, nodes>>

(* notif_rx.recv()                                                         *)
Wait ==
  /\ ReplAt("wait") /\ notifs > 0
  /\ notifs' = notifs - 1
  /\ wheels' = target
  /\ repl' = "drive"
  /\ UNCHANGED <<target, is_stopped, q_safety_interlock, cmds, thread, handler,
                 sleep, exited, inputs, nodes>>

(* Fault: the REPL does not note that the rover moves.                     *)
DriveUnnoted ==
  /\ ReplAt("drive")
  /\ Send(Cmd("DriveVesc", target))
  /\ repl' = "prompt"
  /\ UNCHANGED <<target, rover, thread, handler, sleep, exited, inputs, nodes>>

Drive ==
  /\ ReplAt("drive")
  /\ Send(Cmd("DriveVesc", target))
  /\ is_stopped' = FALSE
  /\ repl' = "prompt"
  /\ UNCHANGED <<target, wheels, q_safety_interlock, thread, handler, sleep,
                 exited, inputs, nodes>>

(* Fault: the REPL only notes that the rover is stopped.                   *)
StopUnsent ==
  /\ Line
  /\ is_stopped' = TRUE
  /\ UNCHANGED <<repl, target, wheels, q_safety_interlock, chans, thread,
                 handler, sleep, exited, nodes>>

Stop ==
  /\ Line
  /\ Send(Halt)
  /\ is_stopped' = TRUE
  /\ UNCHANGED <<repl, target, wheels, q_safety_interlock, thread, handler,
                 sleep, exited, nodes>>

(* The first "q" only explains that it does not quit.                      *)
Interlock ==
  /\ Line
  /\ q_safety_interlock
  /\ q_safety_interlock' = FALSE
  /\ UNCHANGED <<repl, target, wheels, is_stopped, chans, thread, handler,
                 sleep, exited, nodes>>

(* "!": a stopped rover with turned wheels asks whether to leave it so.    *)
Quit ==
  /\ Line
  /\ repl' = IF is_stopped /\ wheels # Ahead THEN "confirm" ELSE "quit"
  /\ UNCHANGED <<target, rover, chans, thread, handler, sleep, exited, nodes>>

Confirm ==
  /\ ReplAt("confirm")
  /\ repl' \in {"quit", "prompt"}
  /\ UNCHANGED <<target, rover, chans, thread, handler, sleep, exited, inputs,
                 nodes>>

(* End of file ends the loop without asking.                               *)
EndOfFile ==
  /\ ReplAt("prompt")
  /\ repl' = "quit"
  /\ UNCHANGED <<target, rover, chans, thread, handler, sleep, exited, inputs,
                 nodes>>

(* Fault: the REPL trusts is_stopped and does not stop the rover again.    *)
FinalStopUnsent ==
  /\ ReplAt("quit")
  /\ repl' = "sleep"
  /\ slept' = [slept EXCEPT !.repl = 0] /\ behind' = Len(cmds)
  /\ UNCHANGED <<target, rover, chans, thread, handler, exited, inputs, nodes>>

(* "Stopping rover...", a second of sleep, and the end of main.            *)
FinalStop ==
  /\ ReplAt("quit")
  /\ Send(Halt)
  /\ repl' = "sleep"
  /\ slept' = [slept EXCEPT !.repl = 0] /\ behind' = Len(cmds')
  /\ UNCHANGED <<target, rover, thread, handler, exited, inputs, nodes>>

Slept(who) == slept[who] >= Turns \/ core = "dead"

Return ==
  /\ ReplAt("sleep") /\ Slept("repl")
  /\ exited' = "quit"
  /\ UNCHANGED <<repl, target, rover, chans, thread, handler, sleep, inputs,
                 nodes>>

(* "?" is a keyword of Help, but the prompt only looks for "help" and "h"  *)
(* before it runs the command; Help::run panics.                           *)
HelpAlias ==
  /\ "help_alias" \in Events
  /\ Line
  /\ exited' = "help_panic"
  /\ UNCHANGED <<repl, target, rover, chans, thread, handler, sleep, nodes>>

(* The core thread is gone: sending to it, or waiting for it, panics.      *)
ReplPanic ==
  /\ Alive /\ core = "dead"
  /\ \/ repl \in {"steer", "notify", "drive", "quit"}
     \/ repl = "wait" /\ notifs = 0
  /\ exited' = "panic"
  /\ UNCHANGED <<repl, target, rover, chans, thread, handler, sleep, inputs,
                 nodes>>

(* The same for the first command of a line the operator types.            *)
PromptPanic ==
  /\ core = "dead" /\ Line
  /\ exited' = "panic"
  /\ UNCHANGED <<repl, target, rover, chans, thread, handler, sleep, nodes>>

-----------------------------------------------------------------------------
(* The ^C handler, a thread of its own                                     *)

CtrlC ==
  /\ "ctrl_c" \in Events
  /\ Alive /\ handler = "idle"
  /\ \/ /\ Send(Halt)
        /\ handler' = "sleep"
        /\ slept' = [slept EXCEPT !.handler = 0]
     \/ /\ core = "dead"
        /\ handler' = "dead"
        /\ UNCHANGED <<chans, slept>>
  /\ UNCHANGED <<repl, target, rover, thread, behind, exited, inputs, nodes>>

CtrlCExit ==
  /\ Alive /\ handler = "sleep" /\ Slept("handler")
  /\ exited' = "ctrl_c"
  /\ UNCHANGED <<repl, target, rover, chans, thread, handler, sleep, inputs,
                 nodes>>

-----------------------------------------------------------------------------
(* The core thread                                                         *)

CoreAt(l) == Alive /\ core = l

(* try_recv                                                                *)
Take ==
  /\ CoreAt("poll") /\ cmds # << >>
  /\ cmds' = Tail(cmds)
  /\ \/ /\ Head(cmds).op = "NotifyWhenDone"
        /\ core' = "check"
        /\ notify_in_flight' = TRUE /\ elapsed' = FALSE
        /\ UNCHANGED <<msg, round, lost>>
     \/ /\ Head(cmds).op # "NotifyWhenDone"
        /\ core' = "publish"
        /\ msg' = Head(cmds) /\ round' = 0
        /\ lost' = [w \in Wheels |-> 0]
        /\ UNCHANGED <<notify_in_flight, elapsed>>
  /\ UNCHANGED <<repl, target, rover, notifs, handler, sleep, exited, inputs,
                 nodes>>

TakeNothing ==
  /\ CoreAt("poll") /\ cmds = << >>
  /\ core' = "check"
  /\ UNCHANGED <<repl, target, rover, chans, msg, round, notify_in_flight,
                 elapsed, lost, handler, sleep, exited, inputs, nodes>>

(* The wheels in ws receive the setpoints of msg.                          *)
Receive(ws) ==
  /\ vesc' = [w \in Wheels |-> IF msg.op = "DriveVesc" /\ w \in ws
                               THEN msg.value ELSE vesc[w]]
  /\ stepper' = [w \in Wheels |-> IF msg.op = "DriveStepper" /\ w \in ws
                                  THEN msg.value ELSE stepper[w]]

(* Fault: a setpoint is published once too often.                          *)
PublishFour(miss) ==
  /\ CoreAt("publish")
  /\ \A w \in miss : lost[w] < MaxLoss
  /\ Receive(Wheels \ miss)
  /\ lost' = [w \in Wheels |-> IF w \in miss THEN lost[w] + 1 ELSE lost[w]]
  /\ round' = round + 1
  /\ core' = IF round + 1 <= Repeats THEN "publish" ELSE "check"
  /\ UNCHANGED <<repl, target, rover, chans, msg, notify_in_flight, elapsed,
                 handler, sleep, exited, inputs>>

(* Fault: a setpoint is published once only.                               *)
PublishOnce(miss) ==
  /\ CoreAt("publish")
  /\ \A w \in miss : lost[w] < MaxLoss
  /\ Receive(Wheels \ miss)
  /\ lost' = [w \in Wheels |-> IF w \in miss THEN lost[w] + 1 ELSE lost[w]]
  /\ round' = round + 1
  /\ core' = "check"
  /\ UNCHANGED <<repl, target, rover, chans, msg, notify_in_flight, elapsed,
                 handler, sleep, exited, inputs>>

(* One of the three times a setpoint is published and flushed; the wheels  *)
(* in miss do not hear it.                                                 *)
Publish(miss) ==
  /\ CoreAt("publish")
  /\ \A w \in miss : lost[w] < MaxLoss
  /\ Receive(Wheels \ miss)
  /\ lost' = [w \in Wheels |-> IF w \in miss THEN lost[w] + 1 ELSE lost[w]]
  /\ round' = round + 1
  /\ core' = IF round + 1 < Repeats THEN "publish" ELSE "check"
  /\ UNCHANGED <<repl, target, rover, chans, msg, notify_in_flight, elapsed,
                 handler, sleep, exited, inputs>>

(* A turn that publishes takes three times 19 ms, far longer than a REPL   *)
(* thread that can run needs for its next step: the turns the model takes  *)
(* before that step count for no one.                                      *)
Sleeping(t) ==
  /\ repl \notin {"steer", "notify", "drive", "quit"}
  /\ "sleep" = IF t = "repl" THEN repl ELSE handler
Tick == slept' = [t \in {"repl", "handler"} |->
                    IF Sleeping(t) /\ slept[t] < Turns THEN slept[t] + 1
                    ELSE slept[t]]

(* Faults: notify_in_flight is not reset, or the three seconds are only    *)
(* looked at when there are commands.                                      *)
CheckKeeps ==
  /\ CoreAt("check")
  /\ core' = "poll"
  /\ notifs' = IF notify_in_flight /\ elapsed THEN notifs + 1 ELSE notifs
  /\ Tick
  /\ UNCHANGED <<repl, target, rover, cmds, msg, round, notify_in_flight,
                 elapsed, lost, handler, behind, exited, inputs, nodes>>
CheckOnCommand ==
  /\ CoreAt("check")
  /\ core' = "poll"
  /\ IF notify_in_flight /\ elapsed /\ cmds # << >>
     THEN notifs' = notifs + 1 /\ notify_in_flight' = FALSE
     ELSE UNCHANGED <<notifs, notify_in_flight>>
  /\ Tick
  /\ UNCHANGED <<repl, target, rover, cmds, msg, round, elapsed, lost, handler,
                 behind, exited, inputs, nodes>>

(* End of the loop body: notify the REPL when the three seconds are over.  *)
Check ==
  /\ CoreAt("check")
  /\ core' = "poll"
  /\ \/ /\ notify_in_flight /\ elapsed
        /\ notifs' = notifs + 1 /\ notify_in_flight' = FALSE
     \/ /\ ~(notify_in_flight /\ elapsed)
        /\ UNCHANGED <<notifs, notify_in_flight>>
  /\ Tick
  /\ UNCHANGED <<repl, target, rover, cmds, msg, round, elapsed, lost, handler,
                 behind, exited, inputs, nodes>>

Elapse ==
  /\ Alive /\ notify_in_flight /\ ~elapsed
  /\ elapsed' = TRUE
  /\ UNCHANGED <<repl, target, rover, chans, core, msg, round, notify_in_flight,
                 lost, handler, sleep, exited, inputs, nodes>>

(* An error other than WouldBlock from receive, or any error from flush,   *)
(* which may have sent the setpoints of the first k wheels.                *)
CorePanic ==
  /\ "panic" \in Events
  /\ Alive /\ core # "dead"
  /\ \/ core = "publish" /\ \E k \in 0 .. NumWheels : Receive(1 .. k)
     \/ core # "publish" /\ UNCHANGED nodes
  /\ core' = "dead"
  /\ UNCHANGED <<repl, target, rover, chans, msg, round, notify_in_flight,
                 elapsed, lost, handler, sleep, exited, inputs>>

Ended == ~Alive /\ UNCHANGED vars

Working == Steer \/ AskNotify \/ Wait \/ Drive \/ FinalStop \/ Return \/ ReplPanic

Repl == \/ \E o \in Orientations : Move(o)
        \/ Stop \/ Interlock \/ Quit \/ Confirm \/ EndOfFile \/ HelpAlias
        \/ PromptPanic \/ Working

Core == Take \/ TakeNothing \/ (\E miss \in SUBSET Wheels : Publish(miss)) \/ Check

Next == \/ Repl \/ CtrlC \/ CtrlCExit
        \/ Core \/ Elapse \/ CorePanic
        \/ Ended

Spec == Init /\ [][Next]_vars

(* Threads are scheduled and time passes; nothing is assumed of the        *)
(* operator or of the wheels.                                              *)
Fairness == WF_vars(Working) /\ WF_vars(Core) /\ WF_vars(Elapse)

FairSpec == Spec /\ Fairness

-----------------------------------------------------------------------------
(* Properties                                                              *)

(* Every variable has the type its declaration in the code gives it.       *)
TypeOK ==
  /\ repl \in {"prompt", "steer", "notify", "wait", "drive", "confirm", "quit",
               "sleep"}
  /\ target \in Orientations /\ wheels \in Orientations
  /\ is_stopped \in BOOLEAN /\ q_safety_interlock \in BOOLEAN
  /\ cmds \in Seq(NodeCommand) /\ notifs \in Nat
  /\ core \in {"poll", "publish", "check", "dead"}
  /\ msg \in NodeCommand /\ round \in 0 .. Repeats
  /\ notify_in_flight \in BOOLEAN /\ elapsed \in BOOLEAN
  /\ lost \in [Wheels -> 0 .. MaxLoss]
  /\ handler \in {"idle", "sleep", "dead"}
  /\ slept \in [{"repl", "handler"} -> 0 .. Turns] /\ behind \in Nat
  /\ exited \in {"no", "quit", "ctrl_c", "help_panic", "panic"}
  /\ inputs \in 0 .. MaxInput
  /\ vesc \in [Wheels -> Orientations \cup {STOP}]
  /\ stepper \in [Wheels -> Orientations]

Halted == \A w \in Wheels : vesc[w] = STOP

(* A wheel only drives when every wheel has been steered for that move,    *)
(* whatever is lost on the way short of all three repetitions: the REPL    *)
(* halts, steers and drives in three commands, the core thread repeats     *)
(* each of them.                                                           *)
DriveAligned ==
  \A w \in Wheels : vesc[w] # STOP => \A v \in Wheels : stepper[v] = vesc[w]

(* Every step of the console and its channel is one that RoverMotion       *)
(* allows: no wheel is turned while another drives, no wheel is driven     *)
(* before all are steered for it, and only the setpoint asked for arrives. *)
Motion == INSTANCE RoverMotion
MotionSpec == Motion!Spec

Requests == {k \in DOMAIN cmds : cmds[k].op = "NotifyWhenDone"}
Notifies == Cardinality(Requests) + notifs + (IF notify_in_flight THEN 1 ELSE 0)

(* The discipline the comment at NotifyWhenDone demands of its caller: one *)
(* notification is under way exactly while the REPL waits for it.          *)
NotifyDiscipline ==
  core # "dead" => Notifies = IF repl = "wait" THEN 1 ELSE 0

(* The drive setpoint wheel w ends up with once the channel is drained.    *)
Commanded(w) ==
  LET drives == {k \in DOMAIN cmds : cmds[k].op = "DriveVesc"}
  IN  IF drives # {} THEN cmds[CHOOSE k \in drives : \A j \in drives : j <= k].value
      ELSE IF core = "publish" /\ msg.op = "DriveVesc" THEN msg.value
      ELSE vesc[w]

(* When the REPL believes the rover is stopped, the last thing it was told *)
(* is to stop.                                                             *)
BelievedStopped ==
  repl = "prompt" /\ is_stopped /\ core # "dead" =>
    \A w \in Wheels : Commanded(w) = STOP

(* main.rs prints "Stopping rover..." and quits a second later: the rover  *)
(* has then been stopped, provided the commands in front of the stop and   *)
(* the one being published fit in that second.                             *)
QuitStops == exited = "quit" /\ core # "dead" /\ behind < Turns => Halted

(* main.rs, the ^C handler: "Stopping rover...": when it then ends the     *)
(* process, the rover has been stopped.                                    *)
CtrlCStops == exited = "ctrl_c" /\ core # "dead" => Halted

(* A move that steers always comes back to the prompt or ends with the     *)
(* process: the blocking recv is always answered, or panics.               *)
MoveReturns == repl = "wait" ~> repl # "wait" \/ exited # "no"

(* "Immediately halts the rover": once the REPL believes it is stopped the *)
(* rover does stop, unless the operator moves on or a thread has ended.    *)
StopWorks ==
  is_stopped ~> Halted \/ ~is_stopped \/ exited # "no" \/ core = "dead"

=============================================================================
