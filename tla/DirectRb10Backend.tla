-------------------------- MODULE DirectRb10Backend --------------------------
(***************************************************************************)
(* The direct RB10 backend of the controller node: its constructor and     *)
(* destructor, the control thread that calls ready(), read_state() and     *)
(* apply_command(), the servo thread that drains the one-place command     *)
(* slot, and on_state(), which the socket client's data thread calls for   *)
(* every state packet of the robot.                                        *)
(*                                                                         *)
(* Every thread has a program counter; a step is one critical section, one *)
(* atomic access or one call into the socket client.  The socket client is *)
(* here only what its callers see of it (connected_, running_, a send that *)
(* succeeds, is dropped, or loses the connection); Rb10SocketClient models *)
(* its inside.                                                             *)
(***************************************************************************)
EXTENDS Naturals

CONSTANTS
    StartupMove,     \* startup_move_to_default_pose_
    UseFilter,       \* use_synced_input_velocity_filter_
    StopOnShutdown   \* stop_on_shutdown_

ASSUME ConfigAssumption ==
    /\ StartupMove \in BOOLEAN
    /\ UseFilter \in BOOLEAN
    /\ StopOnShutdown \in BOOLEAN

VARIABLES
    main,            \* where the thread that owns the node stands
    ctl,             \* control_loop(), as far as it uses the backend
    servo,           \* servo_command_loop()
    data,            \* read_data_loop() and on_state()
    pkt,             \* the packet on_state() is handling
    connected,       \* connected_
    running,         \* running_ of the socket client
    received,        \* state_received_
    blocked,         \* command_blocked_due_to_safety_
    waiting,         \* startup_waiting_for_home_
    deadline,        \* startup_release_deadline_: default or assigned
    expired,         \* the steady clock has passed the assigned deadline
    filter,          \* synced_input_velocity_filter_
    buffer,          \* what state_buffer_ holds for the next reader
    pending,         \* servo_command_pending_
    servo_running,   \* servo_command_thread_running_
    wire,            \* the last command written to the command socket
    leaked,          \* history: servo frames since the safety stop was seen
    leaked_cleared   \* history: servo frames since the slot was cleared for it

owner_vars  == <<main, deadline, servo_running>>
link_vars   == <<connected, running>>
state_vars  == <<data, pkt, received, filter, buffer>>
gate_vars   == <<blocked, waiting, expired>>
slot_vars   == <<ctl, servo, pending>>
history     == <<leaked, leaked_cleared>>
vars == <<main, ctl, servo, data, pkt, connected, running, received, blocked,
          waiting, deadline, expired, filter, buffer, pending,
          servo_running, wire, leaked, leaked_cleared>>

\* What a state packet says, as far as on_state() tells packets apart: a robot
\* safety flag is up, the startup pose is within tolerance, and the callback's
\* clock reading is past the assigned deadline.
Packet == [blocked : BOOLEAN, home : BOOLEAN, late : BOOLEAN]

Constructing == {"connect", "init", "filter", "move_j", "arm", "deadline",
                 "servo", "control"}
Destroying   == {"join_control", "stop_servo", "notify_servo", "join_servo",
                 "shutdown", "disconnect", "join_data", "gone"}
Aborting     == {"abort", "abort_join", "failed"}

\* Joint states by their velocity: initial_q of the configuration, no velocity
\* (there is no filter yet), one filtered over samples that reach back before
\* the release, or one whose filter window starts at the release.
Sample == {"initial_q", "zero", "startup", "fresh"}

TypeOK ==
    /\ main \in Constructing \cup {"up"} \cup Destroying \cup Aborting
    /\ ctl \in {"off", "top", "computed", "checked", "queued", "done"}
    /\ servo \in {"off", "check", "asleep", "send", "done"}
    /\ data \in {"off", "idle", "write", "received", "exchange", "clear",
                 "gate", "open", "rewrite", "done"}
    /\ pkt \in Packet
    /\ connected \in BOOLEAN
    /\ running \in BOOLEAN
    /\ received \in BOOLEAN
    /\ blocked \in BOOLEAN
    /\ waiting \in BOOLEAN
    /\ deadline \in {"default", "assigned"}
    /\ expired \in BOOLEAN
    /\ filter \in {"none", "startup", "fresh"}
    /\ buffer \in Sample
    /\ pending \in BOOLEAN
    /\ servo_running \in BOOLEAN
    /\ wire \in {"none", "move_j", "move_servo_j", "halt"}
    /\ leaked \in Nat
    /\ leaked_cleared \in Nat

Init ==
    /\ main = "connect" /\ ctl = "off" /\ servo = "off" /\ data = "off"
    /\ pkt = [blocked |-> FALSE, home |-> FALSE, late |-> FALSE]
    /\ connected = FALSE /\ running = FALSE
    /\ received = FALSE /\ blocked = FALSE /\ waiting = FALSE
    /\ deadline = "default" /\ expired = FALSE
    /\ filter = "none" /\ buffer = "initial_q"
    /\ pending = FALSE /\ servo_running = TRUE
    /\ wire = "none" /\ leaked = 0 /\ leaked_cleared = 0

-----------------------------------------------------------------------------
(* The constructor: every call may fail, and a failure after connect()      *)
(* disconnects before it throws.                                            *)

Connect ==
    /\ main = "connect"
    /\ \/ /\ main' = "init"
          /\ connected' = TRUE /\ running' = TRUE /\ data' = "idle"
       \/ /\ main' = "failed"
          /\ UNCHANGED <<connected, running, data>>
    /\ UNCHANGED <<ctl, servo, pkt, received, filter, buffer, pending,
                   deadline, servo_running, gate_vars, wire, history>>

\* The owner's text commands: one is written, or it fails because the
\* connection is gone or is lost by this very send.
SendText(frame, sent, failed) ==
    \/ connected /\ main' = sent /\ wire' = frame /\ UNCHANGED connected
    \/ main' = failed /\ connected' = FALSE /\ UNCHANGED wire

InitializeRobot ==
    /\ main = "init"
    /\ SendText(wire, "filter", "abort")
    /\ UNCHANGED <<running, deadline, servo_running, state_vars, gate_vars,
                   slot_vars, history>>

CreateFilter ==
    /\ main = "filter"
    /\ main' = IF StartupMove THEN "move_j" ELSE "servo"
    /\ filter' = IF UseFilter THEN "startup" ELSE "none"
    /\ UNCHANGED <<deadline, servo_running, link_vars, data, pkt, received,
                   buffer, gate_vars, slot_vars, wire, history>>

StartupMoveJ ==
    /\ main = "move_j"
    /\ SendText("move_j", "arm", "abort")
    /\ UNCHANGED <<running, deadline, servo_running, state_vars, gate_vars,
                   slot_vars, history>>

\* The flag is raised first, the deadline assigned after it.
ArmHomeGate ==
    /\ main = "arm"
    /\ main' = "deadline"
    /\ waiting' = TRUE
    /\ UNCHANGED <<deadline, servo_running, link_vars, state_vars, blocked,
                   expired, slot_vars, wire, history>>

AssignDeadline ==
    /\ main = "deadline"
    /\ main' = "servo"
    /\ deadline' = "assigned"
    /\ UNCHANGED <<servo_running, link_vars, state_vars, gate_vars, slot_vars,
                   wire, history>>

StartServoThread ==
    /\ main = "servo"
    /\ main' = "control"
    /\ servo' = "check"
    /\ UNCHANGED <<deadline, servo_running, link_vars, state_vars, gate_vars,
                   ctl, pending, wire, history>>

\* The node starts its control thread once the backend exists.
StartControlThread ==
    /\ main = "control"
    /\ main' = "up"
    /\ ctl' = "top"
    /\ UNCHANGED <<deadline, servo_running, link_vars, state_vars, gate_vars,
                   servo, pending, wire, history>>

-----------------------------------------------------------------------------
(* The destructors, node first and backend after it.                        *)

StopNode ==
    /\ main = "up"
    /\ main' = "join_control"
    /\ UNCHANGED <<deadline, servo_running, link_vars, state_vars, gate_vars,
                   slot_vars, wire, history>>

\* Mutant: the backend goes while the control thread still runs.
JoinControl_skipped ==
    /\ main = "join_control"
    /\ main' = "stop_servo"
    /\ UNCHANGED <<deadline, servo_running, link_vars, state_vars, gate_vars,
                   slot_vars, wire, history>>

JoinControl ==
    /\ main = "join_control" /\ ctl = "done"
    /\ main' = "stop_servo"
    /\ UNCHANGED <<deadline, servo_running, link_vars, state_vars, gate_vars,
                   slot_vars, wire, history>>

StopServoThread ==
    /\ main = "stop_servo"
    /\ main' = "notify_servo"
    /\ servo_running' = FALSE
    /\ pending' = FALSE
    /\ UNCHANGED <<deadline, link_vars, state_vars, gate_vars, ctl,
                   servo, wire, history>>

\* notify_all() and notify_one(): one thread at most waits on this condition.
WakeServo == servo' = IF servo = "asleep" THEN "check" ELSE servo

\* Mutant: the servo thread is told to stop in its sleep.
NotifyServoStop_forgotten ==
    /\ main = "notify_servo"
    /\ main' = "join_servo"
    /\ UNCHANGED <<deadline, servo_running, link_vars, state_vars, gate_vars,
                   slot_vars, wire, history>>

NotifyServoStop ==
    /\ main = "notify_servo"
    /\ main' = "join_servo"
    /\ WakeServo
    /\ UNCHANGED <<deadline, servo_running, link_vars, state_vars, gate_vars,
                   ctl, pending, wire, history>>

\* Mutant: the shutdown sequence is sent beside a live servo thread.
JoinServo_skipped ==
    /\ main = "join_servo"
    /\ main' = IF StopOnShutdown /\ connected THEN "shutdown" ELSE "disconnect"
    /\ UNCHANGED <<deadline, servo_running, link_vars, state_vars, gate_vars,
                   slot_vars, wire, history>>

JoinServo ==
    /\ main = "join_servo" /\ servo = "done"
    /\ main' = IF StopOnShutdown /\ connected THEN "shutdown" ELSE "disconnect"
    /\ UNCHANGED <<deadline, servo_running, link_vars, state_vars, gate_vars,
                   slot_vars, wire, history>>

ShutdownSequence ==
    /\ main = "shutdown"
    /\ SendText("halt", "disconnect", "disconnect")
    /\ UNCHANGED <<running, deadline, servo_running, state_vars, gate_vars,
                   slot_vars, history>>

\* disconnect(): stop_threads() joins the data thread before the sockets go.
Disconnect ==
    /\ \/ main = "disconnect" /\ main' = "join_data"
       \/ main = "abort" /\ main' = "abort_join"
    /\ running' = FALSE
    /\ UNCHANGED <<connected, deadline, servo_running, state_vars, gate_vars,
                   slot_vars, wire, history>>

JoinData ==
    /\ data = "done"
    /\ \/ main = "join_data" /\ main' = "gone"
       \/ main = "abort_join" /\ main' = "failed"
    /\ connected' = FALSE
    /\ UNCHANGED <<running, deadline, servo_running, state_vars, gate_vars,
                   slot_vars, wire, history>>

-----------------------------------------------------------------------------
(* The control thread.                                                      *)

\* Mutant: the home gate is not part of readiness.
ready_ignores_home == connected /\ received

ready == connected /\ received /\ ~waiting

BeginCycle ==
    /\ ctl = "top" /\ main = "up" /\ ready
    /\ ctl' = "computed"
    /\ UNCHANGED <<owner_vars, link_vars, state_vars, gate_vars, servo, pending,
                   wire, history>>

\* A cycle that stands by, or whose apply_command() returns at a guard.
SkipCommand ==
    /\ ctl = "computed"
    /\ ctl' = "top"
    /\ UNCHANGED <<owner_vars, link_vars, state_vars, gate_vars, servo, pending,
                   wire, history>>

\* Mutant: apply_command() does not look at the safety flag.
PassGuards_ignores_stop ==
    /\ ctl = "computed" /\ ready
    /\ ctl' = "checked"
    /\ UNCHANGED <<owner_vars, link_vars, state_vars, gate_vars, servo, pending,
                   wire, history>>

PassGuards ==
    /\ ctl = "computed" /\ ready /\ ~blocked
    /\ ctl' = "checked"
    /\ UNCHANGED <<owner_vars, link_vars, state_vars, gate_vars, servo, pending,
                   wire, history>>

queue_servo_command ==
    /\ ctl = "checked"
    /\ ctl' = "queued"
    /\ pending' = TRUE
    /\ UNCHANGED <<owner_vars, link_vars, state_vars, gate_vars, servo,
                   wire, history>>

\* Mutant: the command is queued and nobody is told.
NotifyServo_forgotten ==
    /\ ctl = "queued"
    /\ ctl' = "top"
    /\ UNCHANGED <<owner_vars, link_vars, state_vars, gate_vars, servo, pending,
                   wire, history>>

NotifyServo ==
    /\ ctl = "queued"
    /\ ctl' = "top"
    /\ WakeServo
    /\ UNCHANGED <<owner_vars, link_vars, state_vars, gate_vars,
                   pending, wire, history>>

ControlExit ==
    /\ ctl = "top" /\ main = "join_control"
    /\ ctl' = "done"
    /\ UNCHANGED <<owner_vars, link_vars, state_vars, gate_vars, servo, pending,
                   wire, history>>

-----------------------------------------------------------------------------
(* The servo thread.                                                        *)

ServoWait ==
    /\ servo = "check" /\ servo_running /\ ~pending
    /\ servo' = "asleep"
    /\ UNCHANGED <<owner_vars, link_vars, state_vars, gate_vars, ctl,
                   pending, wire, history>>

ServoTake ==
    /\ servo = "check" /\ pending
    /\ servo' = "send"
    /\ pending' = FALSE
    /\ UNCHANGED <<owner_vars, link_vars, state_vars, gate_vars, ctl,
                   wire, history>>

ServoExit ==
    /\ servo = "check" /\ ~servo_running /\ ~pending
    /\ servo' = "done"
    /\ UNCHANGED <<owner_vars, link_vars, state_vars, gate_vars, ctl,
                   pending, wire, history>>

\* The frame leaves; blocked is not looked at again.
ServoSend ==
    /\ servo = "send" /\ connected
    /\ servo' = "check"
    /\ wire' = "move_servo_j"
    /\ leaked' = IF blocked THEN leaked + 1 ELSE leaked
    /\ leaked_cleared' = IF blocked /\ data # "clear"
                           THEN leaked_cleared + 1 ELSE leaked_cleared
    /\ UNCHANGED <<owner_vars, link_vars, state_vars, gate_vars, ctl,
                   pending>>

\* No response within the bound, no connection, or a write that fails and
\* takes the connection down: the command is dropped.
ServoDrop ==
    /\ servo = "send"
    /\ servo' = "check"
    /\ connected' \in {connected, FALSE}
    /\ UNCHANGED <<owner_vars, running, state_vars, gate_vars, ctl,
                   pending, wire, history>>

-----------------------------------------------------------------------------
(* The data thread: one state packet, from its arrival to the end of        *)
(* on_state().                                                              *)

Receive ==
    /\ data = "idle" /\ running /\ connected
    /\ pkt' \in {p \in Packet : p.late = expired}
    /\ data' = "write"
    /\ UNCHANGED <<owner_vars, link_vars, received, filter, buffer, gate_vars,
                   slot_vars, wire, history>>

\* writeFromNonRT() of the filtered sample, under the buffer's lock.
WriteState ==
    /\ data = "write"
    /\ data' = "received"
    /\ buffer' = IF filter = "none" THEN "zero" ELSE filter
    /\ UNCHANGED <<owner_vars, link_vars, pkt, received, filter, gate_vars,
                   slot_vars, wire, history>>

SetReceived ==
    /\ data = "received"
    /\ data' = "exchange"
    /\ received' = TRUE
    /\ UNCHANGED <<owner_vars, link_vars, pkt, filter, buffer, gate_vars,
                   slot_vars, wire, history>>

ExchangeBlocked ==
    /\ data = "exchange"
    /\ blocked' = pkt.blocked
    /\ data' = IF pkt.blocked /\ ~blocked THEN "clear" ELSE "gate"
    /\ leaked' = IF pkt.blocked /\ blocked THEN leaked ELSE 0
    /\ leaked_cleared' = IF pkt.blocked /\ blocked THEN leaked_cleared ELSE 0
    /\ UNCHANGED <<owner_vars, link_vars, pkt, received, filter, buffer,
                   waiting, expired, slot_vars, wire>>

\* Mutant: the slot keeps its command through a safety stop.
clear_pending_forgotten ==
    /\ data = "clear"
    /\ data' = "gate"
    /\ UNCHANGED <<owner_vars, link_vars, pkt, received, filter, buffer,
                   gate_vars, slot_vars, wire, history>>

clear_pending_servo_command ==
    /\ data = "clear"
    /\ data' = "gate"
    /\ pending' = FALSE
    /\ UNCHANGED <<owner_vars, link_vars, pkt, received, filter, buffer,
                   gate_vars, ctl, servo, wire, history>>

\* Mutant: only the startup pose opens the gate.
HomeGate_without_timeout ==
    /\ data = "gate"
    /\ data' = IF waiting /\ pkt.home THEN "open" ELSE "idle"
    /\ UNCHANGED <<owner_vars, link_vars, pkt, received, filter, buffer,
                   gate_vars, slot_vars, wire, history>>

\* A default-constructed deadline is in the past of every clock reading.
HomeGate ==
    /\ data = "gate"
    /\ data' = IF waiting /\ (pkt.home \/ deadline = "default" \/ pkt.late)
                 THEN "open" ELSE "idle"
    /\ UNCHANGED <<owner_vars, link_vars, pkt, received, filter, buffer,
                   gate_vars, slot_vars, wire, history>>

OpenHomeGate ==
    /\ data = "open"
    /\ data' = IF UseFilter THEN "rewrite" ELSE "idle"
    /\ waiting' = FALSE
    /\ UNCHANGED <<owner_vars, link_vars, pkt, received, filter, buffer,
                   blocked, expired, slot_vars, wire, history>>

\* Mutant: the filter is reset, the buffer keeps the old velocity.
RewriteState_forgotten ==
    /\ data = "rewrite"
    /\ data' = "idle"
    /\ filter' = "fresh"
    /\ UNCHANGED <<owner_vars, link_vars, pkt, received, buffer, gate_vars,
                   slot_vars, wire, history>>

\* The filter is reset and the state written again with zero velocity.
RewriteState ==
    /\ data = "rewrite"
    /\ data' = "idle"
    /\ filter' = "fresh"
    /\ buffer' = "fresh"
    /\ UNCHANGED <<owner_vars, link_vars, pkt, received, gate_vars, slot_vars,
                   wire, history>>

DataExit ==
    /\ data = "idle" /\ ~(running /\ connected)
    /\ data' = "done"
    /\ UNCHANGED <<owner_vars, link_vars, pkt, received, filter, buffer,
                   gate_vars, slot_vars, wire, history>>

-----------------------------------------------------------------------------
(* The environment: another thread of the socket client loses the           *)
(* connection, and time passes the release deadline.                        *)

LoseConnection ==
    /\ connected
    /\ connected' = FALSE
    /\ UNCHANGED <<owner_vars, running, state_vars, gate_vars, slot_vars,
                   wire, history>>

DeadlinePasses ==
    /\ deadline = "assigned" /\ ~expired
    /\ expired' = TRUE
    /\ UNCHANGED <<owner_vars, link_vars, state_vars, blocked, waiting,
                   slot_vars, wire, history>>

Constructor ==
    \/ Connect \/ InitializeRobot \/ CreateFilter \/ StartupMoveJ
    \/ ArmHomeGate \/ AssignDeadline \/ StartServoThread \/ StartControlThread
Destructor ==
    \/ JoinControl \/ StopServoThread \/ NotifyServoStop \/ JoinServo
    \/ ShutdownSequence \/ Disconnect \/ JoinData
ControlThread ==
    \/ BeginCycle \/ SkipCommand \/ PassGuards \/ queue_servo_command
    \/ NotifyServo \/ ControlExit
ServoThread == ServoWait \/ ServoTake \/ ServoExit \/ ServoSend \/ ServoDrop
OnState ==
    \/ WriteState \/ SetReceived \/ ExchangeBlocked
    \/ clear_pending_servo_command \/ HomeGate \/ OpenHomeGate
    \/ RewriteState \/ DataExit
Environment == LoseConnection \/ DeadlinePasses

\* The finished program: nothing is left to run.
Terminated == main \in {"gone", "failed"} /\ UNCHANGED vars

Next ==
    \/ Constructor \/ StopNode \/ Destructor \/ ControlThread \/ ServoThread
    \/ Receive \/ OnState \/ Environment \/ Terminated

Spec == Init /\ [][Next]_vars

\* Every thread of the process keeps running, the robot keeps answering while
\* it is connected, a send ends (it is written, dropped or loses the
\* connection), and the clock does not stop.
FairSpec ==
    /\ Spec
    /\ WF_vars(Constructor) /\ WF_vars(Destructor)
    /\ WF_vars(ControlThread) /\ WF_vars(ServoThread) /\ WF_vars(OnState)
    /\ WF_vars(Receive) /\ WF_vars(DeadlinePasses)

-----------------------------------------------------------------------------
(* Safety.                                                                  *)

B(condition) == IF condition THEN 1 ELSE 0

\* Commands that passed every check of apply_command() and are neither on the
\* wire nor dropped: one in the control thread, one in the slot, one in send.
Admitted == B(ctl = "checked") + B(pending) + B(servo = "send")

\* After a safety stop is seen, at most three commands still reach the robot:
\* the one being sent, the one in the slot if the servo thread takes it before
\* on_state() clears the slot, and the one whose control cycle read the flag
\* just before it went up.  Once the slot has been cleared for the stop, at most
\* two more follow while it lasts.
LeakBound ==
    blocked =>
        /\ leaked <= 3
        /\ data # "clear" => leaked_cleared <= 2

\* No servo command exists anywhere in the pipeline, nor has one reached the
\* robot, before the backend is built, a state packet has been published and
\* the home gate is open.
GateHoldsServo ==
    Admitted > 0 \/ wire = "move_servo_j" =>
        received /\ ~waiting /\ main \notin Constructing

\* A velocity measured while the startup move ran is gone from the state
\* buffer once the callback that opened the home gate has rewritten it.
ReleasedVelocityFresh ==
    StartupMove /\ ~waiting /\ data # "rewrite"
    /\ main \in {"servo", "control", "up"} \cup Destroying
        => buffer # "startup"

\* The stop sequence of the destructor is the last thing written to the
\* robot: no servo command of this session follows it.
HaltIsFinal == [][wire = "halt" => wire' = "halt"]_wire

-----------------------------------------------------------------------------
(* What the log says of the home gate.                                      *)

\* "waiting to release the control loop until home is reached or timeout
\* expires": the packet that opens the gate shows one of the two.
ReleasedAtHomeOrTimeout == [][waiting /\ ~waiting' => pkt.home \/ pkt.late]_vars

-----------------------------------------------------------------------------
(* Liveness.                                                                *)

\* Destroying the node ends: no join waits for ever.
ShutdownCompletes == main = "join_control" ~> main = "gone"

\* A queued command does not stay in the slot: it is taken or cleared.
SlotDrains == pending ~> ~pending

\* The home gate opens by itself while the robot keeps sending packets.
HomeGateOpens == waiting ~> ~waiting \/ ~connected \/ ~running

-----------------------------------------------------------------------------
(* The backend implements the command gate.                                 *)

Gate == INSTANCE CommandGate WITH
    Depth   <- 3,
    phase   <- IF ctl = "done" THEN "closing"
               ELSE IF ctl = "off" \/ waiting THEN "held" ELSE "open",
    stopped <- blocked,
    credit  <- Admitted,
    halted  <- wire = "halt"

\* Commands enter only while the gate is open and no safety stop is seen, at
\* most three are under way, and the halt comes when none is.
ImplementsGate == Gate!Spec
=============================================================================
